------------------------- MODULE StaticAnalysisProofs -------------------------
(***************************************************************************)
(* What the row of stage 2B may claim, for any files and warnings.  IInv   *)
(* says which files each tool has seen, and which decisions a field of the *)
(* row stands for; VInv says the same of SpotBugs and S_vuln: what a side  *)
(* was found to have, and which answers the value was computed from.       *)
(***************************************************************************)
EXTENDS StaticAnalysis, FiniteSetTheorems, TLAPS

RowShape ==
  row = [edit |-> row.edit, editError |-> row.editError, vuln |-> row.vuln, delta |-> row.delta]

\* Every changed file waits, was compared or failed.
FilesSeen == todo \cup DOMAIN files \cup errors = changed

\* Once GumTree is through, S_edit and its error are of all it was asked.
EditDecided ==
  pc # "gumtree" =>
    todo = {} /\ row.edit.den = Nodes /\ row.editError = (errors # {} \/ Nodes = 0)

\* A side that has not failed adds up every changed method.
Summed ==
  /\ level \in [Side -> Level] /\ summed \in [Side -> SUBSET File]
  /\ pc = "gumtree" => level = [s \in Side |-> "FAILED"]
  /\ \A s \in Side : level[s] # "FAILED" => Measured # {} /\ summed[s] = Measured

DeltaDecided == row.delta => \A s \in Side : level[s] # "FAILED"

\* No delta is computed before both sides have their level.
DeltaLast == pc # "done" => ~row.delta

IInv == RowShape /\ changed \subseteq File /\ FilesSeen /\ EditDecided /\ Summed
        /\ DOMAIN files \subseteq File /\ DeltaDecided /\ DeltaLast

-----------------------------------------------------------------------------
\* One method that fails makes the side fail.
LEMMA LowestFails ==
  ASSUME NEW levels \in SUBSET Level, "FAILED" \in levels
  PROVE  Lowest(levels) = "FAILED"
<1>1. \A l \in Level : LevelOrder["FAILED"] <= LevelOrder[l]
                       /\ (LevelOrder[l] <= LevelOrder["FAILED"] => l = "FAILED")
  BY DEF Level, LevelOrder
<1>2. Lowest(levels) \in levels
      /\ \A k \in levels : LevelOrder[Lowest(levels)] <= LevelOrder[k]
  BY <1>1 DEF Lowest
<1> QED
  BY <1>1, <1>2

\* Levels of the methods and their lowest are levels.
LEMMA LowestType ==
  ASSUME NEW levels \in SUBSET Level, levels # {}
  PROVE  Lowest(levels) \in Level
<1>1. \E l \in levels : \A k \in levels : LevelOrder[l] <= LevelOrder[k]
  BY DEF Level, LevelOrder
<1> QED
  BY <1>1 DEF Lowest

\* The initial states satisfy the invariant.
LEMMA InitIInv == ASSUME Init PROVE IInv
<1>1. DOMAIN files = {}
  BY DEF Init
<1>2. level \in [Side -> Level] /\ summed \in [Side -> SUBSET File]
  BY DEF Init, Level, LevelOrder
<1>3. RowShape /\ DeltaDecided /\ DeltaLast
  BY DEF Init, NoRow, RowShape, DeltaDecided, DeltaLast
<1>4. Summed
  BY <1>2 DEF Init, Summed
<1> QED
  BY <1>1, <1>3, <1>4 DEF Init, IInv, FilesSeen, EditDecided

\* Steps after GumTree that touch the row's warnings alone, or nothing of it.
LEMMA LaterStep ==
  ASSUME IInv, UNCHANGED <<changed, todo, files, errors, level, summed>>,
         pc # "gumtree", pc # "done", pc' # "gumtree",
         \/ row' = row
         \/ \E v : row' = [row EXCEPT !.vuln = v]
  PROVE  IInv'
<1>1. RowShape' /\ row'.edit = row.edit /\ row'.editError = row.editError /\ row'.delta = row.delta
  BY DEF IInv, RowShape
<1>2. Nodes' = Nodes /\ Measured' = Measured
  BY DEF Nodes, Measured
<1> QED
  BY <1>1, <1>2 DEF IInv, FilesSeen, EditDecided, Summed, DeltaDecided, DeltaLast

\* Every step preserves the invariant.
LEMMA NextIInv == ASSUME IInv, [Next]_vars PROVE IInv'
<1>1. ASSUME NEW f \in File, GumTree(f) PROVE IInv'
  <2>1. /\ pc = "gumtree" /\ f \in todo /\ todo' = todo \ {f}
        /\ UNCHANGED <<changed, pc, level, summed, row>>
        /\ DOMAIN files' \cup errors' = DOMAIN files \cup errors \cup {f}
        /\ DOMAIN files' \subseteq DOMAIN files \cup {f}
    BY <1>1 DEF GumTree, input
  <2>2. \A s \in Side : level[s] = "FAILED"
    BY <2>1 DEF IInv, Summed
  <2>3. Summed'
    BY <2>1, <2>2 DEF IInv, Summed
  <2> QED
    BY <2>1, <2>3 DEF IInv, RowShape, FilesSeen, EditDecided, DeltaDecided, DeltaLast
<1>2. CASE EndGumTree
  <2>1. /\ UNCHANGED <<changed, todo, files, errors, level, summed>> /\ row' = Edited
        /\ pc = "gumtree" /\ pc' = "buggy" /\ todo = {}
    BY <1>2 DEF EndGumTree, input
  <2>2. /\ RowShape' /\ row'.edit.den = Nodes /\ row'.editError = (errors # {} \/ Nodes = 0)
        /\ row'.delta = row.delta
    BY <2>1 DEF IInv, RowShape, Edited
  <2>3. Nodes' = Nodes /\ Measured' = Measured
    BY <2>1 DEF Nodes, Measured
  <2> QED
    BY <2>1, <2>2, <2>3 DEF IInv, FilesSeen, EditDecided, Summed, DeltaDecided, DeltaLast
<1>3. ASSUME NEW s \in Side, SpotBugs(s) PROVE IInv'
  BY <1>3, LaterStep DEF SpotBugs, Side, input
<1>4. CASE Vuln
  <2>1. row' = row \/ \E v : row' = [row EXCEPT !.vuln = v]
    BY <1>4 DEF Vuln
  <2> QED
    BY <1>4, <2>1, LaterStep DEF Vuln, input
<1>5. ASSUME NEW s \in Side, Cfg(s) PROVE IInv'
  <2>1. /\ UNCHANGED <<changed, todo, files, errors, row>>
        /\ pc # "gumtree" /\ pc # "done" /\ pc' # "gumtree" /\ pc' # "done"
    BY <1>5 DEF Cfg, Side, CfgOf, input
  <2>2. Nodes' = Nodes /\ Measured' = Measured
    BY <2>1 DEF Nodes, Measured
  <2>3. Summed'
    <3>1. CASE UNCHANGED <<level, summed>>
      BY <2>1, <2>2, <3>1 DEF IInv, Summed
    <3>2. CASE Measured # {} /\ \E l \in [Measured -> Level] :
                 /\ level'  = [level EXCEPT ![s] = Lowest({l[f] : f \in Measured})]
                 /\ summed' = [summed EXCEPT ![s] = {f \in Measured : l[f] # "FAILED"}]
      <4>1. PICK l \in [Measured -> Level] :
              /\ level'  = [level EXCEPT ![s] = Lowest({l[f] : f \in Measured})]
              /\ summed' = [summed EXCEPT ![s] = {f \in Measured : l[f] # "FAILED"}]
        BY <3>2
      <4> DEFINE levels == {l[f] : f \in Measured}
      <4>2. levels \in SUBSET Level /\ levels # {}
        BY <3>2
      <4>3. Lowest(levels) \in Level
        BY <4>2, LowestType
      <4>4. Lowest(levels) # "FAILED" => {f \in Measured : l[f] # "FAILED"} = Measured
        BY <4>2, LowestFails
      <4>5. Measured \subseteq File
        BY DEF IInv, Measured
      <4> HIDE DEF levels
      <4>6. level' \in [Side -> Level] /\ summed' \in [Side -> SUBSET File]
        BY <4>1, <4>3, <4>5 DEF IInv, Summed, levels
      <4>7. \A t \in Side : level'[t] # "FAILED" => Measured # {} /\ summed'[t] = Measured
        BY <3>2, <4>1, <4>4 DEF IInv, Summed, levels
      <4> QED
        BY <2>1, <2>2, <4>6, <4>7 DEF Summed
    <3> QED
      BY <1>5, <3>1, <3>2 DEF Cfg
  <2> QED
    BY <2>1, <2>2, <2>3 DEF IInv, RowShape, FilesSeen, EditDecided, DeltaDecided, DeltaLast
<1>6. CASE Assemble
  <2>1. /\ UNCHANGED <<changed, todo, files, errors, level, summed>>
        /\ pc = "assemble" /\ pc' = "done"
        /\ row' = [row EXCEPT !.delta = \A s \in Side : level[s] # "FAILED"]
    BY <1>6 DEF Assemble, input
  <2>2. /\ RowShape' /\ row'.edit = row.edit /\ row'.editError = row.editError
        /\ row'.delta = (\A s \in Side : level[s] # "FAILED")
    BY <2>1 DEF IInv, RowShape
  <2>3. Nodes' = Nodes /\ Measured' = Measured
    BY <2>1 DEF Nodes, Measured
  <2> QED
    BY <2>1, <2>2, <2>3 DEF IInv, FilesSeen, EditDecided, Summed, DeltaDecided, DeltaLast
<1>7. CASE UNCHANGED vars
  BY <1>7 DEF vars, input, IInv, RowShape, FilesSeen, EditDecided, Summed, DeltaDecided,
              DeltaLast, Nodes, Measured
<1> QED
  BY <1>1, <1>2, <1>3, <1>4, <1>5, <1>6, <1>7 DEF Next

\* The invariant holds throughout.
THEOREM Invariance == Spec => []IInv
<1>1. Init => IInv
  BY InitIInv
<1>2. IInv /\ [Next]_vars => IInv'
  BY NextIInv
<1> QED
  BY <1>1, <1>2, PTL DEF Spec

\* A delta compares the same methods in both trees (stage2b.py:112).
THEOREM DeltasCompare == Spec => []DeltasComparable
<1>1. ASSUME IInv PROVE DeltasComparable
  BY <1>1 DEF IInv, DeltaDecided, Summed, DeltasComparable, Side
<1> QED
  BY <1>1, Invariance, PTL

\* An S_edit of some of the files comes with its error (gumtree_edit.py:93).
THEOREM EditErrorIsTold == Spec => []EditErrorTold
<1>1. ASSUME IInv PROVE EditErrorTold
  BY <1>1 DEF IInv, FilesSeen, EditDecided, EditErrorTold
<1> QED
  BY <1>1, Invariance, PTL

-----------------------------------------------------------------------------
AfterVuln == {"cfg-buggy", "cfg-candidate", "assemble", "done"}

WarningsType ==
  /\ pc \in {"gumtree", "vuln"} \cup Side \cup AfterVuln
  /\ found \in [Side -> Warnings] /\ answered \subseteq Side /\ ran \subseteq answered
  /\ real \in [Side -> Warnings]

\* The scope is every changed file, whatever GumTree made of them.
ScopeDecided == (pc = "gumtree" => ran = {}) /\ (pc # "gumtree" => scope = changed)

\* What a run that works leaves of the warnings there are.
Restricted(s) == [k \in Key |-> IF FileOf[k] \in Targets(s) THEN real[s][k] ELSE {}]

\* A side that was analyzed has the warnings of its targets, all of them.
FoundBySide == \A s \in ran : found[s] = Restricted(s)

\* A value stands for the answers of both sides, and for their new warnings.
VulnDecided ==
  /\ pc \notin AfterVuln => row.vuln = Missing
  /\ pc \in AfterVuln =>
       /\ answered # Side => row.vuln = Missing
       /\ answered = Side => (row.vuln = 0 <=> NewKeys = {})

VInv == IInv /\ WarningsType /\ ScopeDecided /\ FoundBySide /\ VulnDecided

\* The weights add up to nothing exactly if there is no warning.
LEMMA WeightIsZero ==
  ASSUME WarningsType, NEW sev \in [NewKeys -> Severity]
  PROVE  Weight(sev) \in Nat /\ (Weight(sev) = 0 <=> NewKeys = {})
<1> DEFINE With(w) == {k \in NewKeys : sev[k] = w}
<1>1. \A w : IsFiniteSet(With(w))
  <2>1. NewKeys \subseteq Key
    BY DEF NewKeys
  <2> QED
    BY <2>1, StaticAssumption, FS_Subset
<1>2. \A w : Cardinality(With(w)) \in Nat /\ (Cardinality(With(w)) = 0 <=> With(w) = {})
  BY <1>1, FS_CardinalityType, FS_EmptySet
<1>3. Weight(sev) = Cardinality(With(1)) + 2 * Cardinality(With(2)) + 4 * Cardinality(With(4))
  BY DEF Weight
<1>4. NewKeys = {} <=> With(1) = {} /\ With(2) = {} /\ With(4) = {}
  <2>1. \A k \in NewKeys : sev[k] \in {1, 2, 4}
    BY StaticAssumption
  <2> QED
    BY <2>1
<1> DEFINE a == Cardinality(With(1))
           b == Cardinality(With(2))
           c == Cardinality(With(4))
<1>5. a \in Nat /\ b \in Nat /\ c \in Nat
  BY <1>2
<1>6. NewKeys = {} <=> a = 0 /\ b = 0 /\ c = 0
  BY <1>2, <1>4
<1>7. Weight(sev) = a + 2 * b + 4 * c
  BY <1>3
<1> HIDE DEF a, b, c
<1> QED
  BY <1>5, <1>6, <1>7

\* The initial states satisfy the invariant.
LEMMA InitVInv == ASSUME Init PROVE VInv
<1>1. WarningsType
  BY DEF Init, WarningsType, NoWarning, Warnings
<1> QED
  BY <1>1, InitIInv DEF Init, VInv, ScopeDecided, FoundBySide, VulnDecided, NoRow, AfterVuln

\* Steps outside the analysis of warnings.
LEMMA OtherStep ==
  ASSUME VInv, UNCHANGED <<changed, compiled, real, found, answered, ran>>,
         row'.vuln = row.vuln, IInv',
         pc' \in {"gumtree", "vuln"} \cup Side \cup AfterVuln,
         pc' # "gumtree" => scope' = changed, pc' = "gumtree" => pc = "gumtree",
         pc # "gumtree" => scope' = scope,
         pc \in AfterVuln <=> pc' \in AfterVuln
  PROVE  VInv'
<1>1. WarningsType'
  BY DEF VInv, WarningsType
<1>2. ScopeDecided'
  BY DEF VInv, ScopeDecided
<1>3. FoundBySide'
  BY DEF VInv, ScopeDecided, FoundBySide, Restricted, Targets
<1>4. VulnDecided'
  BY DEF VInv, VulnDecided, NewKeys
<1> QED
  BY <1>1, <1>2, <1>3, <1>4 DEF VInv

\* Every step preserves the invariant.
LEMMA NextVInv == ASSUME VInv, [Next]_vars PROVE VInv'
<1>1. IInv'
  BY NextIInv DEF VInv
<1>2. ASSUME NEW f \in File, GumTree(f) PROVE VInv'
  BY <1>1, <1>2, OtherStep DEF GumTree, input
<1>3. CASE EndGumTree
  <2>1. ScopeOf = changed
    BY DEF VInv, IInv, FilesSeen, ScopeOf
  <2>2. row'.vuln = row.vuln
    BY <1>3 DEF EndGumTree, Edited, VInv, IInv, RowShape
  <2>3. pc = "gumtree" /\ pc' = "buggy" /\ scope' = changed
    BY <1>3, <2>1 DEF EndGumTree
  <2> QED
    BY <1>1, <1>3, <2>2, <2>3, OtherStep DEF EndGumTree, input, Side, AfterVuln
<1>4. ASSUME NEW s \in Side, SpotBugs(s) PROVE VInv'
  <2>1. /\ UNCHANGED <<changed, compiled, real, scope, row>> /\ pc = s
        /\ pc' = IF s = "buggy" THEN "candidate" ELSE "vuln"
    BY <1>4 DEF SpotBugs, input
  <2>2. Restricted(s)' = Restricted(s) /\ \A t \in Side : Restricted(t)' = Restricted(t)
    BY <2>1 DEF Restricted, Targets
  <2>3. Restricted(s) \in Warnings
    BY DEF VInv, WarningsType, Warnings, Restricted
  <2>4. \/ UNCHANGED <<found, answered, ran>>
        \/ /\ answered' = answered \cup {s} /\ ran' = ran \cup {s}
           /\ found' = [found EXCEPT ![s] = Restricted(s)]
        \/ answered' = answered \cup {s} /\ UNCHANGED <<found, ran>>
    BY <1>4 DEF SpotBugs, Restricted
  <2>5. WarningsType'
    BY <2>1, <2>3, <2>4 DEF VInv, WarningsType, Side
  <2>6. ScopeDecided'
    BY <2>1 DEF VInv, ScopeDecided, Side
  <2>7. FoundBySide'
    BY <2>2, <2>4 DEF VInv, WarningsType, FoundBySide
  <2>8. VulnDecided'
    BY <2>1 DEF VInv, VulnDecided, Side, AfterVuln
  <2> QED
    BY <1>1, <2>5, <2>6, <2>7, <2>8 DEF VInv
<1>5. CASE Vuln
  <2>1. /\ UNCHANGED <<changed, compiled, real, scope, found, answered, ran>>
        /\ pc = "vuln" /\ pc' = "cfg-buggy"
    BY <1>5 DEF Vuln, input
  <2>2. NewKeys' = NewKeys
    BY <2>1 DEF NewKeys
  <2>3. answered # Side => row'.vuln = Missing
    BY <1>5 DEF Vuln, VInv, VulnDecided, AfterVuln
  <2>4. ASSUME answered = Side PROVE row'.vuln = 0 <=> NewKeys = {}
    <3>1. PICK sev \in [NewKeys -> Severity] :
             row' = [row EXCEPT !.vuln = IF Weight(sev) < 4 THEN Weight(sev) ELSE 4]
      BY <1>5, <2>4 DEF Vuln
    <3>2. row'.vuln = IF Weight(sev) < 4 THEN Weight(sev) ELSE 4
      BY <3>1 DEF VInv, IInv, RowShape
    <3>3. Weight(sev) \in Nat /\ (Weight(sev) = 0 <=> NewKeys = {})
      BY WeightIsZero DEF VInv
    <3> QED
      BY <3>2, <3>3
  <2>5. VulnDecided'
    BY <2>1, <2>2, <2>3, <2>4 DEF VulnDecided, AfterVuln
  <2>6. WarningsType' /\ ScopeDecided'
    BY <2>1 DEF VInv, WarningsType, ScopeDecided, AfterVuln
  <2>7. FoundBySide'
    BY <2>1 DEF VInv, FoundBySide, Restricted, Targets
  <2> QED
    BY <1>1, <2>5, <2>6, <2>7 DEF VInv
<1>6. ASSUME NEW s \in Side, Cfg(s) PROVE VInv'
  <2>1. pc \in AfterVuln /\ pc' \in AfterVuln /\ pc # "gumtree" /\ pc' # "gumtree"
    BY <1>6 DEF Cfg, Side, CfgOf, AfterVuln
  <2> QED
    BY <1>1, <1>6, <2>1, OtherStep DEF Cfg, input, VInv, ScopeDecided
<1>7. CASE Assemble
  <2>1. row'.vuln = row.vuln
    BY <1>7 DEF Assemble, VInv, IInv, RowShape
  <2> QED
    BY <1>1, <1>7, <2>1, OtherStep DEF Assemble, input, VInv, ScopeDecided, AfterVuln
<1>8. CASE UNCHANGED vars
  BY <1>1, <1>8, OtherStep DEF vars, input, VInv, ScopeDecided, WarningsType
<1> QED
  BY <1>2, <1>3, <1>4, <1>5, <1>6, <1>7, <1>8 DEF Next

\* The invariant holds throughout.
THEOREM WarningsInvariance == Spec => []VInv
<1>1. Init => VInv
  BY InitVInv
<1>2. VInv /\ [Next]_vars => VInv'
  BY NextVInv
<1> QED
  BY <1>1, <1>2, PTL DEF Spec

\* S_vuln is zero exactly if no changed file has a new kind of warning, those
\* GumTree gave up on included (stage2b.py:99, vuln.py:110).
THEOREM SeesEveryFile == Spec => []VulnSeesEveryFile
<1>1. ASSUME VInv PROVE VulnSeesEveryFile
  <2> SUFFICES ASSUME pc = "done", ran = Side, \A s \in Side : changed \subseteq compiled[s]
               PROVE  row.vuln = 0 <=> ~\E k \in Key : FileOf[k] \in changed /\ NewIn(k)
    BY DEF VulnSeesEveryFile
  <2>1. answered = Side /\ scope = changed
    BY <1>1 DEF VInv, WarningsType, ScopeDecided
  <2>2. \A s \in Side : Targets(s) = changed
    BY <2>1 DEF Targets
  <2>3. \A s \in Side : \A k \in Key : found[s][k] = IF FileOf[k] \in changed THEN real[s][k] ELSE {}
    <3> TAKE s \in Side
    <3>1. found[s] = [k \in Key |-> IF FileOf[k] \in changed THEN real[s][k] ELSE {}]
      BY <1>1, <2>2 DEF VInv, FoundBySide, Restricted
    <3> QED
      BY <3>1
  <2>4. row.vuln = 0 <=> NewKeys = {}
    BY <1>1, <2>1 DEF VInv, VulnDecided, AfterVuln
  <2> QED
    BY <2>3, <2>4 DEF NewKeys, NewIn, Side
<1> QED
  BY <1>1, WarningsInvariance, PTL

-----------------------------------------------------------------------------
\* The zero that stage 2B promises never to write for a failed analysis has one
\* cause only, an analyzer that crashes without a word: while every answer is
\* that of a run, a zero is one of both sides (vuln.py:86, vuln.py:112).
THEOREM CrashAloneMisleads == Spec /\ [][ran' = answered']_vars => []MissingNeverZero
<1> DEFINE Honest == VInv /\ ran = answered
<1>1. Init => Honest
  BY InitVInv DEF Init
<1>2. Honest /\ [Next /\ ran' = answered']_vars => Honest'
  BY NextVInv DEF vars
<1>3. ASSUME Honest PROVE MissingNeverZero
  BY <1>3 DEF VInv, VulnDecided, AfterVuln, MissingNeverZero, Missing
<1> HIDE DEF Honest
<1>4. [Next]_vars /\ [ran' = answered']_vars => [Next /\ ran' = answered']_vars
  OBVIOUS
<1> QED
  BY <1>1, <1>2, <1>3, <1>4, PTL DEF Spec
=============================================================================
