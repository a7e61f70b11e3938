--------------------------- MODULE EvaluationProofs ---------------------------
(***************************************************************************)
(* Proofs about Evaluation and Ranking.  The inductive invariant says of   *)
(* the manifest that its groups are those of the normalized diffs and      *)
(* carry one label, and of each table from which step of the consolidation *)
(* on it is of the checkpoints that were read.  What Ranking computes is   *)
(* compared with the orders of the candidates by counting: tied candidates *)
(* change places, and binomials obey the same recurrence as the orders     *)
(* that have no correct candidate so far.                                  *)
(***************************************************************************)
EXTENDS Ranking, FiniteSetTheorems, TLAPS

Entry == [label : Label \cup {NoLabel}, labelSensitivity : Label \cup {NoLabel},
          group : SUBSET Patch]

\* Of a manifest: the groups are those of GroupOf, and the members that are
\* included have one label.
Coherent(mf) ==
  \A p \in Patch :
    /\ mf[p].group = IF GroupOf(p) = {p} THEN {} ELSE GroupOf(p)
    /\ \A q \in GroupOf(p) : mf[p].label = mf[q].label \/ NoLabel \in {mf[p].label, mf[q].label}

\* Of the tables: labels of today's manifest, scores and rows of what was read.
LabelsAgree == basis => manifest # <<>> /\ \A p \in DOMAIN full : full[p].label = manifest[p].label
ScoresAgree == pc \in {"runs", "done"} /\ full # <<>> => scores = ScoreRows
RunsAgree   == pc = "done" => runs = RunRows
\* A PVS* that was written is a number, or there is none.
ScoresTyped == \A p \in DOMAIN scores : scores[p].PVS \in Int \cup {Missing}

IInv == TypeOK /\ (manifest # <<>> => Coherent(manifest)) /\ LabelsAgree /\ ScoresAgree /\ RunsAgree
        /\ ScoresTyped

-----------------------------------------------------------------------------
\* A patch is in its own group, and the members are patches of its bug.
LEMMA GroupFacts ==
  ASSUME NEW p \in Patch
  PROVE  p \in GroupOf(p) /\ GroupOf(p) \subseteq Patch
         /\ \A q \in GroupOf(p) : BugOf[q] = BugOf[p]
  BY DEF GroupOf

\* A label under a policy is a label or none.
LEMMA LabelUnderType ==
  ASSUME original \in [Patch -> Label \cup {NoLabel}], NEW pol, NEW p \in Patch
  PROVE  LabelUnder(pol, p) \in Label \cup {NoLabel}
  BY DEF LabelUnder, Label

\* The initial states satisfy the invariant.
LEMMA InitIInv == ASSUME Init PROVE IInv
<1> USE DEF Init, DatasetInit
<1>1. original \in [Patch -> Label \cup {NoLabel}]
  BY DatasetAssumption
<1>2. DOMAIN read = {} /\ DOMAIN full = {} /\ Range(read) = {} /\ Readable(read) = {}
  BY DEF Range, Readable
<1>3. TypeOK
  BY <1>1, <1>2 DEF TypeOK
<1> QED
  BY <1>3 DEF IInv, LabelsAgree, ScoresAgree, RunsAgree, ScoresTyped

\* A PVS* is a number, or there is none.
LEMMA PvsType ==
  ASSUME NEW c \in Scores
  PROVE  Pvs(c) \in Int \cup {Missing}
<1> DEFINE avail == {k \in Component : c[k] # Missing}
           n == Cardinality(avail)
           sum == Term("S_sem", c["S_sem"]) + Term("S_cex", c["S_cex"])
                    + Term("S_edit", c["S_edit"]) + Term("S_vuln", c["S_vuln"])
<1>1. ASSUME NEW k \in Component PROVE Term(k, c[k]) \in Int
  BY EvaluationAssumption DEF Term, Scores
<1>2. sum \in Int
  <2>1. {"S_sem", "S_cex", "S_edit", "S_vuln"} \subseteq Component
    BY DEF Component
  <2>2. /\ Term("S_sem", c["S_sem"]) \in Int /\ Term("S_cex", c["S_cex"]) \in Int
        /\ Term("S_edit", c["S_edit"]) \in Int /\ Term("S_vuln", c["S_vuln"]) \in Int
    BY <1>1, <2>1
  <2> QED
    BY <2>2
<1>3. ASSUME c["S_sem"] # Missing PROVE n \in Nat /\ n > 0
  <2>1. IsFiniteSet({"S_sem"} \cup {"S_cex"})
    BY FS_Singleton, FS_AddElement
  <2>2. IsFiniteSet(Component)
    <3> DEFINE two == {"S_sem"} \cup {"S_cex"}
    <3>1. IsFiniteSet(two \cup {"S_edit"})
      BY <2>1, FS_AddElement
    <3>2. IsFiniteSet((two \cup {"S_edit"}) \cup {"S_vuln"})
      BY <3>1, FS_AddElement
    <3>3. Component = (two \cup {"S_edit"}) \cup {"S_vuln"}
      BY DEF Component
    <3> QED
      BY <3>2, <3>3
  <2>3. IsFiniteSet(avail) /\ "S_sem" \in avail
    BY <1>3, <2>2, FS_Subset DEF Component
  <2>4. n \in Nat /\ n # 0
    BY <2>3, FS_EmptySet, FS_CardinalityType
  <2> QED
    BY <2>4
<1>4. Pvs(c) = IF c["S_sem"] = Missing THEN Missing ELSE sum * (12 \div n)
  BY DEF Pvs
<1> HIDE DEF sum, n
<1>5. ASSUME c["S_sem"] # Missing PROVE sum * (12 \div n) \in Int
  <2>1. 12 \div n \in Int
    BY <1>3, <1>5
  <2> QED
    BY <1>2, <2>1
<1> QED
  BY <1>4, <1>5

\* A build writes a coherent manifest or none.
LEMMA BuildKeeps ==
  ASSUME IInv, Build
  PROVE  /\ manifest' = <<>> \/ manifest' \in [Patch -> Entry]
         /\ manifest' # <<>> => Coherent(manifest')
         /\ manifest' = <<>> => manifest = <<>>
<1>1. PICK pol \in Policies :
        LET label == [n \in Named |-> [p \in Patch |-> LabelUnder(pol[n], p)]]
            stops == \/ \E p \in Patch : ~Verified(Raw[p])
                     \/ \E n \in Named, p \in Patch :
                          Corrected(pol[n], p) /\ original[p] = "overfitting"
                     \/ Conflict(label)
        IN  manifest' = IF stops THEN manifest
                        ELSE [p \in Patch |-> [label |-> label["primary"][p],
                                               labelSensitivity |-> label["sensitivity"][p],
                                               group |-> IF GroupOf(p) = {p} THEN {} ELSE GroupOf(p)]]
  BY DEF Build
<1> DEFINE label == [n \in Named |-> [p \in Patch |-> LabelUnder(pol[n], p)]]
           written == [p \in Patch |-> [label |-> label["primary"][p],
                                        labelSensitivity |-> label["sensitivity"][p],
                                        group |-> IF GroupOf(p) = {p} THEN {} ELSE GroupOf(p)]]
<1>2. original \in [Patch -> Label \cup {NoLabel}]
  BY DEF IInv, TypeOK
<1>3. \A n \in Named, p \in Patch : label[n][p] \in Label \cup {NoLabel}
  BY <1>2, LabelUnderType
<1>4. "primary" \in Named /\ "sensitivity" \in Named
  BY DEF Named
<1>5. CASE manifest' = manifest
  BY <1>5 DEF IInv, TypeOK, Entry
<1>6. CASE manifest' = written /\ ~Conflict(label)
  <2> HIDE DEF label
  <2>1. written \in [Patch -> Entry]
    BY <1>3, <1>4, GroupFacts DEF Entry
  <2>2. ASSUME NEW p \in Patch, NEW q \in GroupOf(p)
        PROVE  \/ label["primary"][p] = label["primary"][q]
               \/ NoLabel \in {label["primary"][p], label["primary"][q]}
    BY <1>4, <1>6 DEF Conflict
  <2>3. Coherent(written)
    BY <2>2, GroupFacts DEF Coherent
  <2>4. written = <<>> => manifest = <<>>
    <3> SUFFICES ASSUME written = <<>> PROVE manifest = <<>>
      OBVIOUS
    <3>1. Patch = {}
      BY DOMAIN written = DOMAIN <<>>
    <3>2. CASE manifest \in [Patch -> Entry]
      BY <3>1, <3>2
    <3> QED
      BY <3>2 DEF IInv, TypeOK, Entry
  <2> QED
    BY <1>6, <2>1, <2>3, <2>4
<1> QED
  BY <1>1, <1>5, <1>6

\* Every step preserves the invariant.
LEMMA NextIInv == ASSUME IInv, [Next]_vars PROVE IInv'
<1>1. CASE Consolidate
  <2>1. manifest # <<>> /\ manifest \in [Patch -> Entry]
    BY <1>1 DEF Consolidate, IInv, TypeOK, Entry
  <2>2. PICK ck \in Checkpoints :
          /\ read' = ck
          /\ full' = [p \in Readable(ck) |-> [label |-> manifest[p].label, value |-> ck[p]]]
    BY <1>1 DEF Consolidate
  <2>3. DOMAIN ck \subseteq Patch /\ Range(ck) \subseteq Scores \cup {Unreadable}
    BY EvaluationAssumption
  <2>4. TypeOK'
    BY <1>1, <2>2, <2>3 DEF Consolidate, IInv, TypeOK, datasetVars, Readable
  <2>5. LabelsAgree'
    BY <1>1, <2>1, <2>2 DEF Consolidate, LabelsAgree, datasetVars, Readable
  <2> QED
    BY <1>1, <2>4, <2>5 DEF Consolidate, IInv, datasetVars, ScoresAgree, RunsAgree, Coherent,
                           ScoresTyped
<1>2. CASE WriteScores
  <2>1. TypeOK'
    BY <1>2 DEF WriteScores, IInv, TypeOK, datasetVars, Readable
  <2>2. ScoresAgree'
    BY <1>2 DEF WriteScores, ScoresAgree, ScoreRows
  <2>3. ScoresTyped'
    <3>1. ASSUME NEW p \in DOMAIN full PROVE full[p].value \in Scores
      BY DEF IInv, TypeOK, Readable, Range
    <3>2. \A p \in DOMAIN ScoreRows : ScoreRows[p].PVS \in Int \cup {Missing}
      BY <3>1, PvsType DEF ScoreRows
    <3>3. scores' = scores \/ scores' = ScoreRows
      BY <1>2 DEF WriteScores
    <3> QED
      BY <3>2, <3>3 DEF IInv, ScoresTyped
  <2> QED
    BY <1>2, <2>1, <2>2, <2>3 DEF WriteScores, IInv, datasetVars, LabelsAgree, RunsAgree, Coherent
<1>3. CASE WriteRuns
  <2>1. TypeOK'
    BY <1>3 DEF WriteRuns, IInv, TypeOK, datasetVars, Readable
  <2>2. ScoresAgree' /\ RunsAgree'
    BY <1>3 DEF WriteRuns, IInv, ScoresAgree, RunsAgree, ScoreRows, RunRows
  <2> QED
    BY <1>3, <2>1, <2>2 DEF WriteRuns, IInv, datasetVars, LabelsAgree, Coherent, ScoresTyped
<1>4. CASE Kill
  <2>1. TypeOK'
    BY <1>4 DEF Kill, IInv, TypeOK, datasetVars, tables, Readable
  <2>2. ScoresAgree' /\ RunsAgree'
    BY <1>4 DEF Kill, ScoresAgree, RunsAgree
  <2> QED
    BY <1>4, <2>1, <2>2 DEF Kill, IInv, datasetVars, tables, LabelsAgree, Coherent, ScoresTyped
<1>5. CASE Rebuild
  <2>1. /\ manifest' = <<>> \/ manifest' \in [Patch -> Entry]
        /\ manifest' # <<>> => Coherent(manifest')
    BY <1>5, BuildKeeps DEF Rebuild
  <2>2. UNCHANGED <<original, read, full, scores, runs, pc>>
    BY <1>5 DEF Rebuild, Build, tables
  <2>3. basis' = (basis /\ manifest' = manifest)
    BY <1>5 DEF Rebuild
  <2>4. TypeOK'
    BY <2>1, <2>2, <2>3 DEF IInv, TypeOK, Entry, Readable
  <2>5. LabelsAgree'
    BY <2>2, <2>3 DEF IInv, LabelsAgree
  <2>6. ScoresAgree' /\ RunsAgree'
    BY <2>2 DEF IInv, ScoresAgree, RunsAgree, ScoreRows, RunRows
  <2>7. (manifest # <<>> => Coherent(manifest))'
    BY <2>1 DEF Coherent
  <2>8. ScoresTyped'
    BY <2>2 DEF IInv, ScoresTyped
  <2> QED
    BY <2>4, <2>5, <2>6, <2>7, <2>8 DEF IInv
<1>6. CASE UNCHANGED vars
  BY <1>6 DEF vars, datasetVars, tables, IInv, TypeOK, Readable, LabelsAgree, ScoresAgree,
              RunsAgree, ScoreRows, RunRows, Coherent, ScoresTyped
<1> QED
  BY <1>1, <1>2, <1>3, <1>4, <1>5, <1>6 DEF Next

\* The invariant holds in every reachable state, and with it the types.
THEOREM Invariance == Spec => []IInv
<1>1. Init => IInv
  BY InitIInv
<1>2. IInv /\ [Next]_vars => IInv'
  BY NextIInv
<1> QED
  BY <1>1, <1>2, PTL DEF Spec

\* Every variable keeps its type, and full_scores.csv has a row for exactly the
\* checkpoints that could be read, with their components.
THEOREM TypeCorrect == Spec => []TypeOK
<1>1. IInv => TypeOK
  BY DEF IInv
<1> QED
  BY <1>1, Invariance, PTL

-----------------------------------------------------------------------------
\* What is evaluated is in the manifest, with a label.
LEMMA FrameFacts ==
  ASSUME IInv, NEW p \in Frame
  PROVE  /\ p \in Patch /\ p \in DOMAIN full /\ p \in DOMAIN read /\ LabelOf(p) \in Label
         /\ manifest \in [Patch -> Entry] /\ Coherent(manifest)
<1>1. p \in DOMAIN full /\ p \in DOMAIN manifest /\ LabelOf(p) \in Label
  BY DEF Frame, ExcludedRows, NotInManifest, Unlabelled, NoSemantic
<1>2. p \in DOMAIN read /\ DOMAIN read \subseteq Patch
  BY <1>1 DEF IInv, TypeOK, Readable
<1>3. manifest # <<>>
  BY <1>1
<1> QED
  BY <1>1, <1>2, <1>3 DEF IInv, TypeOK, Entry

\* The group of an evaluated patch holds itself and patches of its bug.
LEMMA FrameGroup ==
  ASSUME IInv, NEW p \in Frame, NEW q \in Group(p)
  PROVE  q \in GroupOf(p) /\ BugOf[q] = BugOf[p]
BY FrameFacts, GroupFacts DEF Group, Coherent

\* Duplicates that are evaluated have one label (dataset.py:270).
THEOREM DuplicatesShare == Spec => []DuplicatesShareLabel
<1>1. ASSUME IInv PROVE DuplicatesShareLabel
  <2> SUFFICES ASSUME basis, NEW p \in Frame, NEW q \in Frame, q \in Group(p)
               PROVE  LabelOf(q) = LabelOf(p)
    BY DEF DuplicatesShareLabel
  <2>1. \A r \in Frame : LabelOf(r) = manifest[r].label /\ manifest[r].label # NoLabel
    <3> TAKE r \in Frame
    <3>1. full[r].label = manifest[r].label
      BY <1>1, FrameFacts DEF IInv, LabelsAgree
    <3>2. LabelOf(r) \in Label /\ NoLabel \notin Label
      BY <1>1, FrameFacts DEF Label, NoLabel
    <3> QED
      BY <3>1, <3>2 DEF LabelOf
  <2>2. p \in Patch /\ q \in GroupOf(p) /\ Coherent(manifest)
    BY <1>1, FrameFacts, FrameGroup
  <2>3. manifest[p].label = manifest[q].label \/ NoLabel \in {manifest[p].label, manifest[q].label}
    BY <2>2 DEF Coherent
  <2> QED
    BY <2>1, <2>3
<1> QED
  BY <1>1, Invariance, PTL

\* Every checkpoint is evaluated, excluded or unreadable (consolidate_full.py:53).
THEOREM CheckpointsAccounted == Spec => []EveryCheckpointAccounted
<1>1. ASSUME IInv PROVE EveryCheckpointAccounted
  <2> SUFFICES ASSUME pc = "done" PROVE EveryCheckpointAccounted
    BY DEF EveryCheckpointAccounted
  <2>1. runs = [p \in DOMAIN read |-> read[p] # Unreadable]
    BY <1>1 DEF IInv, RunsAgree, RunRows
  <2>2. DOMAIN full = {p \in DOMAIN read : read[p] # Unreadable}
    BY <1>1 DEF IInv, TypeOK, Readable
  <2>3. Frame \cup ExcludedRows = DOMAIN full
    BY DEF Frame, ExcludedRows, NotInManifest, Unlabelled, NoSemantic
  <2>4. {p \in DOMAIN runs : ~runs[p]} = {p \in DOMAIN read : read[p] = Unreadable}
    BY <2>1
  <2> QED
    BY <2>2, <2>3, <2>4 DEF EveryCheckpointAccounted
<1> QED
  BY <1>1, Invariance, PTL

\* Scores and judgement are of the same checkpoint (consolidate_full.py:121).
THEOREM PvsAgrees == Spec => []PvsOfItsJudgement
<1>1. ASSUME IInv PROVE PvsOfItsJudgement
  <2> SUFFICES ASSUME pc = "done" PROVE PvsOfItsJudgement
    BY DEF PvsOfItsJudgement
  <2>1. ASSUME NEW p \in DOMAIN full
        PROVE  full[p].value = read[p] /\ PvsOf(p) = Pvs(read[p])
    <3>1. full # <<>> /\ full[p].value = read[p]
      BY <1>1, <2>1 DEF IInv, TypeOK
    <3>2. scores = ScoreRows
      BY <1>1, <3>1 DEF IInv, ScoresAgree
    <3> QED
      BY <2>1, <3>1, <3>2 DEF ScoreRows, PvsOf
  <2>2. \A p \in NoSemantic : p \in DOMAIN full /\ full[p].value["S_sem"] = Missing
    BY DEF NoSemantic
  <2>3. \A p \in NoSemantic : PvsOf(p) = Missing
    BY <2>1, <2>2 DEF Pvs
  <2> QED
    BY <2>1, <2>3 DEF PvsOfItsJudgement, Frame
<1> QED
  BY <1>1, Invariance, PTL

-----------------------------------------------------------------------------
\* Splits by the bug: each value of a function of the bug is tested on once.
ByBug(df, g, V) == {Split(df, {p \in df : g[BugOf[p]] = v}) : v \in V}

\* They separate bugs and groups, and test every patch once.
LEMMA SplitByBug ==
  ASSUME IInv, NEW g, NEW V, \A p \in Frame : g[BugOf[p]] \in V
  PROVE  OutOfFold(Frame, ByBug(Frame, g, V))
<1> DEFINE test(v) == {p \in Frame : g[BugOf[p]] = v}
<1>1. \A s \in ByBug(Frame, g, V) : \E v \in V : s.test = test(v) /\ s.train = Frame \ test(v)
                                                 /\ s = Split(Frame, test(v))
  BY DEF ByBug, Split
<1>2. ASSUME NEW s \in ByBug(Frame, g, V), NEW p \in Frame, NEW q \in Frame, p \in s.test,
             BugOf[q] = BugOf[p] \/ q \in Group(p)
      PROVE  q \notin s.train
  <2>1. BugOf[q] = BugOf[p]
    BY <1>2, FrameGroup
  <2> QED
    BY <1>1, <1>2, <2>1
<1>3. ASSUME NEW p \in Frame
      PROVE  \E s \in ByBug(Frame, g, V) :
               p \in s.test /\ \A t \in ByBug(Frame, g, V) : p \in t.test => t = s
  <2> DEFINE own == Split(Frame, test(g[BugOf[p]]))
  <2>1. own \in ByBug(Frame, g, V) /\ p \in own.test
    BY <1>3 DEF ByBug, Split
  <2>2. ASSUME NEW t \in ByBug(Frame, g, V), p \in t.test PROVE t = own
    <3>1. PICK v \in V : t.test = test(v) /\ t = Split(Frame, test(v))
      BY <1>1
    <3>2. g[BugOf[p]] = v
      BY <2>2, <3>1
    <3> QED
      BY <3>1, <3>2
  <2> HIDE DEF own
  <2> QED
    BY <2>1, <2>2
<1> QED
  BY <1>2, <1>3 DEF OutOfFold

\* No scheme fits on what it predicts (metrics.py:57, 65).
THEOREM NoTwin == Spec => []NoTwinAcrossFolds
<1>1. ASSUME IInv PROVE NoTwinAcrossFolds
  <2> DEFINE V == {ProjectOfPatch(p) : p \in Frame}
  <2>1. LopoSplits(Frame) = ByBug(Frame, ProjectOf, V)
    BY DEF LopoSplits, ByBug, ProjectOfPatch
  <2>2. \A p \in Frame : ProjectOf[BugOf[p]] \in V
    BY DEF ProjectOfPatch
  <2>3. OutOfFold(Frame, LopoSplits(Frame))
    BY <1>1, <2>1, <2>2, SplitByBug
  <2>4. ASSUME NEW f \in FoldsOf(Frame) PROVE OutOfFold(Frame, GroupKFold(Frame, f))
    <3>1. GroupKFold(Frame, f) = ByBug(Frame, f, 1..NSplits)
      BY DEF GroupKFold, ByBug
    <3>2. \A p \in Frame : f[BugOf[p]] \in 1..NSplits
      BY <2>4 DEF FoldsOf, Surjection
    <3> QED
      BY <1>1, <3>1, <3>2, SplitByBug
  <2> QED
    BY <2>3, <2>4 DEF NoTwinAcrossFolds
<1> QED
  BY <1>1, Invariance, PTL

-----------------------------------------------------------------------------
\* A family of subsets of a finite set has a smallest member.
LEMMA Smallest ==
  ASSUME NEW S, IsFiniteSet(S), NEW F \in SUBSET SUBSET S, F # {}
  PROVE  \E T \in F : \A U \in F : U \subseteq T => U = T
<1>1. IsWellFoundedOn(StrictSubsetOrdering(S), FiniteSubsetsOf(S))
  BY FS_StrictSubsetOrderingWellFounded
<1>2. FiniteSubsetsOf(S) = SUBSET S
  BY FS_FiniteSubsetsOfFinite
<1>3. \E T \in F : \A U \in F : <<U, T>> \notin StrictSubsetOrdering(S)
  BY <1>1, <1>2, WFMin
<1> QED
  BY <1>3 DEF StrictSubsetOrdering

\* A set of numbers has a least one.
LEMMA LeastNumber ==
  ASSUME NEW D \in SUBSET Nat, D # {}
  PROVE  \E m \in D : \A d \in D : m <= d
<1>1. PICK n \in D : TRUE
  OBVIOUS
<1> DEFINE S == 0..n
           below(d) == {i \in S : i <= d}
           F == {below(d) : d \in {d \in D : d <= n}}
<1>2. IsFiniteSet(S)
  BY FS_Interval
<1>3. F \in SUBSET SUBSET S /\ F # {}
  <2>1. below(n) \in F
    OBVIOUS
  <2> QED
    BY <2>1
<1>4. PICK T \in F : \A U \in F : U \subseteq T => U = T
  <2> HIDE DEF F, S
  <2> QED
    BY <1>2, <1>3, Smallest
<1>5. PICK m \in D : m <= n /\ T = below(m)
  BY <1>4
<1>6. ASSUME NEW d \in D, d < m PROVE FALSE
  <2>1. below(d) \in F /\ below(d) \subseteq below(m)
    BY <1>5, <1>6
  <2>2. below(d) = below(m)
    BY <1>4, <1>5, <2>1
  <2> QED
    BY <1>5, <1>6, <2>2
<1> QED
  BY <1>6

\* What holds of 0 and is passed on up to N holds up to N.
LEMMA UpTo ==
  ASSUME NEW N \in Nat, NEW P \in SUBSET Nat, 0 \in P,
         \A k \in 0..N : k \in P /\ k < N => k + 1 \in P
  PROVE  0..N \subseteq P
<1> DEFINE Bad == {k \in 0..N : k \notin P}
<1> SUFFICES ASSUME Bad # {} PROVE FALSE
  OBVIOUS
<1>1. PICK m \in Bad : \A d \in Bad : m <= d
  <2>1. Bad \in SUBSET Nat
    OBVIOUS
  <2> HIDE DEF Bad
  <2> QED
    BY <2>1, LeastNumber
<1>2. m - 1 \in 0..N /\ m - 1 < m
  BY <1>1
<1>3. m - 1 \in P
  BY <1>1, <1>2
<1> QED
  BY <1>1, <1>2, <1>3

\* A set of ranks that has every rank before one of its own is an interval.
LEMMA FirstRanks ==
  ASSUME NEW N \in Nat, NEW D \in SUBSET (1..N),
         \A i \in D, j \in 1..N : j < i => j \in D
  PROVE  D = 1..Cardinality(D)
<1> DEFINE Free == {d \in Nat : \A i \in D : i <= d}
<1>1. PICK m \in Free : \A d \in Free : m <= d
  <2>1. Free \in SUBSET Nat /\ N \in Free
    OBVIOUS
  <2> HIDE DEF Free
  <2> QED
    BY <2>1, LeastNumber
<1>2. m # 0 => m \in D
  <2> SUFFICES ASSUME m # 0, m \notin D PROVE FALSE
    OBVIOUS
  <2>1. m - 1 \in Free
    BY <1>1
  <2> QED
    BY <1>1, <2>1
<1>3. \A i \in 1..m : i \in D
  <2> TAKE i \in 1..m
  <2>1. m \in D /\ i \in 1..N /\ i <= m
    BY <1>1, <1>2
  <2> QED
    BY <2>1
<1>4. \A i \in D : i \in 1..m
  BY <1>1
<1>5. D = 1..m
  BY <1>3, <1>4
<1>6. Cardinality(1..m) = m
  BY <1>1, FS_Interval
<1> QED
  BY <1>5, <1>6

\* Sets that a one-to-one map takes onto one another are of one size.
LEMMA SameSize ==
  ASSUME NEW S, IsFiniteSet(S), NEW T, NEW f \in [S -> T],
         \A a, b \in S : f[a] = f[b] => a = b, \A t \in T : \E s \in S : f[s] = t
  PROVE  IsFiniteSet(T) /\ Cardinality(T) = Cardinality(S)
<1>1. f \in Bijection(S, T)
  BY DEF Bijection, Injection, Surjection, IsInjective
<1> QED
  BY <1>1, FS_Bijection DEF ExistsBijection

\* The part of a finite set and the rest add up.
LEMMA PartAndRest ==
  ASSUME NEW S, IsFiniteSet(S), NEW T \in SUBSET S
  PROVE  /\ IsFiniteSet(T) /\ IsFiniteSet(S \ T)
         /\ Cardinality(T) \in Nat /\ Cardinality(S) \in Nat
         /\ Cardinality(S \ T) = Cardinality(S) - Cardinality(T)
         /\ Cardinality(T) <= Cardinality(S)
<1>1. S \cap T = T
  OBVIOUS
<1> QED
  BY <1>1, FS_Difference, FS_Subset, FS_CardinalityType

\* A relation R as a table with rows and columns.
RowOf(R, J, f)    == {j \in J : <<f, j>> \in R}
ColumnOf(R, F, j) == {f \in F : <<f, j>> \in R}

\* A relation each of whose rows has y entries has y for each row.
LEMMA CountRows ==
  ASSUME NEW F, IsFiniteSet(F), NEW J, IsFiniteSet(J), NEW R \in SUBSET (F \X J), NEW y \in Int,
         \A f \in F : Cardinality(RowOf(R, J, f)) = y
  PROVE  IsFiniteSet(R) /\ Cardinality(R) = Cardinality(F) * y
<1> DEFINE row(f) == RowOf(R, J, f)
           part(T) == {r \in R : r[1] \in T}
           Bad == {T \in SUBSET F : Cardinality(part(T)) # Cardinality(T) * y}
<1>1. IsFiniteSet(R)
  BY FS_Product, FS_Subset
<1>2. part(F) = R
  OBVIOUS
<1> SUFFICES ASSUME Bad # {} PROVE FALSE
  BY <1>1, <1>2
<1>3. PICK T \in Bad : \A U \in Bad : U \subseteq T => U = T
  <2>1. Bad \in SUBSET SUBSET F
    OBVIOUS
  <2> HIDE DEF Bad
  <2> QED
    BY <2>1, Smallest
<1>4. T \in SUBSET F /\ Cardinality(part(T)) # Cardinality(T) * y
  BY <1>3
<1>5. ASSUME NEW U \in SUBSET T, U # T PROVE Cardinality(part(U)) = Cardinality(U) * y
  <2>1. U \in SUBSET F /\ U \notin Bad
    BY <1>3, <1>4, <1>5
  <2> QED
    BY <2>1
<1> HIDE DEF Bad
<1>6. T # {}
  <2> SUFFICES ASSUME T = {} PROVE FALSE
    OBVIOUS
  <2>1. part(T) = {}
    OBVIOUS
  <2>2. Cardinality(part(T)) = 0 /\ Cardinality(T) = 0
    BY <2>1, FS_EmptySet
  <2> HIDE DEF part
  <2> QED
    BY <1>4, <2>2
<1>7. PICK t \in T : TRUE
  BY <1>6
<1> DEFINE U == T \ {t}
           own == {t} \X row(t)
<1>8. Cardinality(part(U)) = Cardinality(U) * y
  <2>1. U \in SUBSET T /\ U # T
    BY <1>7
  <2> HIDE DEF U, part
  <2> QED
    BY <1>5, <2>1
<1>9. IsFiniteSet(T) /\ Cardinality(U) = Cardinality(T) - 1 /\ Cardinality(T) \in Nat
  BY <1>4, <1>7, FS_Subset, FS_RemoveElement, FS_CardinalityType
<1>10. IsFiniteSet(own) /\ Cardinality(own) = y
  <2>1. IsFiniteSet(row(t)) /\ IsFiniteSet({t}) /\ Cardinality({t}) = 1
    BY FS_Subset, FS_Singleton DEF RowOf
  <2>2. Cardinality(row(t)) = y
    BY <1>4, <1>7
  <2> HIDE DEF row
  <2>3. IsFiniteSet(own) /\ Cardinality(own) = Cardinality({t}) * Cardinality(row(t))
    BY <2>1, FS_Product
  <2>4. 1 * y = y
    OBVIOUS
  <2> HIDE DEF own
  <2> QED
    BY <2>1, <2>2, <2>3, <2>4
<1>11. part(T) = part(U) \cup own /\ part(U) \cap own = {}
  BY <1>4, <1>7 DEF RowOf
<1>12. IsFiniteSet(part(U)) /\ Cardinality(part(U)) \in Nat
  BY <1>1, FS_Subset, FS_CardinalityType
<1> HIDE DEF part, own, U, row
<1>13. Cardinality(part(T)) = Cardinality(part(U)) + y
  <2>1. Cardinality(part(T)) = Cardinality(part(U)) + Cardinality(own) - Cardinality({})
    BY <1>10, <1>11, <1>12, FS_Union
  <2> QED
    BY <1>10, <1>12, <2>1, FS_EmptySet
<1>14. Cardinality(T) * y = (Cardinality(T) - 1) * y + y
  BY <1>9
<1> QED
  BY <1>4, <1>8, <1>9, <1>13, <1>14

\* R relates each of F to y of J, and each of J to x of F.
Regular(R, F, J, y, x) ==
  /\ IsFiniteSet(F) /\ IsFiniteSet(J) /\ R \in SUBSET (F \X J) /\ y \in Int /\ x \in Int
  /\ \A f \in F : Cardinality(RowOf(R, J, f)) = y
  /\ \A j \in J : Cardinality(ColumnOf(R, F, j)) = x

\* Counted by rows and by columns, a relation has one number of entries.
LEMMA DoubleCount ==
  ASSUME NEW R, NEW F, NEW J, NEW y, NEW x, Regular(R, F, J, y, x)
  PROVE  Cardinality(F) * y = Cardinality(J) * x
<1> USE DEF Regular
<1> DEFINE Q == {q \in J \X F : <<q[2], q[1]>> \in R}
           turn == [r \in R |-> <<r[2], r[1]>>]
<1>1. IsFiniteSet(R) /\ Cardinality(R) = Cardinality(F) * y
  BY CountRows
<1>2. Cardinality(Q) = Cardinality(J) * x
  <2>1. \A j \in J : RowOf(Q, F, j) = ColumnOf(R, F, j)
    BY DEF RowOf, ColumnOf
  <2>2. \A j \in J : Cardinality(RowOf(Q, F, j)) = x
    BY <2>1
  <2>3. Q \in SUBSET (J \X F)
    OBVIOUS
  <2> HIDE DEF Q
  <2> QED
    BY <2>2, <2>3, CountRows
<1>3. turn \in [R -> Q]
  OBVIOUS
<1>4. \A r, s \in R : turn[r] = turn[s] => r = s
  OBVIOUS
<1>5. ASSUME NEW q \in Q PROVE \E r \in R : turn[r] = q
  <2>1. <<q[2], q[1]>> \in R /\ turn[<<q[2], q[1]>>] = q
    OBVIOUS
  <2> QED
    BY <2>1
<1>6. Cardinality(Q) = Cardinality(R)
  <2> HIDE DEF Q, turn
  <2> QED
    BY <1>1, <1>3, <1>4, <1>5, SameSize
<1> QED
  BY <1>1, <1>2, <1>6

-----------------------------------------------------------------------------
\* The choices that Comb counts.
Choices(n, k) == {s \in SUBSET (1..n) : Cardinality(s) = k}

\* They are finitely many, of finite sets.
LEMMA ChoicesFinite ==
  ASSUME NEW n \in Nat, NEW k \in Nat
  PROVE  /\ IsFiniteSet(Choices(n, k)) /\ Comb(n, k) = Cardinality(Choices(n, k)) /\ Comb(n, k) \in Nat
         /\ \A s \in Choices(n, k) : s \in SUBSET (1..n) /\ IsFiniteSet(s) /\ Cardinality(s) = k
         /\ IsFiniteSet(1..n) /\ Cardinality(1..n) = n
<1>1. IsFiniteSet(1..n) /\ Cardinality(1..n) = n
  BY FS_Interval
<1>2. IsFiniteSet(SUBSET (1..n)) /\ Choices(n, k) \in SUBSET SUBSET (1..n)
  BY <1>1, FS_SUBSET DEF Choices
<1>3. IsFiniteSet(Choices(n, k))
  BY <1>2, FS_Subset
<1>4. \A s \in Choices(n, k) : s \in SUBSET (1..n) /\ IsFiniteSet(s) /\ Cardinality(s) = k
  BY <1>1, FS_Subset DEF Choices
<1> QED
  BY <1>1, <1>3, <1>4, FS_CardinalityType DEF Comb, Choices

\* The number of choices is a natural number.
LEMMA CombType == ASSUME NEW n \in Nat, NEW k \in Nat PROVE Comb(n, k) \in Nat
  BY ChoicesFinite

\* Nothing can be chosen in one way; more than there is cannot be chosen, and
\* as much as there is can.
LEMMA CombBounds ==
  ASSUME NEW n \in Nat, NEW k \in Nat
  PROVE  Comb(n, 0) = 1 /\ (k > n => Comb(n, k) = 0) /\ (k <= n => Comb(n, k) > 0)
<1>1. Comb(n, 0) = 1
  <2>1. {} \in Choices(n, 0)
    BY FS_EmptySet DEF Choices
  <2>2. ASSUME NEW s \in Choices(n, 0) PROVE s = {}
    <3>1. IsFiniteSet(s) /\ Cardinality(s) = 0
      BY ChoicesFinite
    <3> QED
      BY <3>1, FS_EmptySet
  <2>3. Choices(n, 0) = {{}}
    BY <2>1, <2>2
  <2>4. Cardinality(Choices(n, 0)) = 1
    BY <2>3, FS_Singleton
  <2> QED
    BY <2>4, ChoicesFinite
<1>2. ASSUME k > n PROVE Comb(n, k) = 0
  <2>1. ASSUME NEW s \in Choices(n, k) PROVE FALSE
    <3>1. s \in SUBSET (1..n) /\ Cardinality(s) = k /\ IsFiniteSet(1..n) /\ Cardinality(1..n) = n
      BY ChoicesFinite
    <3>2. Cardinality(s) <= Cardinality(1..n)
      BY <3>1, FS_Subset
    <3> QED
      BY <1>2, <3>1, <3>2
  <2>2. Choices(n, k) = {}
    BY <2>1
  <2> QED
    BY <2>2, ChoicesFinite, FS_EmptySet
<1>3. ASSUME k <= n PROVE Comb(n, k) > 0
  <2>1. 1..k \in Choices(n, k)
    BY <1>3, FS_Interval DEF Choices
  <2>2. IsFiniteSet(Choices(n, k)) /\ Comb(n, k) = Cardinality(Choices(n, k)) /\ Comb(n, k) \in Nat
    BY ChoicesFinite
  <2>3. Cardinality(Choices(n, k)) # 0
    BY <2>1, <2>2, FS_EmptySet
  <2> QED
    BY <2>2, <2>3
<1> QED
  BY <1>1, <1>2, <1>3

\* A choice of k and one element more, or a choice of k + 1 and one element of
\* it, are the same.
LEMMA CombNext ==
  ASSUME NEW n \in Nat, NEW k \in Nat
  PROVE  Comb(n, k) * (n - k) = Comb(n, k + 1) * (k + 1)
<1> DEFINE F == Choices(n, k)
           J == Choices(n, k + 1)
           R == {r \in F \X J : r[1] \subseteq r[2]}
<1>0. /\ IsFiniteSet(F) /\ Cardinality(F) = Comb(n, k)
      /\ \A s \in F : s \in SUBSET (1..n) /\ IsFiniteSet(s) /\ Cardinality(s) = k
      /\ IsFiniteSet(J) /\ Cardinality(J) = Comb(n, k + 1)
      /\ \A t \in J : t \in SUBSET (1..n) /\ IsFiniteSet(t) /\ Cardinality(t) = k + 1
      /\ IsFiniteSet(1..n) /\ Cardinality(1..n) = n
  <2>1. k + 1 \in Nat
    OBVIOUS
  <2>2. IsFiniteSet(J) /\ Cardinality(J) = Comb(n, k + 1)
    BY <2>1, ChoicesFinite
  <2>3. \A t \in J : t \in SUBSET (1..n) /\ IsFiniteSet(t) /\ Cardinality(t) = k + 1
    BY <2>1, ChoicesFinite
  <2> HIDE DEF J
  <2> QED
    BY <2>2, <2>3, ChoicesFinite
<1>1. ASSUME NEW s \in F PROVE Cardinality(RowOf(R, J, s)) = n - k
  <2> DEFINE rest == (1..n) \ s
             add == [x \in rest |-> s \cup {x}]
             row == RowOf(R, J, s)
  <2>1. s \in SUBSET (1..n) /\ IsFiniteSet(s) /\ Cardinality(s) = k
    BY <1>0
  <2>2. IsFiniteSet(rest) /\ Cardinality(rest) = n - k
    <3> DEFINE all == 1..n
    <3>1. IsFiniteSet(all) /\ Cardinality(all) = n /\ s \in SUBSET all
      BY <1>0, <2>1
    <3> HIDE DEF all
    <3>2. IsFiniteSet(all \ s) /\ Cardinality(all \ s) = n - k
      BY <2>1, <3>1, PartAndRest
    <3> QED
      BY <3>2 DEF all
  <2>3. \A x \in rest : s \cup {x} \in J
    BY <2>1, FS_AddElement DEF Choices
  <2>4. add \in [rest -> row]
    BY <2>3 DEF RowOf
  <2>5. \A x, y \in rest : add[x] = add[y] => x = y
    OBVIOUS
  <2>6. ASSUME NEW t \in row PROVE \E x \in rest : add[x] = t
    <3>1. t \in SUBSET (1..n) /\ IsFiniteSet(t) /\ Cardinality(t) = k + 1 /\ s \subseteq t
      BY <1>0 DEF RowOf
    <3>2. Cardinality(t \ s) = (k + 1) - k /\ IsFiniteSet(t \ s)
      BY <2>1, <3>1, PartAndRest
    <3>3. (k + 1) - k = 1
      OBVIOUS
    <3>4. PICK x : t \ s = {x}
      BY <3>2, <3>3, FS_Singleton
    <3>5. x \in rest /\ add[x] = t
      BY <3>1, <3>4 DEF RowOf
    <3> QED
      BY <3>5
  <2> HIDE DEF rest, add, row
  <2>7. Cardinality(row) = Cardinality(rest)
    BY <2>2, <2>4, <2>5, <2>6, SameSize
  <2> QED
    BY <2>2, <2>7 DEF row
<1>2. ASSUME NEW t \in J PROVE Cardinality(ColumnOf(R, F, t)) = k + 1
  <2> DEFINE drop == [x \in t |-> t \ {x}]
             column == ColumnOf(R, F, t)
  <2>1. t \in SUBSET (1..n) /\ IsFiniteSet(t) /\ Cardinality(t) = k + 1
    BY <1>0
  <2>2. ASSUME NEW x \in t PROVE t \ {x} \in F
    <3>1. Cardinality(t \ {x}) = k /\ t \ {x} \in SUBSET (1..n)
      BY <2>1, FS_RemoveElement
    <3> QED
      BY <3>1 DEF Choices
  <2>3. drop \in [t -> column]
    BY <2>2 DEF ColumnOf
  <2>4. \A x, y \in t : drop[x] = drop[y] => x = y
    OBVIOUS
  <2>5. ASSUME NEW s \in column PROVE \E x \in t : drop[x] = s
    <3>1. IsFiniteSet(s) /\ Cardinality(s) = k /\ s \subseteq t
      BY <1>0 DEF ColumnOf
    <3>2. Cardinality(t \ s) = (k + 1) - k /\ IsFiniteSet(t \ s)
      BY <2>1, <3>1, PartAndRest
    <3>3. (k + 1) - k = 1
      OBVIOUS
    <3>4. PICK x : t \ s = {x}
      BY <3>2, <3>3, FS_Singleton
    <3>5. x \in t /\ drop[x] = s
      BY <3>1, <3>4
    <3> QED
      BY <3>5
  <2> HIDE DEF drop, column
  <2>6. Cardinality(column) = Cardinality(t)
    BY <2>1, <2>3, <2>4, <2>5, SameSize
  <2> QED
    BY <2>1, <2>6 DEF column
<1>3. R \in SUBSET (F \X J)
  OBVIOUS
<1> HIDE DEF F, J, R
<1>4. Cardinality(F) * (n - k) = Cardinality(J) * (k + 1)
  <2> DEFINE y == n - k
             x == k + 1
  <2>1. y \in Int /\ x \in Int
    OBVIOUS
  <2>2. \A s \in F : Cardinality(RowOf(R, J, s)) = y
    BY <1>1
  <2>3. \A t \in J : Cardinality(ColumnOf(R, F, t)) = x
    BY <1>2
  <2> HIDE DEF x, y
  <2>4. Cardinality(F) * y = Cardinality(J) * x
    <3>1. Regular(R, F, J, y, x)
      BY <1>0, <1>3, <2>1, <2>2, <2>3 DEF Regular
    <3> QED
      BY <3>1, DoubleCount
  <2> QED
    BY <2>4 DEF x, y
<1> QED
  BY <1>0, <1>4

\* A choice has the last element or not.
LEMMA Pascal ==
  ASSUME NEW n \in Nat, NEW k \in Nat
  PROVE  Comb(n + 1, k + 1) = Comb(n, k + 1) + Comb(n, k)
<1> DEFINE with == {s \in Choices(n + 1, k + 1) : n + 1 \in s}
           add == [s \in Choices(n, k) |-> s \cup {n + 1}]
<1>1. Choices(n + 1, k + 1) \ with = Choices(n, k + 1)
  <2>1. ASSUME NEW s \in SUBSET (1..(n + 1)), n + 1 \notin s PROVE s \in SUBSET (1..n)
    BY <2>1
  <2>2. SUBSET (1..n) \subseteq SUBSET (1..(n + 1)) /\ \A s \in SUBSET (1..n) : n + 1 \notin s
    OBVIOUS
  <2> QED
    BY <2>1, <2>2 DEF Choices
<1>2. add \in [Choices(n, k) -> with]
  <2> SUFFICES ASSUME NEW s \in Choices(n, k) PROVE s \cup {n + 1} \in with
    OBVIOUS
  <2>1. s \in SUBSET (1..n) /\ IsFiniteSet(s) /\ Cardinality(s) = k
    BY ChoicesFinite
  <2>2. n + 1 \notin s /\ s \cup {n + 1} \in SUBSET (1..(n + 1))
    BY <2>1
  <2>3. Cardinality(s \cup {n + 1}) = k + 1
    BY <2>1, <2>2, FS_AddElement
  <2> QED
    BY <2>2, <2>3 DEF Choices
<1>3. \A s, t \in Choices(n, k) : add[s] = add[t] => s = t
  <2>1. \A s \in Choices(n, k) : s = add[s] \ {n + 1}
    <3> TAKE s \in Choices(n, k)
    <3>1. n + 1 \notin s
      BY ChoicesFinite
    <3> QED
      BY <3>1
  <2> HIDE DEF add
  <2> QED
    BY <2>1
<1>4. ASSUME NEW t \in with PROVE \E s \in Choices(n, k) : add[s] = t
  <2>1. t \in SUBSET (1..(n + 1)) /\ IsFiniteSet(t) /\ Cardinality(t) = k + 1 /\ n + 1 \in t
    <3>1. n + 1 \in Nat /\ k + 1 \in Nat
      OBVIOUS
    <3> QED
      BY <3>1, ChoicesFinite
  <2>2. t \ {n + 1} \in SUBSET (1..n) /\ Cardinality(t \ {n + 1}) = k
    <3>1. Cardinality(t \ {n + 1}) = (k + 1) - 1
      BY <2>1, FS_RemoveElement
    <3> QED
      BY <2>1, <3>1
  <2>3. t \ {n + 1} \in Choices(n, k) /\ (t \ {n + 1}) \cup {n + 1} = t
    BY <2>1, <2>2 DEF Choices
  <2> QED
    BY <2>3
<1> HIDE DEF add
<1>5. Cardinality(with) = Comb(n, k)
  <2>1. IsFiniteSet(Choices(n, k)) /\ Cardinality(Choices(n, k)) = Comb(n, k)
    BY ChoicesFinite
  <2> HIDE DEF with
  <2> QED
    BY <1>2, <1>3, <1>4, <2>1, SameSize
<1>6. /\ IsFiniteSet(Choices(n + 1, k + 1)) /\ Cardinality(Choices(n + 1, k + 1)) = Comb(n + 1, k + 1)
      /\ Cardinality(Choices(n, k + 1)) = Comb(n, k + 1)
  <2>1. n + 1 \in Nat /\ k + 1 \in Nat
    OBVIOUS
  <2> QED
    BY <2>1, ChoicesFinite
<1>7. with \in SUBSET Choices(n + 1, k + 1)
  OBVIOUS
<1> HIDE DEF with
<1> QED
  BY <1>1, <1>5, <1>6, <1>7, PartAndRest

\* A choice of k of n and an element outside of it: the element comes first.
LEMMA CombLeaveOne ==
  ASSUME NEW n \in Nat, n > 0, NEW k \in Nat
  PROVE  Comb(n, k) * (n - k) = Comb(n - 1, k) * n
<1>1. CASE k = 0
  <2>1. n - 1 \in Nat /\ Comb(n, 0) = 1 /\ Comb(n - 1, 0) = 1
    BY CombBounds
  <2> QED
    BY <1>1, <2>1
<1>2. CASE k > 0
  <2> DEFINE a == Comb(n - 1, k)
             b == Comb(n - 1, k - 1)
             c == Comb(n, k)
  <2>1. n - 1 \in Nat /\ k - 1 \in Nat /\ (n - 1) + 1 = n /\ (k - 1) + 1 = k
    BY <1>2
  <2>2. c = a + b
    BY <2>1, Pascal
  <2>3. b * ((n - 1) - (k - 1)) = a * k
    BY <2>1, CombNext
  <2>4. a \in Nat /\ b \in Nat
    BY <2>1, ChoicesFinite
  <2> HIDE DEF a, b, c
  <2>5. b * (n - k) = a * k
    BY <2>3, (n - 1) - (k - 1) = n - k
  <2>6. (a + b) * (n - k) = a * (n - k) + b * (n - k) /\ a * (n - k) + a * k = a * n
    BY <2>4
  <2>7. c * (n - k) = a * n
    BY <2>2, <2>5, <2>6
  <2> QED
    BY <2>7 DEF a, c
<1> QED
  BY <1>1, <1>2

-----------------------------------------------------------------------------
\* Candidates that can be put in order: finitely many, each with a score.
Rankable(X) == IsFiniteSet(X) /\ \A p \in X : PvsOf(p) \in Int

\* An order gives each rank to one candidate, and the better score to the
\* better rank.
LEMMA OrderFacts ==
  ASSUME NEW X, Rankable(X), NEW f \in Orders(X), NEW N, N = Cardinality(X)
  PROVE  /\ N \in Nat /\ f \in [1..N -> X] /\ DOMAIN f = 1..N
         /\ \A i, j \in 1..N : f[i] = f[j] => i = j
         /\ \A p \in X : \E i \in 1..N : f[i] = p
         /\ \A i, j \in 1..N : i < j => PvsOf(f[i]) >= PvsOf(f[j])
         /\ \A i \in 1..N : PvsOf(f[i]) \in Int
<1>1. N \in Nat
  BY FS_CardinalityType DEF Rankable
<1>2. f \in Bijection(1..N, X) /\ \A i, j \in DOMAIN f : i < j => PvsOf(f[i]) >= PvsOf(f[j])
  BY DEF Orders
<1>3. f \in [1..N -> X] /\ DOMAIN f = 1..N
  BY <1>2 DEF Bijection, Surjection
<1> QED
  BY <1>1, <1>2, <1>3 DEF Bijection, Injection, Surjection, IsInjective, Rankable

\* The same, from which an order is made.
LEMMA OrderIntro ==
  ASSUME NEW X, NEW N, N = Cardinality(X), NEW f \in [1..N -> X],
         \A i, j \in 1..N : f[i] = f[j] => i = j,
         \A p \in X : \E i \in 1..N : f[i] = p,
         \A i, j \in 1..N : i < j => PvsOf(f[i]) >= PvsOf(f[j])
  PROVE  f \in Orders(X)
<1>1. f \in Bijection(1..N, X) /\ DOMAIN f = 1..N
  BY DEF Bijection, Injection, Surjection, IsInjective
<1> QED
  BY <1>1 DEF Orders

\* There are finitely many orders: each is a set of pairs.
LEMMA OrdersFinite ==
  ASSUME NEW X, Rankable(X)
  PROVE  IsFiniteSet(Orders(X)) /\ Cardinality(Orders(X)) \in Nat
<1> DEFINE N == Cardinality(X)
           P == SUBSET ((1..N) \X X)
           graph == [f \in Orders(X) |-> {<<i, f[i]>> : i \in 1..N}]
<1>1. N \in Nat /\ IsFiniteSet(1..N) /\ IsFiniteSet(X)
  BY FS_CardinalityType, FS_Interval DEF Rankable
<1>2. IsFiniteSet(P)
  <2>1. IsFiniteSet((1..N) \X X)
    BY <1>1, FS_Product
  <2> QED
    BY <2>1, FS_SUBSET
<1>3. \A f \in Orders(X) : f \in [1..N -> X]
  BY OrderFacts
<1>4. graph \in [Orders(X) -> P]
  <2> SUFFICES ASSUME NEW f \in Orders(X) PROVE {<<i, f[i]>> : i \in 1..N} \in P
    OBVIOUS
  <2>1. \A i \in 1..N : <<i, f[i]>> \in (1..N) \X X
    BY <1>3
  <2> QED
    BY <2>1
<1>5. ASSUME NEW f \in Orders(X), NEW h \in Orders(X), graph[f] = graph[h] PROVE f = h
  <2>1. ASSUME NEW i \in 1..N PROVE f[i] = h[i]
    <3>1. <<i, f[i]>> \in graph[h]
      BY <1>5
    <3> QED
      BY <3>1
  <2>2. f = [i \in 1..N |-> f[i]] /\ h = [i \in 1..N |-> h[i]]
    BY <1>3
  <2>3. [i \in 1..N |-> f[i]] = [i \in 1..N |-> h[i]]
    BY <2>1
  <2> QED
    BY <2>2, <2>3
<1> HIDE DEF graph, P
<1>6. graph \in Injection(Orders(X), P)
  BY <1>4, <1>5 DEF Injection, IsInjective
<1> QED
  BY <1>2, <1>6, FS_Injection, FS_CardinalityType

\* Candidates that include all with a score as good as one of theirs have the
\* first ranks.
LEMMA TopRanks ==
  ASSUME NEW X, Rankable(X), NEW C \in SUBSET X,
         \A p \in C, q \in X : PvsOf(q) >= PvsOf(p) => q \in C,
         NEW f \in Orders(X)
  PROVE  \A i \in 1..Cardinality(X) : f[i] \in C <=> i <= Cardinality(C)
<1> DEFINE N == Cardinality(X)
           D == {i \in 1..N : f[i] \in C}
           g == [i \in D |-> f[i]]
<1>1. /\ N \in Nat /\ f \in [1..N -> X]
      /\ \A i, j \in 1..N : f[i] = f[j] => i = j
      /\ \A p \in X : \E i \in 1..N : f[i] = p
      /\ \A i, j \in 1..N : i < j => PvsOf(f[i]) >= PvsOf(f[j])
  BY OrderFacts
<1>2. D = 1..Cardinality(D) /\ IsFiniteSet(D)
  <2>1. D \in SUBSET (1..N) /\ \A i \in D, j \in 1..N : j < i => j \in D
    BY <1>1
  <2>2. IsFiniteSet(1..N)
    BY <1>1, FS_Interval
  <2> HIDE DEF D
  <2> QED
    BY <1>1, <2>1, <2>2, FirstRanks, FS_Subset
<1>3. g \in [D -> C] /\ \A i, j \in D : g[i] = g[j] => i = j
  BY <1>1
<1>4. \A p \in C : \E i \in D : g[i] = p
  BY <1>1
<1>5. Cardinality(C) = Cardinality(D)
  <2> HIDE DEF g, D
  <2> QED
    BY <1>2, <1>3, <1>4, SameSize
<1>6. Cardinality(D) \in Nat
  BY <1>2, FS_CardinalityType
<1>7. \A i \in 1..N : i \in D <=> i <= Cardinality(D)
  <2> HIDE DEF D
  <2> QED
    BY <1>1, <1>2, <1>6
<1> QED
  BY <1>5, <1>7

\* The candidates of a score have the ranks after those above them.
LEMMA PlaceOf ==
  ASSUME NEW X, Rankable(X), NEW v \in Int, NEW a, a = Cardinality(Above(X, v)),
         NEW s, s = Cardinality(Tied(X, v)), NEW N, N = Cardinality(X)
  PROVE  /\ a \in Nat /\ s \in Nat /\ N \in Nat /\ a + s <= N
         /\ \A f \in Orders(X), i \in 1..N :
              /\ f[i] \in Above(X, v) <=> i <= a
              /\ f[i] \in Tied(X, v) <=> i \in (a + 1)..(a + s)
<1> DEFINE A == Above(X, v)
           B == Tied(X, v)
<1>1. /\ A \in SUBSET X /\ B \in SUBSET X /\ A \cap B = {}
      /\ \A p \in X : PvsOf(p) > v <=> p \in A
      /\ \A p \in X : PvsOf(p) >= v <=> p \in A \cup B
  BY DEF Above, Tied, Rankable
<1>2. IsFiniteSet(X) /\ IsFiniteSet(A) /\ IsFiniteSet(B)
  BY <1>1, FS_Subset DEF Rankable
<1>3. a \in Nat /\ s \in Nat /\ N \in Nat
  BY <1>2, FS_CardinalityType
<1>4. Cardinality(A \cup B) = a + s /\ a + s <= N
  <2>1. Cardinality(A \cup B) = a + s
    <3>1. Cardinality(A \cup B) = Cardinality(A) + Cardinality(B) - Cardinality(A \cap B)
      BY <1>2, FS_Union
    <3>2. Cardinality(A \cap B) = 0
      BY <1>1, FS_EmptySet
    <3>3. Cardinality(A) = a /\ Cardinality(B) = s
      OBVIOUS
    <3> HIDE DEF A, B
    <3> QED
      BY <1>3, <3>1, <3>2, <3>3
  <2>2. A \cup B \in SUBSET X
    BY <1>1
  <2> QED
    BY <1>2, <2>1, <2>2, FS_Subset
<1>5. \A p \in X : PvsOf(p) \in Int
  BY DEF Rankable
<1> HIDE DEF A, B
<1>6. ASSUME NEW f \in Orders(X), NEW i \in 1..N PROVE f[i] \in A <=> i <= a
  <2>1. \A p \in A, q \in X : PvsOf(q) >= PvsOf(p) => q \in A
    BY <1>1, <1>5
  <2> QED
    BY <1>1, <2>1, TopRanks DEF A
<1>7. ASSUME NEW f \in Orders(X), NEW i \in 1..N PROVE f[i] \in A \cup B <=> i <= a + s
  <2>1. \A p \in A \cup B, q \in X : PvsOf(q) >= PvsOf(p) => q \in A \cup B
    BY <1>1, <1>5
  <2>2. A \cup B \in SUBSET X
    BY <1>1
  <2> QED
    BY <1>4, <2>1, <2>2, TopRanks
<1>8. ASSUME NEW f \in Orders(X), NEW i \in 1..N PROVE f[i] \in B <=> i \in (a + 1)..(a + s)
  <2>1. f[i] \in B <=> f[i] \in A \cup B /\ f[i] \notin A
    BY <1>1
  <2> QED
    BY <1>3, <1>6, <1>7, <2>1
<1> QED
  BY <1>3, <1>4, <1>6, <1>8 DEF A, B

\* The order in which two candidates have changed places.
Swap(f, i, j) == [m \in DOMAIN f |-> IF m = i THEN f[j] ELSE IF m = j THEN f[i] ELSE f[m]]

\* Tied candidates can change places, and back.
LEMMA SwapOrder ==
  ASSUME NEW X, Rankable(X), NEW f \in Orders(X),
         NEW i \in 1..Cardinality(X), NEW j \in 1..Cardinality(X), PvsOf(f[i]) = PvsOf(f[j])
  PROVE  Swap(f, i, j) \in Orders(X) /\ Swap(Swap(f, i, j), i, j) = f
<1> DEFINE N == Cardinality(X)
           g == Swap(f, i, j)
<1>1. /\ N \in Nat /\ f \in [1..N -> X] /\ DOMAIN f = 1..N
      /\ \A m, n \in 1..N : f[m] = f[n] => m = n
      /\ \A p \in X : \E m \in 1..N : f[m] = p
      /\ \A m, n \in 1..N : m < n => PvsOf(f[m]) >= PvsOf(f[n])
  BY OrderFacts
<1>2. /\ g \in [1..N -> X] /\ DOMAIN g = 1..N
      /\ \A m \in 1..N : g[m] = IF m = i THEN f[j] ELSE IF m = j THEN f[i] ELSE f[m]
  BY <1>1 DEF Swap
<1>3. \A m \in 1..N : PvsOf(g[m]) = PvsOf(f[m])
  BY <1>2
<1>4. \A m, n \in 1..N : g[m] = g[n] => m = n
  BY <1>1, <1>2
<1>5. ASSUME NEW p \in X PROVE \E m \in 1..N : g[m] = p
  <2>1. PICK m \in 1..N : f[m] = p
    BY <1>1
  <2>2. g[i] = f[j] /\ g[j] = f[i] /\ (m \notin {i, j} => g[m] = f[m])
    BY <1>2
  <2> QED
    BY <2>1, <2>2
<1>6. g \in Orders(X)
  <2> HIDE DEF g
  <2> QED
    BY <1>1, <1>2, <1>3, <1>4, <1>5, OrderIntro
<1>7. Swap(g, i, j) = f
  BY <1>1, <1>2 DEF Swap
<1> QED
  BY <1>6, <1>7

\* Of some candidates, one has the lowest score.
LEMMA Lowest ==
  ASSUME NEW X, Rankable(X), X # {}
  PROVE  \E m \in X : \A q \in X : PvsOf(m) <= PvsOf(q)
<1> DEFINE upTo(p) == {q \in X : PvsOf(q) <= PvsOf(p)}
           F == {upTo(p) : p \in X}
<1>1. IsFiniteSet(X) /\ \A p \in X : PvsOf(p) \in Int
  BY DEF Rankable
<1>2. PICK T \in F : \A U \in F : U \subseteq T => U = T
  <2>1. F \in SUBSET SUBSET X /\ F # {}
    OBVIOUS
  <2> HIDE DEF F
  <2> QED
    BY <1>1, <2>1, Smallest
<1>3. PICK m \in X : T = upTo(m)
  BY <1>2
<1>4. ASSUME NEW q \in X, PvsOf(q) < PvsOf(m) PROVE FALSE
  <2>1. upTo(q) \in F /\ upTo(q) \subseteq upTo(m)
    BY <1>1, <1>4
  <2>2. upTo(q) = upTo(m)
    BY <1>2, <1>3, <2>1
  <2>3. m \in upTo(m)
    BY <1>1
  <2> QED
    BY <1>1, <1>4, <2>2, <2>3
<1> QED
  BY <1>1, <1>4

\* Candidates can always be put in order: one with the lowest score goes last.
LEMMA OrdersExist ==
  ASSUME NEW X, Rankable(X)
  PROVE  Orders(X) # {}
<1> DEFINE Bad == {T \in SUBSET X : Orders(T) = {}}
<1> SUFFICES ASSUME Bad # {} PROVE FALSE
  OBVIOUS
<1>1. PICK T \in Bad : \A U \in Bad : U \subseteq T => U = T
  <2>1. Bad \in SUBSET SUBSET X /\ IsFiniteSet(X)
    BY DEF Rankable
  <2> HIDE DEF Bad
  <2> QED
    BY <2>1, Smallest
<1>2. Orders(T) = {} /\ Rankable(T) /\ IsFiniteSet(T)
  BY FS_Subset DEF Rankable
<1>3. T # {}
  <2> SUFFICES ASSUME T = {} PROVE FALSE
    OBVIOUS
  <2>1. Cardinality(T) = 0
    BY FS_EmptySet
  <2> DEFINE f == [i \in 1..0 |-> i]
  <2>2. f \in [1..0 -> T]
    OBVIOUS
  <2>3. \A i \in 1..0 : FALSE
    OBVIOUS
  <2> HIDE DEF f
  <2>4. f \in Orders(T)
    BY <2>1, <2>2, <2>3, OrderIntro
  <2> QED
    BY <1>2, <2>4
<1>4. PICK m \in T : \A q \in T : PvsOf(m) <= PvsOf(q)
  BY <1>2, <1>3, Lowest
<1> DEFINE U == T \ {m}
           N == Cardinality(T)
           M == Cardinality(U)
<1>5. N \in Nat /\ M \in Nat /\ M = N - 1
  BY <1>2, FS_RemoveElement, FS_CardinalityType
<1>6. Rankable(U) /\ Orders(U) # {}
  <2>1. U \in SUBSET X /\ U \notin Bad
    BY <1>1
  <2>2. IsFiniteSet(U)
    BY <1>2, FS_RemoveElement
  <2> QED
    BY <1>2, <2>1, <2>2 DEF Rankable
<1>7. PICK f \in Orders(U) : TRUE
  BY <1>6
<1>8. /\ f \in [1..M -> U]
      /\ \A i, j \in 1..M : f[i] = f[j] => i = j
      /\ \A p \in U : \E i \in 1..M : f[i] = p
      /\ \A i, j \in 1..M : i < j => PvsOf(f[i]) >= PvsOf(f[j])
  <2>1. M = Cardinality(U) /\ Rankable(U) /\ f \in Orders(U)
    BY <1>6
  <2> HIDE DEF U, M
  <2> QED
    BY <2>1, OrderFacts
<1> DEFINE g == [i \in 1..N |-> IF i = N THEN m ELSE f[i]]
<1>9. N \in 1..N /\ \A i \in 1..N : i # N => i \in 1..M
  BY <1>5
<1>10. \A i \in 1..M : i \in 1..N /\ i # N
  BY <1>5
<1> HIDE DEF N, M
<1>11. g \in [1..N -> T] /\ g[N] = m /\ \A i \in 1..N : i # N => g[i] = f[i] /\ f[i] \in U
  BY <1>8, <1>9
<1> HIDE DEF g
<1>12. ASSUME NEW i \in 1..N, NEW j \in 1..N, g[i] = g[j] PROVE i = j
  BY <1>8, <1>9, <1>11, <1>12
<1>13. ASSUME NEW p \in T PROVE \E i \in 1..N : g[i] = p
  <2>1. CASE p = m
    BY <1>9, <1>11, <2>1
  <2>2. CASE p # m
    <3>1. PICK i \in 1..M : f[i] = p
      BY <1>8, <2>2
    <3> QED
      BY <1>10, <1>11, <3>1
  <2> QED
    BY <2>1, <2>2
<1>14. ASSUME NEW i \in 1..N, NEW j \in 1..N, i < j PROVE PvsOf(g[i]) >= PvsOf(g[j])
  <2>1. i # N /\ i \in 1..M
    BY <1>5, <1>9, <1>14 DEF N
  <2>2. \A p \in T : PvsOf(p) \in Int
    BY <1>2 DEF Rankable
  <2>3. CASE j = N
    <3>1. g[i] \in T /\ g[j] = m
      BY <1>11, <2>3
    <3> QED
      BY <1>4, <2>2, <3>1
  <2>4. CASE j # N
    BY <1>8, <1>9, <1>11, <1>14, <2>1, <2>4
  <2> QED
    BY <2>3, <2>4
<1>15. g \in Orders(T)
  BY <1>11, <1>12, <1>13, <1>14, OrderIntro DEF N
<1> QED
  BY <1>2, <1>15

-----------------------------------------------------------------------------
\* The orders whose first k candidates are not correct.
Clean(X, k) == {f \in Orders(X) : \A i \in DOMAIN f : i <= k => ~IsCorrect(f[i])}

\* They are finitely many, and no more for a greater k.
LEMMA CleanFinite ==
  ASSUME NEW X, Rankable(X), NEW k
  PROVE  /\ IsFiniteSet(Clean(X, k)) /\ Cardinality(Clean(X, k)) \in Nat
         /\ Clean(X, k) \in SUBSET Orders(X)
<1>1. Clean(X, k) \in SUBSET Orders(X)
  BY DEF Clean
<1> QED
  BY <1>1, OrdersFinite, FS_Subset, FS_CardinalityType

\* Whatever the order, the wrong candidates of a score are as many at its ranks.
LEMMA WrongAtRanks ==
  ASSUME NEW X, Rankable(X), NEW v \in Int, NEW b, b = Block(X, v), NEW f \in Orders(X)
  PROVE  /\ b.size - b.correct \in Nat /\ b.correct \in Nat
         /\ Cardinality({j \in (b.above + 1)..(b.above + b.size) : ~IsCorrect(f[j])}) = b.size - b.correct
<1> DEFINE N == Cardinality(X)
           right == {p \in Tied(X, v) : IsCorrect(p)}
           wrong == Tied(X, v) \ right
           ranks == {j \in (b.above + 1)..(b.above + b.size) : ~IsCorrect(f[j])}
           g == [j \in ranks |-> f[j]]
<1>1. /\ b.size = Cardinality(Tied(X, v)) /\ b.above = Cardinality(Above(X, v))
      /\ b.correct = Cardinality(right)
  BY DEF Block
<1>2. /\ b.above \in Nat /\ b.size \in Nat /\ N \in Nat /\ b.above + b.size <= N
      /\ \A i \in 1..N : f[i] \in Tied(X, v) <=> i \in (b.above + 1)..(b.above + b.size)
  BY <1>1, PlaceOf
<1>3. IsFiniteSet(wrong) /\ Cardinality(wrong) = b.size - b.correct /\ b.correct \in Nat
      /\ b.correct <= b.size
  <2>1. IsFiniteSet(Tied(X, v)) /\ right \in SUBSET Tied(X, v)
    BY FS_Subset DEF Rankable, Tied
  <2> HIDE DEF right
  <2> QED
    BY <1>1, <2>1, PartAndRest
<1>4. /\ f \in [1..N -> X]
      /\ \A i, j \in 1..N : f[i] = f[j] => i = j
      /\ \A p \in X : \E i \in 1..N : f[i] = p
  BY OrderFacts
<1>5. \A j \in (b.above + 1)..(b.above + b.size) : j \in 1..N
  BY <1>2
<1>6. g \in [ranks -> wrong] /\ \A i, j \in ranks : g[i] = g[j] => i = j
  BY <1>2, <1>4, <1>5
<1>7. ASSUME NEW p \in wrong PROVE \E j \in ranks : g[j] = p
  <2>1. p \in X /\ p \in Tied(X, v) /\ ~IsCorrect(p)
    BY DEF Tied
  <2>2. PICK j \in 1..N : f[j] = p
    BY <1>4, <2>1
  <2> QED
    BY <1>2, <2>1, <2>2
<1>8. IsFiniteSet(ranks)
  <2>1. IsFiniteSet((b.above + 1)..(b.above + b.size))
    <3>1. b.above + 1 \in Int /\ b.above + b.size \in Int
      BY <1>2
    <3> QED
      BY <3>1, FS_Interval
  <2> QED
    BY <2>1, FS_Subset
<1> HIDE DEF ranks, wrong, g
<1>9. Cardinality(wrong) = Cardinality(ranks)
  BY <1>6, <1>7, <1>8, SameSize
<1> QED
  BY <1>2, <1>3, <1>9 DEF ranks

\* At each rank of a block the share of the orders without a correct candidate
\* so far is cut by that of the wrong candidates among those that are left:
\* an order and a wrong candidate left in the block give, by changing places,
\* an order that is clean for one rank more.
LEMMA CleanNext ==
  ASSUME NEW X, Rankable(X), NEW v \in Int, NEW b, b = Block(X, v),
         NEW a, a = b.above, NEW s, s = b.size, NEW w, w = b.size - b.correct,
         NEW k \in Nat, a <= k, k < a + s
  PROVE  Cardinality(Clean(X, k)) * (w - (k - a)) = (s - (k - a)) * Cardinality(Clean(X, k + 1))
<1> DEFINE N == Cardinality(X)
           i == k + 1
           F == Clean(X, k)
           J == i..(a + s)
           R == {r \in F \X J : ~IsCorrect(r[1][r[2]])}
           y == w - (k - a)
           x == Cardinality(Clean(X, k + 1))
<1>1. a = Cardinality(Above(X, v)) /\ s = Cardinality(Tied(X, v))
  BY DEF Block
<1>2. /\ a \in Nat /\ s \in Nat /\ N \in Nat /\ a + s <= N
      /\ \A f \in Orders(X), j \in 1..N : f[j] \in Tied(X, v) <=> j \in (a + 1)..(a + s)
  BY <1>1, PlaceOf
<1>3. ASSUME NEW f \in Orders(X)
      PROVE  w \in Nat /\ Cardinality({j \in (a + 1)..(a + s) : ~IsCorrect(f[j])}) = w
  BY WrongAtRanks
<1>4. w \in Nat
  <2>1. PICK f \in Orders(X) : TRUE
    BY OrdersExist
  <2> QED
    BY <1>3, <2>1
<1>5. i \in 1..N /\ \A j \in J : j \in 1..N /\ j >= i /\ j \in (a + 1)..(a + s)
  BY <1>2
<1>6. ASSUME NEW f \in Orders(X), NEW j \in J
      PROVE  Swap(f, i, j) \in Orders(X) /\ Swap(Swap(f, i, j), i, j) = f
  <2>1. f[i] \in Tied(X, v) /\ f[j] \in Tied(X, v)
    BY <1>2, <1>5
  <2>2. PvsOf(f[i]) = PvsOf(f[j])
    BY <2>1 DEF Tied
  <2> QED
    BY <1>5, <2>2, SwapOrder
<1>7. \A f \in Orders(X) : DOMAIN f = 1..N
  BY OrderFacts
<1>8. ASSUME NEW f \in F PROVE Cardinality(RowOf(R, J, f)) = y
  <2> DEFINE all == {j \in (a + 1)..(a + s) : ~IsCorrect(f[j])}
             old == (a + 1)..k
  <2>1. f \in Orders(X) /\ \A j \in 1..N : j <= k => ~IsCorrect(f[j])
    BY <1>7 DEF Clean
  <2>2. old \in SUBSET all /\ RowOf(R, J, f) = all \ old
    BY <1>2, <2>1 DEF RowOf
  <2>3. Cardinality(old) = k - a
    <3>1. a + 1 \in Int /\ k \in Int
      BY <1>2
    <3>2. Cardinality(old) = IF a + 1 > k THEN 0 ELSE k - (a + 1) + 1
      BY <3>1, FS_Interval
    <3> QED
      BY <1>2, <3>2
  <2>4. Cardinality(all) = w
    BY <1>3, <2>1
  <2>5. IsFiniteSet(all)
    <3>1. a + 1 \in Int /\ a + s \in Int
      BY <1>2
    <3>2. IsFiniteSet((a + 1)..(a + s))
      BY <3>1, FS_Interval
    <3> QED
      BY <3>2, FS_Subset
  <2> HIDE DEF all, old
  <2>6. Cardinality(all \ old) = Cardinality(all) - Cardinality(old)
    BY <2>2, <2>5, PartAndRest
  <2> QED
    BY <2>2, <2>3, <2>4, <2>6
<1>9. ASSUME NEW j \in J PROVE Cardinality(ColumnOf(R, F, j)) = x
  <2> DEFINE C == ColumnOf(R, F, j)
             D == Clean(X, i)
             turn == [f \in C |-> Swap(f, i, j)]
  <2>1. \A f \in C : f \in Orders(X) /\ f \in F /\ ~IsCorrect(f[j])
    BY DEF ColumnOf, Clean
  <2>2. ASSUME NEW f \in C PROVE Swap(f, i, j) \in D
    <3>1. f \in Orders(X) /\ DOMAIN f = 1..N /\ \A m \in 1..N : m <= k => ~IsCorrect(f[m])
      BY <1>7, <2>1 DEF Clean
    <3>2. ASSUME NEW m \in 1..N, m <= i PROVE ~IsCorrect(Swap(f, i, j)[m])
      <4>1. CASE m = i
        <5>1. Swap(f, i, j)[m] = f[j]
          BY <3>1, <4>1 DEF Swap
        <5> QED
          BY <2>1, <5>1
      <4>2. CASE m # i
        <5>1. m <= k /\ m # j
          BY <1>5, <3>2, <4>2
        <5>2. Swap(f, i, j)[m] = f[m]
          BY <3>1, <4>2, <5>1 DEF Swap
        <5> QED
          BY <3>1, <5>1, <5>2
      <4> QED
        BY <4>1, <4>2
    <3>3. DOMAIN Swap(f, i, j) = 1..N
      BY <3>1 DEF Swap
    <3> QED
      BY <1>6, <3>1, <3>2, <3>3 DEF Clean
  <2>3. turn \in [C -> D]
    BY <2>2
  <2>4. ASSUME NEW f \in C, NEW h \in C, turn[f] = turn[h] PROVE f = h
    <3>1. Swap(f, i, j) = Swap(h, i, j)
      BY <2>4
    <3>2. Swap(Swap(f, i, j), i, j) = f /\ Swap(Swap(h, i, j), i, j) = h
      BY <1>6, <2>1
    <3> QED
      BY <3>1, <3>2
  <2>5. ASSUME NEW h \in D PROVE \E f \in C : turn[f] = h
    <3>1. h \in Orders(X) /\ DOMAIN h = 1..N /\ \A m \in 1..N : m <= i => ~IsCorrect(h[m])
      BY <1>7 DEF Clean
    <3>2. \A m \in 1..N : (m <= k => ~IsCorrect(Swap(h, i, j)[m]))
      BY <1>5, <3>1 DEF Swap
    <3>3. ~IsCorrect(Swap(h, i, j)[j])
      BY <1>5, <3>1 DEF Swap
    <3>4. DOMAIN Swap(h, i, j) = 1..N /\ Swap(h, i, j) \in Orders(X)
      <4>1. DOMAIN Swap(h, i, j) = 1..N
        BY <3>1 DEF Swap
      <4> QED
        BY <1>6, <3>1, <4>1
    <3>5. Swap(h, i, j) \in F
      BY <3>2, <3>4 DEF Clean
    <3>6. Swap(h, i, j) \in C
      BY <3>3, <3>5 DEF ColumnOf
    <3>7. turn[Swap(h, i, j)] = h
      BY <1>6, <3>1, <3>6
    <3> QED
      BY <3>6, <3>7
  <2>6. IsFiniteSet(C)
    <3>1. C \in SUBSET F /\ IsFiniteSet(F)
      BY CleanFinite DEF ColumnOf
    <3> QED
      BY <3>1, FS_Subset
  <2> HIDE DEF C, D, turn
  <2>7. Cardinality(D) = Cardinality(C)
    BY <2>3, <2>4, <2>5, <2>6, SameSize
  <2> QED
    BY <2>7 DEF C, D
<1>10. IsFiniteSet(F) /\ x \in Int
  BY CleanFinite
<1>11. IsFiniteSet(J) /\ Cardinality(J) = s - (k - a)
  <2>1. i \in Int /\ a + s \in Int
    BY <1>2
  <2>2. IsFiniteSet(J) /\ Cardinality(J) = IF i > a + s THEN 0 ELSE (a + s) - i + 1
    BY <2>1, FS_Interval
  <2> QED
    BY <1>2, <2>2
<1>12. R \in SUBSET (F \X J) /\ y \in Int
  BY <1>2, <1>4
<1> HIDE DEF R, F, J, x, y
<1>13. Regular(R, F, J, y, x)
  BY <1>8, <1>9, <1>10, <1>11, <1>12 DEF Regular
<1>14. Cardinality(F) * y = Cardinality(J) * x
  BY <1>13, DoubleCount
<1> QED
  BY <1>11, <1>14 DEF F, x, y

\* Multiplication of integers, as the products of the next lemmas need it.
LEMMA Times ==
  ASSUME NEW x \in Int, NEW y \in Int, NEW z \in Int
  PROVE  (x * y) * z = x * (y * z) /\ x * y = y * x /\ x * y \in Int
         /\ (z # 0 /\ x * z = y * z => x = y)
<1>1. (x * y) * z = x * (y * z) /\ x * y = y * x /\ x * y \in Int
  OBVIOUS
<1>2. ASSUME z # 0, x * z = y * z PROVE x = y
  <2>1. (x - y) * z = x * z - y * z
    OBVIOUS
  <2>2. (x - y) * z = 0
    BY <1>2, <2>1
  <2>3. x - y = 0
    BY <1>2, <2>2
  <2> QED
    BY <2>3
<1> QED
  BY <1>1, <1>2

\* What two ranks, one after the other, are known to have in common.
ShareKnown(n0, n1, all, p, q, r, c0, c1, d0, d1) ==
  /\ n0 \in Int /\ n1 \in Int /\ all \in Int /\ p \in Int /\ q \in Int /\ r \in Int /\ r # 0
  /\ c0 \in Int /\ c1 \in Int /\ d0 \in Int /\ d1 \in Int
  /\ n0 * q = p * n1 /\ c0 * p = c1 * r /\ d0 * q = d1 * r /\ n0 * c0 = all * d0

\* The share at a rank gives the share at the next.
LEMMA ShareStep ==
  ASSUME NEW n0, NEW n1, NEW all, NEW p, NEW q, NEW r, NEW c0, NEW c1, NEW d0, NEW d1,
         ShareKnown(n0, n1, all, p, q, r, c0, c1, d0, d1)
  PROVE  n1 * c1 = all * d1
<1> USE DEF ShareKnown
<1>1. (n1 * c1) * r = n1 * (c0 * p)
  BY Times
<1>2. n1 * (c0 * p) = c0 * (p * n1)
  <2>1. n1 * (c0 * p) = (c0 * p) * n1
    BY Times
  <2> QED
    BY <2>1, Times
<1>3. c0 * (n0 * q) = (n0 * c0) * q
  <2>1. c0 * (n0 * q) = (c0 * n0) * q
    BY Times
  <2> QED
    BY <2>1, Times
<1>4. (all * d0) * q = (all * d1) * r
  <2>1. (all * d0) * q = all * (d0 * q) /\ (all * d1) * r = all * (d1 * r)
    BY Times
  <2> QED
    BY <2>1
<1>5. (n1 * c1) * r = (all * d1) * r
  BY <1>1, <1>2, <1>3, <1>4
<1>6. n1 * c1 \in Int /\ all * d1 \in Int
  OBVIOUS
<1> QED
  BY <1>5, <1>6, Times

\* Of the orders that are clean before a block, the share that is clean at its
\* first j ranks: the choices of j of its wrong candidates for these ranks.
LEMMA CleanShare ==
  ASSUME NEW X, Rankable(X), NEW v \in Int, NEW b, b = Block(X, v),
         NEW a, a = b.above, NEW s, s = b.size, NEW w, w = b.size - b.correct, NEW j \in 0..s
  PROVE  Cardinality(Clean(X, a + j)) * Comb(s, j) = Cardinality(Clean(X, a)) * Comb(w, j)
<1> DEFINE n(i) == Cardinality(Clean(X, a + i))
           all == Cardinality(Clean(X, a))
           P == {i \in Nat : n(i) * Comb(s, i) = all * Comb(w, i)}
<1>1. a \in Nat /\ s \in Nat /\ w \in Nat
  <2>1. PICK f \in Orders(X) : TRUE
    BY OrdersExist
  <2>2. a = Cardinality(Above(X, v)) /\ s = Cardinality(Tied(X, v))
    BY DEF Block
  <2> QED
    BY <2>1, <2>2, PlaceOf, WrongAtRanks
<1>2. \A i \in Nat : n(i) \in Nat
  BY CleanFinite
<1>3. 0 \in P
  <2>1. a + 0 = a /\ Comb(s, 0) = 1 /\ Comb(w, 0) = 1
    BY <1>1, CombBounds
  <2> QED
    BY <2>1
<1>4. ASSUME NEW i \in 0..s, i \in P, i < s PROVE i + 1 \in P
  <2>1. i \in Nat /\ i + 1 \in Nat
    BY <1>1
  <2>2. n(i) * (w - i) = (s - i) * n(i + 1)
    <3>1. a + i \in Nat /\ a <= a + i /\ a + i < a + s /\ (a + i) - a = i /\ (a + i) + 1 = a + (i + 1)
      BY <1>1, <1>4
    <3> DEFINE k == a + i
    <3>2. Cardinality(Clean(X, k)) * (w - (k - a)) = (s - (k - a)) * Cardinality(Clean(X, k + 1))
      <4> HIDE DEF k
      <4> QED
        BY <3>1, CleanNext DEF k
    <3> QED
      BY <3>1, <3>2
  <2>3. Comb(s, i) * (s - i) = Comb(s, i + 1) * (i + 1) /\ Comb(w, i) * (w - i) = Comb(w, i + 1) * (i + 1)
    <3>1. s \in Nat /\ w \in Nat /\ i \in Nat
      BY <1>1, <2>1
    <3> QED
      BY <3>1, CombNext
  <2>4. /\ Comb(s, i) \in Int /\ Comb(s, i + 1) \in Int /\ Comb(w, i) \in Int /\ Comb(w, i + 1) \in Int
        /\ n(i) \in Int /\ n(i + 1) \in Int /\ all \in Int /\ s - i \in Int /\ w - i \in Int
        /\ i + 1 \in Int /\ i + 1 # 0
    <3>1. /\ Comb(s, i) \in Nat /\ Comb(s, i + 1) \in Nat
          /\ Comb(w, i) \in Nat /\ Comb(w, i + 1) \in Nat
      BY <1>1, <2>1, CombType
    <3>2. n(i) \in Nat /\ n(i + 1) \in Nat /\ all \in Nat
      BY <1>2, <2>1, CleanFinite
    <3> HIDE DEF n, all
    <3> QED
      BY <1>1, <2>1, <3>1, <3>2
  <2>5. n(i) * Comb(s, i) = all * Comb(w, i)
    BY <1>4
  <2> DEFINE r == i + 1
             p == s - i
             q == w - i
  <2>6. n(r) * Comb(s, r) = all * Comb(w, r)
    <3>1. /\ n(i) * q = p * n(r)
          /\ Comb(s, i) * p = Comb(s, r) * r /\ Comb(w, i) * q = Comb(w, r) * r
      BY <2>2, <2>3
    <3>2. /\ Comb(s, i) \in Int /\ Comb(s, r) \in Int /\ Comb(w, i) \in Int /\ Comb(w, r) \in Int
          /\ n(i) \in Int /\ n(r) \in Int /\ all \in Int /\ p \in Int /\ q \in Int /\ r \in Int /\ r # 0
      BY <2>4
    <3> HIDE DEF r, p, q, n, all
    <3>3. ShareKnown(n(i), n(r), all, p, q, r, Comb(s, i), Comb(s, r), Comb(w, i), Comb(w, r))
      BY <2>5, <3>1, <3>2 DEF ShareKnown
    <3> QED
      BY <3>3, ShareStep
  <2> QED
    BY <2>1, <2>6
<1>5. 0..s \subseteq P
  <2>1. P \in SUBSET Nat
    OBVIOUS
  <2> HIDE DEF P
  <2> QED
    BY <1>1, <1>3, <1>4, <2>1, UpTo
<1> QED
  BY <1>5

\* The same by the choices of the ranks of its correct candidates.
LEMMA CleanShareOfRight ==
  ASSUME NEW X, Rankable(X), NEW v \in Int, NEW b, b = Block(X, v),
         NEW a, a = b.above, NEW s, s = b.size, NEW c, c = b.correct, NEW j \in 0..s
  PROVE  Cardinality(Clean(X, a + j)) * Comb(s, c) = Cardinality(Clean(X, a)) * Comb(s - j, c)
<1> DEFINE n(i) == Cardinality(Clean(X, a + i))
           all == Cardinality(Clean(X, a))
           P == {i \in Nat : n(i) * Comb(s, c) = all * Comb(s - i, c)}
<1>1. a \in Nat /\ s \in Nat /\ c \in Nat
  <2>1. PICK f \in Orders(X) : TRUE
    BY OrdersExist
  <2>2. a = Cardinality(Above(X, v)) /\ s = Cardinality(Tied(X, v))
    BY DEF Block
  <2> QED
    BY <2>1, <2>2, PlaceOf, WrongAtRanks
<1>2. \A i \in Nat : n(i) \in Nat
  BY CleanFinite
<1>3. 0 \in P
  BY <1>1, a + 0 = a, s - 0 = s
<1>4. ASSUME NEW i \in 0..s, i \in P, i < s PROVE i + 1 \in P
  <2>1. i \in Nat /\ i + 1 \in Nat
    BY <1>1
  <2>2. n(i) * ((s - c) - i) = (s - i) * n(i + 1)
    <3>1. a + i \in Nat /\ a <= a + i /\ a + i < a + s /\ (a + i) - a = i /\ (a + i) + 1 = a + (i + 1)
      BY <1>1, <1>4
    <3> DEFINE k == a + i
               w == s - c
    <3>2. Cardinality(Clean(X, k)) * (w - (k - a)) = (s - (k - a)) * Cardinality(Clean(X, k + 1))
      <4>1. w = b.size - b.correct
        OBVIOUS
      <4> HIDE DEF k, w
      <4> QED
        BY <3>1, <4>1, CleanNext DEF k
    <3> QED
      BY <3>1, <3>2
  <2> DEFINE p == s - i
             q == (s - c) - i
             d0 == Comb(s - i, c)
             d1 == Comb(s - (i + 1), c)
             e == Comb(s, c)
  <2>3. d0 * q = d1 * p
    <3>1. p \in Nat /\ p > 0 /\ p - c = q /\ p - 1 = s - (i + 1)
      BY <1>1, <1>4
    <3>2. Comb(p, c) * (p - c) = Comb(p - 1, c) * p
      <4> HIDE DEF p
      <4> QED
        BY <1>1, <3>1, CombLeaveOne
    <3> QED
      BY <3>1, <3>2
  <2>4. d0 \in Int /\ d1 \in Int /\ e \in Int /\ n(i) \in Int /\ n(i + 1) \in Int /\ all \in Int
        /\ p \in Int /\ q \in Int /\ p # 0
    <3>1. s - i \in Nat /\ s - (i + 1) \in Nat /\ s - i # 0 /\ (s - c) - i \in Int
      BY <1>1, <1>4
    <3>2. d0 \in Nat /\ d1 \in Nat /\ e \in Nat
      BY <1>1, <3>1, CombType
    <3>3. n(i) \in Nat /\ n(i + 1) \in Nat /\ all \in Nat
      BY <1>2, <2>1, CleanFinite
    <3> HIDE DEF n, all, d0, d1, e
    <3> QED
      BY <3>1, <3>2, <3>3
  <2>5. n(i) * e = all * d0 /\ n(i) * q = p * n(i + 1)
    BY <1>4, <2>2
  <2>6. n(i + 1) * e = all * d1
    <3> HIDE DEF p, q, n, all, d0, d1, e
    <3>1. ShareKnown(n(i), n(i + 1), all, p, q, p, e, e, d0, d1)
      BY <2>3, <2>4, <2>5 DEF ShareKnown
    <3> QED
      BY <3>1, ShareStep
  <2> QED
    BY <2>1, <2>6
<1>5. 0..s \subseteq P
  <2>1. P \in SUBSET Nat
    OBVIOUS
  <2> HIDE DEF P
  <2> QED
    BY <1>1, <1>3, <1>4, <2>1, UpTo
<1> QED
  BY <1>5

-----------------------------------------------------------------------------
\* The rank of the first correct candidate, in an order that has one.
LEMMA FirstRank ==
  ASSUME NEW X, Rankable(X), NEW f \in Solved(Orders(X)), NEW N, N = Cardinality(X)
  PROVE  /\ N \in Nat /\ f \in Orders(X) /\ DOMAIN f = 1..N /\ FirstCorrect(f) \in 1..N
         /\ IsCorrect(f[FirstCorrect(f)])
         /\ \A j \in 1..N : j < FirstCorrect(f) => ~IsCorrect(f[j])
<1>1. f \in Orders(X) /\ \E i \in DOMAIN f : IsCorrect(f[i])
  BY DEF Solved
<1>2. N \in Nat /\ DOMAIN f = 1..N
  BY <1>1, OrderFacts
<1> DEFINE D == {i \in 1..N : IsCorrect(f[i])}
<1>3. D \in SUBSET Nat /\ D # {}
  BY <1>1, <1>2
<1>4. PICK m \in D : \A d \in D : m <= d
  <2> HIDE DEF D
  <2> QED
    BY <1>3, LeastNumber
<1>5. m \in DOMAIN f /\ IsCorrect(f[m]) /\ \A j \in 1..(m - 1) : ~IsCorrect(f[j])
  BY <1>2, <1>4
<1>6. /\ FirstCorrect(f) \in DOMAIN f /\ IsCorrect(f[FirstCorrect(f)])
      /\ \A j \in 1..(FirstCorrect(f) - 1) : ~IsCorrect(f[j])
  BY <1>5 DEF FirstCorrect
<1> QED
  BY <1>1, <1>2, <1>6

\* How many orders have the first correct candidate by rank n, or at it.
LEMMA FirstCounted ==
  ASSUME NEW X, Rankable(X), NEW n \in Nat, NEW O, O = Orders(X)
  PROVE  /\ Cardinality({f \in Solved(O) : FirstCorrect(f) <= n})
              = Cardinality(O) - Cardinality(Clean(X, n))
         /\ n > 0 => Cardinality({f \in Solved(O) : FirstCorrect(f) = n})
                       = Cardinality(Clean(X, n - 1)) - Cardinality(Clean(X, n))
<1> DEFINE N == Cardinality(X)
<1>1. \A f \in O : N \in Nat /\ DOMAIN f = 1..N
  BY OrderFacts
<1>2. \A f \in Solved(O) :
        /\ f \in O /\ FirstCorrect(f) \in 1..N /\ IsCorrect(f[FirstCorrect(f)])
        /\ \A j \in 1..N : j < FirstCorrect(f) => ~IsCorrect(f[j])
  BY FirstRank
<1>3. ASSUME NEW f \in O, NEW k \in Nat
      PROVE  f \notin Clean(X, k) <=> f \in Solved(O) /\ FirstCorrect(f) <= k
  <2>1. CASE f \in Solved(O)
    <3>1. FirstCorrect(f) <= k => f \notin Clean(X, k)
      BY <1>1, <1>2, <2>1 DEF Clean
    <3>2. k < FirstCorrect(f) => f \in Clean(X, k)
      BY <1>1, <1>2, <2>1 DEF Clean
    <3> QED
      BY <1>1, <1>2, <2>1, <3>1, <3>2
  <2>2. CASE f \notin Solved(O)
    BY <2>2 DEF Clean, Solved
  <2> QED
    BY <2>1, <2>2
<1>4. IsFiniteSet(O) /\ \A k : IsFiniteSet(Clean(X, k)) /\ Clean(X, k) \in SUBSET O
  BY OrdersFinite, CleanFinite
<1>5. {f \in Solved(O) : FirstCorrect(f) <= n} = O \ Clean(X, n)
  BY <1>2, <1>3
<1>6. ASSUME n > 0
      PROVE  /\ {f \in Solved(O) : FirstCorrect(f) = n} = Clean(X, n - 1) \ Clean(X, n)
             /\ Clean(X, n) \in SUBSET Clean(X, n - 1)
  <2>1. n - 1 \in Nat
    BY <1>6
  <2>2. \A f \in O : f \notin Clean(X, n - 1) <=> f \in Solved(O) /\ FirstCorrect(f) <= n - 1
    BY <1>3, <2>1
  <2>3. \A f \in O : f \notin Clean(X, n) <=> f \in Solved(O) /\ FirstCorrect(f) <= n
    BY <1>3
  <2>4. \A f \in Solved(O) : FirstCorrect(f) \in Int /\ f \in O
    BY <1>2
  <2> QED
    BY <1>4, <2>2, <2>3, <2>4
<1>7. Cardinality(O \ Clean(X, n)) = Cardinality(O) - Cardinality(Clean(X, n))
  BY <1>4, PartAndRest
<1>8. n > 0 => Cardinality(Clean(X, n - 1) \ Clean(X, n))
                 = Cardinality(Clean(X, n - 1)) - Cardinality(Clean(X, n))
  BY <1>4, <1>6, PartAndRest
<1> QED
  BY <1>5, <1>6, <1>7, <1>8

\* What is known of a block: it has candidates, and a correct one if it counts one.
LEMMA BlockFacts ==
  ASSUME NEW X, Rankable(X), NEW b \in Blocks(X)
  PROVE  \E v \in Int :
           /\ b = Block(X, v) /\ b.above = Cardinality(Above(X, v)) /\ b.size = Cardinality(Tied(X, v))
           /\ b.above \in Nat /\ b.size \in Nat /\ b.correct \in Nat /\ b.size - b.correct \in Nat
           /\ b.size > 0 /\ b.above + b.size <= Cardinality(X)
           /\ b.correct > 0 => \E p \in Tied(X, v) : IsCorrect(p)
<1>1. PICK p \in X : b = Block(X, PvsOf(p))
  BY DEF Blocks
<1> DEFINE v == PvsOf(p)
           right == {q \in Tied(X, v) : IsCorrect(q)}
<1>2. v \in Int /\ p \in Tied(X, v) /\ IsFiniteSet(X)
  BY DEF Rankable, Tied
<1>3. /\ b.above = Cardinality(Above(X, v)) /\ b.size = Cardinality(Tied(X, v))
      /\ b.correct = Cardinality(right)
  BY <1>1 DEF Block
<1>4. IsFiniteSet(Tied(X, v))
  BY <1>2, FS_Subset DEF Tied
<1>5. b.size # 0
  BY <1>2, <1>3, <1>4, FS_EmptySet
<1>6. b.above \in Nat /\ b.size \in Nat /\ b.above + b.size <= Cardinality(X)
  BY <1>2, <1>3, PlaceOf
<1>7. b.correct \in Nat /\ b.size - b.correct \in Nat
  <2>1. PICK f \in Orders(X) : TRUE
    BY OrdersExist
  <2> QED
    BY <1>1, <1>2, <2>1, WrongAtRanks
<1>8. b.correct > 0 => right # {}
  BY <1>3, FS_EmptySet
<1>9. b.correct > 0 => \E q \in Tied(X, v) : IsCorrect(q)
  BY <1>8
<1>10. b.size > 0
  BY <1>5, <1>6
<1>11. b = Block(X, v)
  BY <1>1
<1> HIDE DEF v, right
<1> QED
  BY <1>2, <1>3, <1>6, <1>7, <1>9, <1>10, <1>11

\* A block that starts before another ends before it.
LEMMA BlocksApart ==
  ASSUME NEW X, Rankable(X), NEW b \in Blocks(X), NEW c \in Blocks(X), c.above < b.above
  PROVE  c.above + c.size <= b.above
<1>1. PICK v \in Int :
        /\ b.above = Cardinality(Above(X, v)) /\ b.size = Cardinality(Tied(X, v))
        /\ b.above \in Nat /\ b.size \in Nat /\ b.size > 0 /\ b.above + b.size <= Cardinality(X)
  BY BlockFacts
<1>2. PICK u \in Int :
        /\ c.above = Cardinality(Above(X, u)) /\ c.size = Cardinality(Tied(X, u))
        /\ c.above \in Nat /\ c.size \in Nat
  BY BlockFacts
<1>3. PICK f \in Orders(X) : TRUE
  BY OrdersExist
<1> SUFFICES ASSUME b.above < c.above + c.size PROVE FALSE
  BY <1>1, <1>2
<1> DEFINE i == b.above + 1
<1>4. Cardinality(X) \in Nat
  BY FS_CardinalityType DEF Rankable
<1>5. i \in 1..Cardinality(X) /\ i \in (b.above + 1)..(b.above + b.size)
  BY <1>1, <1>4
<1>6. i \in (c.above + 1)..(c.above + c.size)
  BY <1>1, <1>2
<1>7. f[i] \in Tied(X, v)
  <2> HIDE DEF i
  <2> QED
    BY <1>1, <1>3, <1>5, PlaceOf
<1>8. f[i] \in Tied(X, u)
  <2> HIDE DEF i
  <2> QED
    BY <1>2, <1>3, <1>5, <1>6, PlaceOf
<1>9. u = v
  BY <1>7, <1>8 DEF Tied
<1> QED
  BY <1>1, <1>2, <1>9

\* Ahead of the blocks with a correct candidate every order is clean.
LEMMA CleanAhead ==
  ASSUME NEW X, Rankable(X), NEW k \in Nat,
         \A b \in Blocks(X) : b.above < k => ~(b.correct > 0)
  PROVE  Clean(X, k) = Orders(X)
<1> SUFFICES ASSUME NEW f \in Orders(X), NEW i \in DOMAIN f, i <= k, IsCorrect(f[i]) PROVE FALSE
  BY DEF Clean
<1> DEFINE N == Cardinality(X)
           v == PvsOf(f[i])
           b == Block(X, v)
           right == {q \in Tied(X, v) : IsCorrect(q)}
<1>1. N \in Nat /\ i \in 1..N /\ f[i] \in X /\ v \in Int
  BY OrderFacts
<1>2. b \in Blocks(X) /\ f[i] \in right
  BY <1>1 DEF Blocks, Tied
<1>3. /\ b.above = Cardinality(Above(X, v)) /\ b.size = Cardinality(Tied(X, v))
      /\ b.correct = Cardinality(right)
  BY DEF Block
<1>4. b.above \in Nat /\ i \in (b.above + 1)..(b.above + b.size)
  BY <1>1, <1>2, <1>3, PlaceOf
<1>5. b.above < k
  BY <1>1, <1>4
<1>6. b.correct > 0
  <2>1. IsFiniteSet(right)
    BY FS_Subset DEF Rankable, Tied
  <2>2. Cardinality(right) # 0 /\ Cardinality(right) \in Nat
    BY <1>2, <2>1, FS_EmptySet, FS_CardinalityType
  <2> QED
    BY <1>3, <2>2
<1> HIDE DEF b
<1> QED
  BY <1>2, <1>5, <1>6

\* Past a block with a correct candidate none is.
LEMMA CleanPast ==
  ASSUME NEW X, Rankable(X), NEW k \in Nat, NEW b \in Blocks(X),
         b.above + b.size <= k, b.correct > 0
  PROVE  Clean(X, k) = {}
<1> SUFFICES ASSUME NEW f \in Clean(X, k) PROVE FALSE
  OBVIOUS
<1>1. PICK v \in Int :
        /\ b.above = Cardinality(Above(X, v)) /\ b.size = Cardinality(Tied(X, v))
        /\ b.above \in Nat /\ b.size \in Nat /\ \E p \in Tied(X, v) : IsCorrect(p)
  BY BlockFacts
<1>2. PICK p \in Tied(X, v) : IsCorrect(p)
  BY <1>1
<1>3. f \in Orders(X) /\ DOMAIN f = 1..Cardinality(X)
      /\ \A i \in DOMAIN f : i <= k => ~IsCorrect(f[i])
  BY OrderFacts DEF Clean
<1>4. PICK i \in 1..Cardinality(X) : f[i] = p
  BY <1>3, OrderFacts DEF Tied
<1>5. i \in (b.above + 1)..(b.above + b.size)
  BY <1>1, <1>2, <1>3, <1>4, PlaceOf
<1> QED
  BY <1>1, <1>2, <1>3, <1>4, <1>5

\* The closed form of Top-n is the share of the orders with a correct candidate
\* among the first n.
LEMMA TopNSuccess ==
  ASSUME NEW X, Rankable(X), NEW n \in Nat
  PROVE  TopNIsShare(X, n)
<1> SUFFICES ASSUME NEW O, O = Orders(X), NEW top, top = ExpectedTopNSuccess(Blocks(X), n)
             PROVE  /\ top.den > 0
                    /\ top.num * Cardinality(O)
                         = top.den * Cardinality({f \in Solved(O) : FirstCorrect(f) <= n})
  BY DEF TopNIsShare
<1> DEFINE all == Cardinality(O)
           clean == Cardinality(Clean(X, n))
           by == Cardinality({f \in Solved(O) : FirstCorrect(f) <= n})
           cut == {b \in Blocks(X) : b.above < n /\ n < b.above + b.size}
           certain == \E b \in Blocks(X) : b.above + b.size <= n /\ b.correct > 0
<1>1. all \in Nat /\ clean \in Nat /\ by = all - clean
  BY OrdersFinite, CleanFinite, FirstCounted
<1>2. CASE certain
  <2>1. top = [num |-> 1, den |-> 1]
    BY <1>2 DEF ExpectedTopNSuccess
  <2>2. Clean(X, n) = {}
    BY <1>2, CleanPast
  <2>3. clean = 0
    BY <2>2, FS_EmptySet
  <2> HIDE DEF all, clean, by
  <2>4. by = all /\ top.num = 1 /\ top.den = 1
    BY <1>1, <2>1, <2>3
  <2> QED
    BY <1>1, <2>4 DEF all, by
<1>3. CASE ~certain /\ cut = {}
  <2>1. top = [num |-> 0, den |-> 1]
    BY <1>3 DEF ExpectedTopNSuccess
  <2>2. ASSUME NEW b \in Blocks(X), b.above < n, b.correct > 0 PROVE FALSE
    <3>1. b.above \in Nat /\ b.size \in Nat
      BY BlockFacts
    <3> QED
      BY <1>3, <2>2, <3>1
  <2>3. Clean(X, n) = O
    BY <2>2, CleanAhead
  <2> HIDE DEF all, clean, by
  <2>4. by = 0 /\ top.num = 0 /\ top.den = 1
    BY <1>1, <2>1, <2>3 DEF all, clean
  <2> QED
    BY <1>1, <2>4 DEF all, by
<1>4. CASE ~certain /\ cut # {}
  <2> DEFINE b == CHOOSE b \in cut : TRUE
             a == b.above
             s == b.size
             w == b.size - b.correct
             j == n - a
             total == Comb(s, j)
             none == Comb(w, j)
  <2>1. b \in Blocks(X) /\ a < n /\ n < a + s
    <3>1. b \in cut
      BY <1>4
    <3> QED
      BY <3>1
  <2>2. top.num = total - none /\ top.den = total
    BY <1>4 DEF ExpectedTopNSuccess
  <2> HIDE DEF b
  <2>3. PICK v \in Int : b = Block(X, v) /\ a \in Nat /\ s \in Nat /\ w \in Nat
    BY <2>1, BlockFacts
  <2>4. j \in 0..s /\ j \in Nat /\ a + j = n
    BY <2>1, <2>3
  <2>5. ASSUME NEW c \in Blocks(X), c.above < a, c.correct > 0 PROVE FALSE
    <3>1. c.above + c.size <= a /\ c.above \in Nat /\ c.size \in Nat
      BY <2>1, <2>5, BlocksApart, BlockFacts
    <3>2. c.above + c.size <= n
      BY <2>1, <2>3, <2>4, <3>1
    <3> QED
      BY <1>4, <2>5, <3>2
  <2>6. Clean(X, a) = O
    BY <2>3, <2>5, CleanAhead
  <2>7. clean * total = all * none
    <3>1. Cardinality(Clean(X, a + j)) * total = Cardinality(Clean(X, a)) * none
      <4>1. a = b.above /\ s = b.size /\ w = b.size - b.correct
        OBVIOUS
      <4> HIDE DEF a, s, w, j
      <4> QED
        BY <2>3, <2>4, <4>1, CleanShare
    <3> QED
      BY <2>4, <2>6, <3>1
  <2>8. total \in Nat /\ none \in Nat /\ total > 0
    <3>1. j <= s
      BY <2>4
    <3> QED
      BY <2>3, <2>4, <3>1, CombType, CombBounds
  <2> HIDE DEF all, clean, by, total, none
  <2>9. (total - none) * all = total * all - all * none /\ total * (all - clean) = total * all - clean * total
    BY <1>1, <2>8
  <2>10. top.num * all = top.den * by
    BY <1>1, <2>2, <2>7, <2>8, <2>9
  <2> QED
    BY <2>2, <2>8, <2>10 DEF all, by
<1> QED
  BY <1>2, <1>3, <1>4

\* The weight of 1/r in the reciprocal rank is the share of the orders with the
\* first correct candidate at rank r.
LEMMA ReciprocalRank ==
  ASSUME NEW X, Rankable(X), NEW r \in 1..Cardinality(X)
  PROVE  TermIsShare(X, r)
<1> SUFFICES ASSUME NEW O, O = Orders(X), NEW rr, rr = ExpectedReciprocalRank(Blocks(X))
             PROVE  /\ rr.den > 0 /\ DOMAIN rr.num \subseteq 1..Cardinality(X)
                    /\ (IF r \in DOMAIN rr.num THEN rr.num[r] ELSE 0) * Cardinality(O)
                         = rr.den * Cardinality({f \in Solved(O) : FirstCorrect(f) = r})
  BY DEF TermIsShare
<1> DEFINE all == Cardinality(O)
           before == Cardinality(Clean(X, r - 1))
           after == Cardinality(Clean(X, r))
           at == Cardinality({f \in Solved(O) : FirstCorrect(f) = r})
           weight == IF r \in DOMAIN rr.num THEN rr.num[r] ELSE 0
           hits == {b \in Blocks(X) : b.correct > 0}
<1>1. r \in Nat /\ r - 1 \in Nat /\ r > 0
  <2>1. Cardinality(X) \in Nat
    BY FS_CardinalityType DEF Rankable
  <2> QED
    BY <2>1
<1>2. all \in Nat /\ before \in Nat /\ after \in Nat /\ at = before - after
  <2>1. all \in Nat /\ before \in Nat /\ after \in Nat
    BY OrdersFinite, CleanFinite
  <2>2. at = before - after
    BY <1>1, FirstCounted
  <2> QED
    BY <2>1, <2>2
<1>3. CASE hits = {}
  <2>1. rr = [num |-> <<>>, den |-> 1]
    BY <1>3 DEF ExpectedReciprocalRank
  <2>2. weight = 0 /\ rr.den = 1
    BY <2>1
  <2>3. Clean(X, r - 1) = O /\ Clean(X, r) = O
    BY <1>1, <1>3, CleanAhead
  <2>4. at = 0
    BY <1>2, <2>3
  <2> HIDE DEF all, at, weight
  <2>5. weight * all = rr.den * at
    BY <1>2, <2>2, <2>4
  <2>6. DOMAIN rr.num = {}
    BY <2>1
  <2> QED
    BY <2>2, <2>5, <2>6 DEF all, at, weight
<1>4. CASE hits # {}
  <2> DEFINE b == CHOOSE b \in hits : \A c \in hits : b.above <= c.above
             a == b.above
             s == b.size
             c == b.correct
             e == Comb(s, c)
             last == s - c + 1
  <2>1. b \in hits /\ \A d \in hits : a <= d.above
    <3> DEFINE starts == {d.above : d \in hits}
    <3>1. starts \in SUBSET Nat /\ starts # {}
      BY <1>4, BlockFacts
    <3>2. PICK m \in starts : \A d \in starts : m <= d
      <4> HIDE DEF starts
      <4> QED
        BY <3>1, LeastNumber
    <3>3. \E d \in hits : \A d2 \in hits : d.above <= d2.above
      BY <3>2
    <3> QED
      BY <3>3
  <2>2. /\ rr.den = e
        /\ rr.num = [q \in (a + 1)..(a + last) |-> Comb(s - (q - a), c - 1)]
    BY <1>4 DEF ExpectedReciprocalRank
  <2> HIDE DEF b
  <2>3. PICK v \in Int : /\ b = Block(X, v) /\ a \in Nat /\ s \in Nat /\ c \in Nat /\ s - c \in Nat
                         /\ a + s <= Cardinality(X)
    BY <2>1, BlockFacts
  <2>4. c > 0 /\ b \in Blocks(X) /\ last \in Nat /\ last <= s /\ c - 1 \in Nat /\ c <= s
    BY <2>1, <2>3
  <2>5. e \in Nat /\ e > 0
    BY <2>3, <2>4, CombType, CombBounds
  <2>6. \A k \in Nat : k <= a => Clean(X, k) = O
    <3> SUFFICES ASSUME NEW k \in Nat, k <= a, NEW d \in Blocks(X), d.above < k, d.correct > 0
                 PROVE  FALSE
      BY CleanAhead
    <3>1. d.above \in Nat /\ a <= d.above
      BY <2>1, BlockFacts
    <3> QED
      BY <2>3, <3>1
  <2>7. \A j \in 0..s : Cardinality(Clean(X, a + j)) * e = all * Comb(s - j, c)
    <3> TAKE j \in 0..s
    <3>1. a = b.above /\ s = b.size /\ c = b.correct
      OBVIOUS
    <3>2. Clean(X, a) = O
      BY <2>3, <2>6
    <3>3. Cardinality(Clean(X, a + j)) * e = Cardinality(Clean(X, a)) * Comb(s - j, c)
      <4> HIDE DEF a, s, c
      <4> QED
        BY <2>3, <3>1, CleanShareOfRight
    <3> QED
      BY <3>2, <3>3
  <2>8. r \in DOMAIN rr.num <=> a < r /\ r <= a + last
    BY <1>1, <2>2, <2>3, <2>4
  <2> DEFINE ranks == DOMAIN rr.num \subseteq 1..Cardinality(X)
  <2>9. ranks
    <3>1. Cardinality(X) \in Nat
      BY FS_CardinalityType DEF Rankable
    <3>2. DOMAIN rr.num = (a + 1)..(a + last)
      BY <2>2
    <3>3. \A q \in (a + 1)..(a + last) : q \in 1..Cardinality(X)
      <4> HIDE DEF a, s, last
      <4>1. a \in Nat /\ last \in Nat /\ s \in Nat /\ last <= s /\ a + s <= Cardinality(X)
        BY <2>3, <2>4
      <4> QED
        BY <3>1, <4>1
    <3> QED
      BY <3>2, <3>3
  <2> HIDE DEF ranks
  <2>10. CASE r <= a
    <3>1. Clean(X, r - 1) = O /\ Clean(X, r) = O
      BY <1>1, <2>3, <2>6, <2>10
    <3>2. at = 0 /\ weight = 0
      BY <1>1, <1>2, <2>3, <2>8, <2>10, <3>1
    <3> HIDE DEF all, at, weight, e
    <3>3. weight * all = e * at
      BY <1>2, <2>5, <3>2
    <3> QED
      BY <2>2, <2>5, <2>9, <3>3 DEF all, at, weight, ranks
  <2>11. CASE a < r /\ r <= a + last
    <3> DEFINE j == r - a
               d0 == Comb(s - (j - 1), c)
               d1 == Comb(s - j, c)
               wt == Comb(s - j, c - 1)
    <3>1. j \in 0..s /\ j - 1 \in 0..s /\ a + j = r /\ a + (j - 1) = r - 1 /\ s - j \in Nat
      BY <1>1, <2>3, <2>4, <2>11
    <3>2. after * e = all * d1 /\ before * e = all * d0
      BY <2>7, <3>1
    <3>3. d0 = d1 + wt
      <4>1. (s - j) + 1 = s - (j - 1) /\ (c - 1) + 1 = c
        BY <2>3, <3>1
      <4> QED
        BY <2>4, <3>1, <4>1, Pascal
    <3>4. weight = wt
      BY <2>2, <2>8, <2>11
    <3>5. d0 \in Nat /\ d1 \in Nat /\ wt \in Nat
      <4>1. s - (j - 1) \in Nat
        BY <2>3, <3>1
      <4> QED
        BY <2>3, <2>4, <3>1, <4>1, CombType
    <3> HIDE DEF all, at, weight, e, d0, d1, wt, before, after
    <3>6. wt * all = all * d0 - all * d1 /\ e * (before - after) = before * e - after * e
      BY <1>2, <2>5, <3>3, <3>5
    <3>7. weight * all = e * at
      BY <1>2, <3>2, <3>4, <3>6
    <3> QED
      BY <2>2, <2>5, <2>9, <3>7 DEF all, at, weight, ranks
  <2>12. CASE a + last < r
    <3>1. Cardinality(Clean(X, a + last)) = 0
      <4> DEFINE n == Cardinality(Clean(X, a + last))
                 z == Comb(s - last, c)
      <4>1. last \in 0..s /\ s - last \in Nat /\ c > s - last
        BY <2>3, <2>4
      <4>2. z = 0
        BY <2>3, <4>1, CombBounds
      <4>3. n * e = all * z
        BY <2>7, <4>1
      <4>4. n \in Nat
        BY CleanFinite
      <4> HIDE DEF n, z, e, all
      <4>5. n * e = 0
        BY <1>2, <4>2, <4>3
      <4>6. n = 0
        BY <2>5, <4>4, <4>5
      <4> QED
        BY <4>6 DEF n
    <3>2. Clean(X, a + last) = {}
      BY <3>1, CleanFinite, FS_EmptySet
    <3>3. ASSUME NEW k \in Nat, a + last <= k PROVE Clean(X, k) = {}
      <4>1. a + last \in Nat
        BY <2>3, <2>4
      <4> SUFFICES ASSUME NEW f \in Clean(X, k) PROVE f \in Clean(X, a + last)
        BY <3>2
      <4>2. f \in Orders(X) /\ DOMAIN f = 1..Cardinality(X) /\ Cardinality(X) \in Nat
        BY OrderFacts DEF Clean
      <4> QED
        BY <3>3, <4>1, <4>2 DEF Clean
    <3>4. Clean(X, r) = {} /\ Clean(X, r - 1) = {}
      BY <1>1, <2>3, <2>4, <2>12, <3>3
    <3>5. at = 0 /\ weight = 0
      BY <1>2, <2>3, <2>4, <2>8, <2>12, <3>4, <1>1
    <3> HIDE DEF all, at, weight, e
    <3>6. weight * all = e * at
      BY <1>2, <2>5, <3>5
    <3> QED
      BY <2>2, <2>5, <2>9, <3>6 DEF all, at, weight, ranks
  <2> QED
    BY <1>1, <2>3, <2>4, <2>10, <2>11, <2>12
<1> QED
  BY <1>3, <1>4

-----------------------------------------------------------------------------
\* The candidates of a bug can be ranked: the archive is finite, and a PVS* that
\* is there is a number.
LEMMA CandidatesRankable ==
  ASSUME IInv, NEW b
  PROVE  Rankable(Candidates(b))
<1>1. Candidates(b) \in SUBSET Patch
  BY FrameFacts DEF Candidates, Ranked
<1>2. \A p \in Candidates(b) : PvsOf(p) \in Int
  <2> SUFFICES ASSUME NEW p \in Candidates(b) PROVE PvsOf(p) \in Int
    OBVIOUS
  <2>1. PvsOf(p) # Missing
    BY DEF Candidates, Ranked
  <2>2. p \in DOMAIN scores /\ PvsOf(p) = scores[p].PVS
    BY <2>1 DEF PvsOf
  <2> QED
    BY <2>1, <2>2 DEF IInv, ScoresTyped
<1> QED
  BY <1>1, <1>2, DatasetAssumption, FS_Subset DEF Rankable

\* Whatever the scores and the ties, the closed forms are the expectations over
\* the orders of the tied candidates (metrics.py:152, 167).
THEOREM RankingIsExpected == Spec => []RankIsExpectation
<1>1. ASSUME IInv PROVE RankIsExpectation
  <2> SUFFICES ASSUME NEW b \in RankedBugs
               PROVE  /\ Orders(Candidates(b)) # {}
                      /\ \A n \in 1..3 : TopNIsShare(Candidates(b), n)
                      /\ \A r \in 1..Cardinality(Candidates(b)) : TermIsShare(Candidates(b), r)
    BY DEF RankIsExpectation
  <2>1. Rankable(Candidates(b))
    BY <1>1, CandidatesRankable
  <2> QED
    BY <2>1, OrdersExist, TopNSuccess, ReciprocalRank
<1> QED
  BY <1>1, Invariance, PTL
=============================================================================
