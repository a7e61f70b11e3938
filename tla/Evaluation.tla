----------------------------- MODULE Evaluation -----------------------------
(***************************************************************************)
(* From the checkpoints of the full run to the frame that is evaluated:    *)
(* consolidate_full.py joins checkpoints and manifest and writes its       *)
(* tables one after the other, evaluate_full.py joins the tables with the  *)
(* manifest of that day and splits the patches into folds.  Builds,        *)
(* consolidations and evaluations are commands given in any order; an      *)
(* evaluation only reads, so what it computes is given by operators.       *)
(***************************************************************************)
EXTENDS Dataset, Functions

CONSTANTS
  Unreadable,   \* a checkpoint that does not parse
  Missing,      \* a component without a value
  Checkpoints,  \* bound: what the run may leave, a function on some patches
  NSplits,      \* n_splits, 5 in the code
  Unit          \* bound: a component's value is a number of 1/Unit

Component == {"S_sem", "S_cex", "S_edit", "S_vuln"}
Scores    == [Component -> 0..Unit \cup {Missing}]

ASSUME EvaluationAssumption ==
  /\ Missing \notin Nat /\ Unreadable \notin Scores
  /\ \A ck \in Checkpoints :
       DOMAIN ck \subseteq Patch /\ Range(ck) \subseteq Scores \cup {Unreadable}
  /\ NSplits \in Nat \ {0, 1} /\ Unit \in Nat

VARIABLES
  read,    \* the checkpoints the last consolidation read
  full,    \* full_scores.csv: label and components of a patch
  scores,  \* patch_scores.csv: its components and its PVS*
  runs,    \* run_manifest.csv: was the checkpoint readable
  pc,      \* how far the last consolidation has got
  basis    \* the manifest is the one it read

tables == <<full, scores, runs>>
vars   == <<datasetVars, read, tables, pc, basis>>

Init ==
  /\ DatasetInit /\ read = <<>> /\ full = <<>> /\ scores = <<>> /\ runs = <<>>
  /\ pc = "idle" /\ basis = FALSE

Readable(ck) == {p \in DOMAIN ck : ck[p] # Unreadable}

-----------------------------------------------------------------------------
\* Consolidate: reads all there is and writes full_scores.csv.
Consolidate ==
  /\ manifest # <<>> /\ basis' = TRUE /\ pc' = "scores"
  /\ \E ck \in Checkpoints :
       /\ DOMAIN read \subseteq DOMAIN ck  \* a checkpoint is never deleted
       /\ read' = ck
       /\ full' = [p \in Readable(ck) |-> [label |-> manifest[p].label, value |-> ck[p]]]
  /\ UNCHANGED <<datasetVars, scores, runs>>

\* The share of the greatest value, in twelfths: the mean of the components
\* there are, a cost counted from above; missing when S_sem is.
Term(k, v) ==
  CASE v = Missing -> 0
    [] v # Missing /\ k \in {"S_edit", "S_vuln"} -> Unit - v
    [] OTHER -> v
Pvs(c) ==
  LET avail == {k \in Component : c[k] # Missing}
      term(k) == Term(k, c[k])
  IN  IF c["S_sem"] = Missing THEN Missing
      ELSE (term("S_sem") + term("S_cex") + term("S_edit") + term("S_vuln"))
             * (12 \div Cardinality(avail))

\* Mutant of ScoreRows: a row that is there is kept.
ScoreRowsKept ==
  [p \in DOMAIN full \cup DOMAIN scores |->
     IF p \in DOMAIN scores THEN scores[p]
     ELSE [value |-> full[p].value, PVS |-> Pvs(full[p].value)]]

ScoreRows == [p \in DOMAIN full |-> [value |-> full[p].value, PVS |-> Pvs(full[p].value)]]

\* patch_scores.csv stays as it was when there is no row to write.
WriteScores ==
  /\ pc = "scores" /\ pc' = "runs"
  /\ scores' = IF full = <<>> THEN scores ELSE ScoreRows
  /\ UNCHANGED <<datasetVars, read, full, runs, basis>>

\* Mutant of RunRows: a checkpoint that does not parse has no row.
RunRowsRead == [p \in Readable(read) |-> TRUE]

RunRows == [p \in DOMAIN read |-> read[p] # Unreadable]

WriteRuns ==
  /\ pc = "runs" /\ pc' = "done" /\ runs' = RunRows
  /\ UNCHANGED <<datasetVars, read, full, scores, basis>>

Kill ==
  /\ pc \in {"scores", "runs"} /\ pc' = "killed"
  /\ UNCHANGED <<datasetVars, read, tables, basis>>

Rebuild ==
  /\ Build /\ basis' = (basis /\ manifest' = manifest)
  /\ UNCHANGED <<read, tables, pc>>

Next == Consolidate \/ WriteScores \/ WriteRuns \/ Kill \/ Rebuild
Spec == Init /\ [][Next]_vars

-----------------------------------------------------------------------------
\* build_full_frame, of each row of full_scores.csv: the label is the table's,
\* or else the manifest's.
LabelOf(p)    == IF full[p].label # NoLabel THEN full[p].label ELSE manifest[p].label
NotInManifest == DOMAIN full \ DOMAIN manifest
Unlabelled    == {p \in DOMAIN full \ NotInManifest : LabelOf(p) \notin Label}
NoSemantic    == {p \in DOMAIN full \ (NotInManifest \cup Unlabelled) :
                    full[p].value["S_sem"] = Missing}
ExcludedRows  == NotInManifest \cup Unlabelled \cup NoSemantic
Frame         == DOMAIN full \ ExcludedRows
\* A patch without a row has no PVS*.
PvsOf(p) == IF p \in DOMAIN scores THEN scores[p].PVS ELSE Missing

\* lopo_splits and groupkfold_splits: a split is tested on, and fitted on the
\* rest; the folds are made by bug, in a way drawn at random.
ProjectOfPatch(p) == ProjectOf[BugOf[p]]
Split(df, test) == [train |-> df \ test, test |-> test]
LopoSplits(df) ==
  {Split(df, {p \in df : ProjectOfPatch(p) = q}) : q \in {ProjectOfPatch(p) : p \in df}}

FoldsOf(df) == LET bugs == {BugOf[p] : p \in df} IN
  Surjection(bugs, 1..NSplits)
GroupKFold(df, f) == {Split(df, {p \in df : f[BugOf[p]] = k}) : k \in 1..NSplits}

\* sensitivity_section collapses these to one.
Group(p) == IF manifest[p].group = {} THEN {p} ELSE manifest[p].group

-----------------------------------------------------------------------------
TypeOK ==
  /\ original \in [Patch -> Label \cup {NoLabel}]
  /\ \/ manifest = <<>>
     \/ manifest \in [Patch -> [label : Label \cup {NoLabel},
                                labelSensitivity : Label \cup {NoLabel}, group : SUBSET Patch]]
  /\ Range(read) \subseteq Scores \cup {Unreadable} /\ DOMAIN read \subseteq Patch
  /\ basis \in BOOLEAN /\ pc \in {"idle", "scores", "runs", "done", "killed"}
  /\ DOMAIN full = Readable(read) /\ \A p \in DOMAIN full : full[p].value = read[p]

\* Of a consolidation of today's manifest: patches of one duplicate group that
\* are both evaluated have one label, so that collapsing the groups changes no
\* label whichever patch is kept (dataset.py:270, evaluate_pilot.py:567).
DuplicatesShareLabel ==
  basis => \A p, q \in Frame : q \in Group(p) => LabelOf(q) = LabelOf(p)

\* After a whole consolidation every checkpoint is a row of the frame or is
\* counted under a reason, or else it is in run_manifest.csv as unreadable.
EveryCheckpointAccounted ==
  pc = "done" =>
    LET bad == {p \in DOMAIN runs : ~runs[p]} IN
    DOMAIN read = Frame \cup ExcludedRows \cup bad /\ bad \cap DOMAIN full = {}

\* After a whole consolidation a row of the frame has the PVS* of the very
\* judgement its S_sem is of, and a patch whose S_sem is missing has none.
PvsOfItsJudgement ==
  pc = "done" =>
    /\ \A p \in Frame : PvsOf(p) = Pvs(read[p]) /\ full[p].value = read[p]
    /\ \A p \in NoSemantic : PvsOf(p) = Missing

\* Neither scheme fits on a patch of the bug, or on a duplicate, of a patch it
\* predicts, and each predicts every patch once (metrics.py:57, 65).
OutOfFold(df, splits) ==
  /\ \A s \in splits, p, q \in df :
       p \in s.test /\ (BugOf[q] = BugOf[p] \/ q \in Group(p)) => q \notin s.train
  /\ \A p \in df : \E s \in splits : p \in s.test /\ \A t \in splits : p \in t.test => t = s
NoTwinAcrossFolds ==
  /\ OutOfFold(Frame, LopoSplits(Frame))
  /\ \A f \in FoldsOf(Frame) : OutOfFold(Frame, GroupKFold(Frame, f))
=============================================================================
