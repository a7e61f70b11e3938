--------------------------- MODULE StaticAnalysis ---------------------------
(***************************************************************************)
(* Stage 2B of one patch (stage2b.py run_one): GumTree on every file the   *)
(* diff changes, SpotBugs on the changed classes of the buggy and of the   *)
(* candidate tree, the control flow of every changed method in both, and   *)
(* the row of features they give.  The analyzers are other programs: each  *)
(* may answer, fail, time out or crash.                                    *)
(***************************************************************************)
EXTENDS Integers, FiniteSets, Functions

CONSTANTS
  File,      \* source files
  Key,       \* warning_key: bug type, class and method
  FileOf,    \* the file of a key's class
  Severity,  \* bound: SEVERITY_WEIGHTS in quarters, of 1, 2 and 4
  Measure    \* bound: what GumTree counts in a file, [actions, nodes]

ASSUME StaticAssumption ==
  /\ IsFiniteSet(Key) /\ FileOf \in [Key -> File] /\ Severity \subseteq {1, 2, 4}
  /\ Measure \subseteq [actions : Nat, nodes : Nat]

Side     == {"buggy", "candidate"}
CfgOf    == [buggy |-> "cfg-buggy", candidate |-> "cfg-candidate"]
Missing  == -1
Warnings == [Key -> SUBSET Severity]
NoWarning == [k \in Key |-> {}]

LevelOrder == [FAILED |-> 0, CFG_AST |-> 1, DATAFLOW |-> 2]
Level == DOMAIN LevelOrder

VARIABLES
  changed,   \* changed_buggy_lines_by_file
  compiled,  \* the files with classes in each tree
  real,      \* the warnings a run that works gives, over all files
  pc,
  todo,      \* files GumTree has not seen yet
  files,     \* what it said of those it could compare
  errors,    \* those it could not
  scope,     \* changed_rel_classes
  found,     \* the warnings of each side
  answered,  \* the sides without an analyzer error
  ran,       \* the sides SpotBugs has really analyzed
  level, summed,  \* of each side: analysis_level, and the methods it adds up
  row        \* the row of stage2b_features.csv

input == <<changed, compiled, real>>
vars  == <<input, pc, todo, files, errors, scope, found, answered, ran, level, summed, row>>

\* An S_edit of actions over nodes; it is missing when nodes is 0.
NoRow == [edit |-> [num |-> 0, den |-> 0], editError |-> FALSE, vuln |-> Missing, delta |-> FALSE]

Init ==
  /\ changed \in SUBSET File /\ compiled \in [Side -> SUBSET File]
  /\ real \in [Side -> Warnings]
  /\ pc = "gumtree" /\ todo = changed /\ files = <<>> /\ errors = {} /\ scope = {}
  /\ found = [s \in Side |-> NoWarning] /\ answered = {} /\ ran = {}
  /\ level = [s \in Side |-> "FAILED"] /\ summed = [s \in Side |-> {}]
  /\ row = NoRow

-----------------------------------------------------------------------------
\* One file of s_edit_gumtree: compared, or missing in a tree, timed out,
\* without output, unparseable or refused by the tool.
GumTree(f) ==
  /\ pc = "gumtree" /\ f \in todo /\ todo' = todo \ {f}
  /\ \/ \E m \in Measure :
          files' = [g \in DOMAIN files \cup {f} |-> IF g = f THEN m ELSE files[g]]
        /\ UNCHANGED errors
     \/ errors' = errors \cup {f} /\ UNCHANGED files
  /\ UNCHANGED <<input, pc, scope, found, answered, ran, level, summed, row>>

\* The files whose comparison covered a method; they have the changed methods.
Measured == {f \in DOMAIN files : files[f].nodes > 0}
Actions == SumFunctionOnSet([f \in DOMAIN files |-> files[f].actions], DOMAIN files)
Nodes   == SumFunctionOnSet([f \in DOMAIN files |-> files[f].nodes], DOMAIN files)

\* Mutant of Edited: an error is told only when there is no value.
EditedQuietly ==
  [row EXCEPT !.edit = [num |-> IF Actions < Nodes THEN Actions ELSE Nodes, den |-> Nodes],
              !.editError = (Nodes = 0)]

\* S_edit is min(1, actions / nodes), missing when there is no node.
Edited ==
  [row EXCEPT !.edit = [num |-> IF Actions < Nodes THEN Actions ELSE Nodes, den |-> Nodes],
              !.editError = (errors # {} \/ Nodes = 0)]

\* Mutant of ScopeOf: the files GumTree could not compare are forgotten.
ScopeCompared == DOMAIN files

\* Files GumTree could not process still count as changed classes.
ScopeOf == DOMAIN files \cup changed

EndGumTree ==
  /\ pc = "gumtree" /\ todo = {} /\ pc' = "buggy"
  /\ row' = Edited /\ scope' = ScopeOf
  /\ UNCHANGED <<input, todo, files, errors, found, answered, ran, level, summed>>

-----------------------------------------------------------------------------
Targets(s) == scope \cap compiled[s]

\* run_spotbugs_targets: an export that fails, no class file or a timeout is an
\* error; the exit code is not looked at, so a crash is an empty answer.
SpotBugs(s) ==
  /\ pc = s /\ pc' = IF s = "buggy" THEN "candidate" ELSE "vuln"
  /\ \/ UNCHANGED <<found, answered, ran>>
     \/ /\ Targets(s) # {} /\ answered' = answered \cup {s} /\ ran' = ran \cup {s}
        /\ found' = [found EXCEPT ![s] =
                       [k \in Key |-> IF FileOf[k] \in Targets(s) THEN real[s][k] ELSE {}]]
     \/ /\ Targets(s) # {} /\ answered' = answered \cup {s}
        /\ UNCHANGED <<found, ran>>
  /\ UNCHANGED <<input, todo, files, errors, scope, level, summed, row>>

\* Counter(candidate) - Counter(buggy), the candidate's keys taken once each.
NewKeys == {k \in Key : found["candidate"][k] # {} /\ found["buggy"][k] = {}}

\* The weights of the new warnings, by severity, in quarters.
Weight(sev) ==
  LET Of(w) == Cardinality({k \in NewKeys : sev[k] = w}) IN Of(1) + 2 * Of(2) + 4 * Of(4)

\* compute_s_vuln_changed_classes: of several warnings with one key one counts,
\* the last in the output; a side without an answer makes the score missing.
Vuln ==
  /\ pc = "vuln" /\ pc' = "cfg-buggy"
  /\ IF answered # Side THEN UNCHANGED row
     ELSE \E sev \in [NewKeys -> Severity] :
            /\ \A k \in NewKeys : sev[k] \in found["candidate"][k]
            /\ row' = [row EXCEPT !.vuln = IF Weight(sev) < 4 THEN Weight(sev) ELSE 4]
  /\ UNCHANGED <<input, todo, files, errors, scope, found, answered, ran, level, summed>>

-----------------------------------------------------------------------------
\* Mutant of Lowest: the level of the method that got furthest.
Highest(levels) ==
  CHOOSE l \in levels : \A k \in levels : LevelOrder[l] >= LevelOrder[k]

\* The worst of the levels.
Lowest(levels) ==
  CHOOSE l \in levels : \A k \in levels : LevelOrder[l] <= LevelOrder[k]

\* _agg_cfg over the changed methods, one for each measured file here; no bin
\* directory or no method is a failure, and a method that fails adds nothing.
Cfg(s) ==
  /\ pc = CfgOf[s] /\ pc' = IF s = "buggy" THEN "cfg-candidate" ELSE "assemble"
  /\ \/ UNCHANGED <<level, summed>>
     \/ /\ Measured # {}
        /\ \E l \in [Measured -> Level] :
             /\ level'  = [level EXCEPT ![s] = Lowest({l[f] : f \in Measured})]
             /\ summed' = [summed EXCEPT ![s] = {f \in Measured : l[f] # "FAILED"}]
  /\ UNCHANGED <<input, todo, files, errors, scope, found, answered, ran, row>>

\* The deltas d_*: missing when either side failed.
Assemble ==
  /\ pc = "assemble" /\ pc' = "done"
  /\ row' = [row EXCEPT !.delta = \A s \in Side : level[s] # "FAILED"]
  /\ UNCHANGED <<input, todo, files, errors, scope, found, answered, ran, level, summed>>

Next ==
  \/ \E f \in File : GumTree(f)
  \/ EndGumTree
  \/ \E s \in Side : SpotBugs(s) \/ Cfg(s)
  \/ Vuln \/ Assemble

Spec == Init /\ [][Next]_vars

-----------------------------------------------------------------------------
NewIn(k) == real["candidate"][k] # {} /\ real["buggy"][k] = {}

\* When both analyses took place over classes that are all there, S_vuln is
\* zero exactly if the candidate has no new kind of warning in any file the
\* diff changes, those GumTree could not process included (stage2b.py:99).
VulnSeesEveryFile ==
  pc = "done" /\ ran = Side /\ (\A s \in Side : changed \subseteq compiled[s]) =>
    (row.vuln = 0 <=> ~\E k \in Key : FileOf[k] \in changed /\ NewIn(k))

\* A delta is the difference of sums over the same methods, all that GumTree
\* named and at least one: no method is measured on one side only.
DeltasComparable ==
  row.delta => Measured # {} /\ \A s \in Side : summed[s] = Measured

\* An S_edit without an error is that of all changed files, and a missing one
\* is never without an error: a value from some of the files can be told.
EditErrorTold ==
  pc # "gumtree" =>
    /\ ~row.editError => DOMAIN files = changed
    /\ row.edit.den = 0 => row.editError

\* stage2b.py: analyzer failures are recorded as MISSING, never 0.
MissingNeverZero ==
  pc = "done" /\ row.vuln = 0 => ran = Side
=============================================================================
