------------------------------- MODULE Dataset -------------------------------
(***************************************************************************)
(* The dataset (dataset.py): every patch of the archive is normalized,     *)
(* labelled under the two label policies and put into a group of           *)
(* duplicates; the manifest says so of all of them, or is left as it was.  *)
(***************************************************************************)
EXTENDS Integers, Sequences, FiniteSets

CONSTANTS
  Patch,
  BugOf, ToolOf, IndexOf,  \* what the file's name says
  ProjectOf,               \* of a bug
  Raw,        \* the diff: one hunk, its first line and its rows
  Context,    \* bound: lines of context around a change, 3 in the code
  Originals,  \* bound: the labels the archive's folders may give
  Policies,   \* bound: what the two policies may be at a build
  MaxBuilds   \* bound: builds

NoLabel  == ""
AnyIndex == 0
Label    == {"correct", "overfitting"}
Named    == {"primary", "sensitivity"}
\* "patchN-Project-Bug-Tool" names one patch, "Tool-Project-Bug" all of its kind.
Ident  == [bug : {BugOf[p] : p \in Patch}, tool : {ToolOf[p] : p \in Patch}, index : Nat]
Policy == [exclude : SUBSET Ident, correct : SUBSET Ident]
Row    == [kind : {" ", "-", "+"}, text : STRING, trailing : BOOLEAN]

ASSUME DatasetAssumption ==
  /\ IsFiniteSet(Patch)
  /\ \A p \in Patch : Raw[p].start \in Nat /\ Raw[p].rows \in Seq(Row)
  /\ Originals \subseteq [Patch -> Label \cup {NoLabel}]
  /\ Policies \subseteq [Named -> Policy]

VARIABLES
  original,  \* original_label
  manifest,  \* dataset_manifest.csv: the labels and the duplicate group of a patch
  builds
datasetVars == <<original, manifest, builds>>

-----------------------------------------------------------------------------
\* A side of a hunk, its lines without trailing whitespace.
Texts(rows, kinds) ==
  LET side == SelectSeq(rows, LAMBDA r : r.kind \in kinds)
  IN  [i \in DOMAIN side |-> side[i].text]
OldSide(rows) == Texts(rows, {" ", "-"})
NewSide(rows) == Texts(rows, {" ", "+"})
Rows(kind, texts) == [i \in DOMAIN texts |-> [kind |-> kind, text |-> texts[i], trailing |-> FALSE]]

Least(a, b) == IF a < b THEN a ELSE b
Common(n, Same(_)) == CHOOSE i \in 0..n : Same(i) /\ (i = n \/ ~Same(i + 1))

\* difflib.unified_diff of two texts that differ in one place.
Unified(start, old, new) ==
  LET lim == Least(Len(old), Len(new))
      pre == Common(lim, LAMBDA i : SubSeq(old, 1, i) = SubSeq(new, 1, i))
      suf == Common(lim - pre, LAMBDA i :
               SubSeq(old, Len(old) - i + 1, Len(old)) = SubSeq(new, Len(new) - i + 1, Len(new)))
      first == pre - Least(pre, Context)  \* the lines before the hunk
      last  == Len(old) - suf + Least(suf, Context)
  IN  IF old = new THEN [start |-> start, rows |-> <<>>]
      ELSE [start |-> start + first,
            rows  |-> Rows(" ", SubSeq(old, first + 1, pre))
                      \o Rows("-", SubSeq(old, pre + 1, Len(old) - suf))
                      \o Rows("+", SubSeq(new, pre + 1, Len(new) - suf))
                      \o Rows(" ", SubSeq(old, Len(old) - suf + 1, last))]

ChangedLines(rows) == Cardinality({i \in DOMAIN rows : rows[i].kind # " "})

Rebuilt(d) == Unified(d.start, OldSide(d.rows), NewSide(d.rows))

\* Normalized is the rebuilt diff when that has fewer changed lines.
Applies(d)    == ChangedLines(Rebuilt(d).rows) < ChangedLines(d.rows)
Normalized(d) == IF Applies(d) THEN Rebuilt(d) ELSE d

\* Verified: the rebuilt hunk, applied where it says, turns old into new.
Verified(d) ==
  LET r   == Normalized(d)
      old == OldSide(d.rows)
      at  == r.start - d.start
      to  == at + Len(OldSide(r.rows))
  IN  /\ SubSeq(old, at + 1, to) = OldSide(r.rows)
      /\ SubSeq(old, 1, at) \o NewSide(r.rows) \o SubSeq(old, to + 1, Len(old)) = NewSide(d.rows)

-----------------------------------------------------------------------------
IdentMatches(i, p) ==
  i.bug = BugOf[p] /\ i.tool = ToolOf[p] /\ i.index \in {AnyIndex, IndexOf[p]}
MatchedBy(ids, p) == \E i \in ids : IdentMatches(i, p)

\* ApplyPolicy: exclusions, the folder without labels among them, come first.
Excluded(pol, p)  == original[p] = NoLabel \/ MatchedBy(pol.exclude, p)
Corrected(pol, p) == ~Excluded(pol, p) /\ MatchedBy(pol.correct, p)
LabelUnder(pol, p) ==
  IF Excluded(pol, p) THEN NoLabel
  ELSE IF Corrected(pol, p) THEN "overfitting" ELSE original[p]

\* Mutant of GroupOf: the same text in another bug is a duplicate too.
GroupByText(p) == {q \in Patch : Normalized(Raw[q]) = Normalized(Raw[p])}

\* The patches of the same bug with the same normalized diff.
GroupOf(p) == {q \in Patch : BugOf[q] = BugOf[p] /\ Normalized(Raw[q]) = Normalized(Raw[p])}

\* Mutant of Conflict: only the last policy's labels are looked at.
ConflictOfLast(label) ==
  \E p \in Patch : \E q \in GroupOf(p) :
     label["sensitivity"][p] # label["sensitivity"][q]
     /\ NoLabel \notin {label["sensitivity"][p], label["sensitivity"][q]}

\* Members of a group that a policy includes have different labels.
Conflict(label) ==
  \E n \in Named, p \in Patch : \E q \in GroupOf(p) :
     label[n][p] # label[n][q] /\ NoLabel \notin {label[n][p], label[n][q]}

\* build: what stops it stops it before the manifest is written.
Build ==
  /\ builds < MaxBuilds /\ builds' = builds + 1 /\ UNCHANGED original
  /\ \E pol \in Policies :
       LET label == [n \in Named |-> [p \in Patch |-> LabelUnder(pol[n], p)]]
           stops == \/ \E p \in Patch : ~Verified(Raw[p])
                    \/ \E n \in Named, p \in Patch :
                         Corrected(pol[n], p) /\ original[p] = "overfitting"
                    \/ Conflict(label)
       IN  manifest' = IF stops THEN manifest
                       ELSE [p \in Patch |-> [label |-> label["primary"][p],
                                              labelSensitivity |-> label["sensitivity"][p],
                                              group |-> IF GroupOf(p) = {p} THEN {} ELSE GroupOf(p)]]

DatasetInit == original \in Originals /\ manifest = <<>> /\ builds = 0
=============================================================================
