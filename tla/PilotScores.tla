----------------------------- MODULE PilotScores -----------------------------
(***************************************************************************)
(* patch_scores.csv of the pilot and the programs that rewrite it in       *)
(* place: run_pilot.py (which also keeps pilot_log.json and skips the      *)
(* patches it lists as done), assemble_pvs.py for one patch,               *)
(* update_scores_from_stage2b.py and rescore_pvs_from_semantic.py.  They   *)
(* are started by hand, one at a time, in any order, and may be killed.    *)
(* Scores are abstracted to where they come from; S_cex, which every       *)
(* program carries as it is, and S_vuln are left out.                      *)
(***************************************************************************)
EXTENDS Integers, FiniteSets

CONSTANTS
  Patch,       \* pilot_sample.csv
  Judged,      \* values of S_sem
  MaxSessions, \* bound: programs started
  Killable     \* may programs be killed?

Missing == "missing"
NoRow   == "no row"

ASSUME PilotAssumption ==
  /\ MaxSessions \in Nat /\ Killable \in BOOLEAN
  /\ Missing \notin Judged /\ NoRow \notin Judged
  /\ Judged \cap {"loc", "ast"} = {}

\* The rows of a CSV file: a function on some of the patches.
IsFile(f, S) == DOMAIN f \subseteq Patch /\ f \in [DOMAIN f -> S]

\* A row of the table: S_sem, S_edit with its method and, once folded,
\* S_edit_loc; the values PVS was computed from, none if PVS is missing; and,
\* for the properties alone, how often the row was folded since it was
\* assembled.
Sem    == Judged \cup {Missing}
Edit   == {"loc", "ast", Missing}
Row    == [sem : Sem, edit : Edit, method : {"loc", "ast", "unavailable"},
           editLoc : Edit \cup {NoRow}, pvs : SUBSET (Sem \cup Edit),
           folds : 0..2]
Feature == {"ast", Missing}
IsTable(t) == t = [locColumn |-> t.locColumn, rows |-> t.rows] /\ t.locColumn \in BOOLEAN /\ IsFile(t.rows, Row)

Done   == {"scored", "unscored"}  \* stopped_after is None; did write_pvs succeed?
Entry  == {"none", "stopped"} \cup Done

\* score_row with the shifted_renormalized strategy: the mean of what is there,
\* and no PVS without S_sem.
Score(sem, edit) ==
  IF sem = Missing THEN {} ELSE {sem, edit} \ {Missing}

\* Mutant of Score: without the guard on S_sem.
ScoreUnguarded(sem, edit) == {sem, edit} \ {Missing}

\* The label of an S_edit: "ast", "loc" or "unavailable".
Method(edit) == IF edit = Missing THEN "unavailable" ELSE edit

VARIABLES
  pc, prog, sessions,
  todo, tried,  \* run_pilot: the patches still to run; those it ran
  patch, new,   \* the patch, and its row as assembled
  copy,         \* the table as it is being written
  results,      \* run_pilot's list, as it will be written
  log,          \* pilot_log.json: cut short, or what became of each patch
  semantic,     \* semantic_results.csv: S_sem of each patch, or NoRow
  features,     \* stage2b_features.csv
  scores,       \* patch_scores.csv
  settled       \* has no judgement changed since the last rescore?

disk == <<log, semantic, features, scores>>
mem  == <<todo, tried, patch, new, copy, results>>
vars == <<pc, prog, sessions, mem, disk, settled>>

Empty == [p \in {} |-> NoRow]
Blank == [sem |-> Missing, edit |-> Missing, method |-> "unavailable", editLoc |-> NoRow,
          pvs |-> {}, folds |-> 0]

Init ==
  /\ pc = "idle" /\ prog = "none" /\ sessions = 0
  /\ todo = {} /\ tried = {} /\ patch \in Patch /\ new = Blank
  /\ scores = [locColumn |-> FALSE, rows |-> Empty] /\ copy = scores
  /\ results = [p \in Patch |-> "none"] /\ log = [cut |-> FALSE, entry |-> results]
  /\ semantic = [p \in Patch |-> NoRow] /\ features = Empty /\ settled = FALSE

Resting == pc \in {"idle", "ended", "raised"}
Begin(name) ==
  /\ Resting /\ sessions < MaxSessions /\ sessions' = sessions + 1 /\ prog' = name

\* A judgement on disk is replaced.
Judge(p, v) ==
  semantic' = [semantic EXCEPT ![p] = v] /\ settled' = (settled /\ v = semantic[p])

-----------------------------------------------------------------------------
\* Mutants of StartPilot: what stopped is done as well; the list starts afresh.
StartPilotSkippingStopped ==
  /\ Begin("pilot") /\ ~log.cut /\ pc' = "patch" /\ results' = log.entry /\ tried' = {}
  /\ todo' = {p \in Patch : log.entry[p] = "none"}
  /\ UNCHANGED <<patch, new, copy, disk, settled>>

StartPilotAfresh ==
  /\ Begin("pilot") /\ ~log.cut /\ pc' = "patch" /\ tried' = {}
  /\ results' = [p \in Patch |-> "none"] /\ todo' = {p \in Patch : log.entry[p] \notin Done}
  /\ UNCHANGED <<patch, new, copy, disk, settled>>

\* main of run_pilot: a log that was cut short is not JSON.
StartPilot ==
  /\ Begin("pilot") /\ tried' = {}
  /\ IF log.cut THEN pc' = "raised" /\ UNCHANGED <<todo, results>>
     ELSE /\ pc' = "patch" /\ results' = log.entry
          /\ todo' = {p \in Patch : log.entry[p] \notin Done}
  /\ UNCHANGED <<patch, new, copy, disk, settled>>

\* run_one: checkout or apply may stop the patch; a write outside _stage may
\* raise.
RunPatch(p) ==
  /\ pc = "patch" /\ p \in todo /\ todo' = todo \ {p} /\ tried' = tried \cup {p}
  /\ patch' = p
  /\ \/ pc' = "semantic" /\ results' = [results EXCEPT ![p] = "none"]
     \/ pc' = "log" /\ results' = [results EXCEPT ![p] = "stopped"]
     \/ pc' = "raised" /\ results' = [results EXCEPT ![p] = "none"]
  /\ UNCHANGED <<prog, sessions, new, copy, disk, settled>>

\* The primary model's judgement is written; a stage that raises leaves the old.
Semantic ==
  /\ pc = "semantic" /\ pc' = "assemble"
  /\ \/ \E v \in Sem : Judge(patch, v)
     \/ UNCHANGED <<semantic, settled>>
  /\ UNCHANGED <<prog, sessions, mem, log, features, scores>>

\* assemble_pvs.py --patch.
StartAssemble(p) ==
  /\ Begin("assemble") /\ pc' = "assemble" /\ patch' = p
  /\ UNCHANGED <<todo, tried, new, copy, results, disk, settled>>

\* A failure of the row's assembly or of its write: recorded by run_pilot's
\* _stage, the end of assemble_pvs.
FailRow ==
  IF prog = "pilot" THEN pc' = "log" /\ results' = [results EXCEPT ![patch] = "unscored"]
  ELSE pc' = "raised" /\ UNCHANGED results

\* assemble: S_sem from its CSV, the LOC S_edit computed now.
Assemble ==
  /\ pc = "assemble"
  /\ \/ /\ \E edit \in {"loc", Missing} :
             LET sem == IF semantic[patch] = NoRow THEN Missing ELSE semantic[patch]
             IN  new' = [sem |-> sem, edit |-> edit, method |-> Method(edit), editLoc |-> NoRow,
                         pvs |-> Score(sem, edit), folds |-> 0]
        /\ pc' = "row" /\ UNCHANGED results
     \/ FailRow /\ UNCHANGED new
  /\ UNCHANGED <<prog, sessions, todo, tried, patch, copy, disk, settled>>

\* _write_row: the header is the new row's; the old rows raise if they have the
\* column S_edit_loc, after the file was emptied.
WriteRow ==
  LET others == DOMAIN scores.rows \ {patch} IN
  /\ pc = "row"
  /\ IF scores.locColumn /\ others # {}
     THEN /\ scores' = [locColumn |-> FALSE, rows |-> Empty] /\ FailRow /\ UNCHANGED copy
     ELSE /\ copy' = [locColumn |-> FALSE,
                      rows |-> [p \in others \cup {patch} |-> IF p = patch THEN new ELSE scores.rows[p]]]
          /\ pc' = "writing" /\ UNCHANGED <<scores, results>>
  /\ new' = Blank
  /\ UNCHANGED <<prog, sessions, todo, tried, patch, log, semantic, features, settled>>

\* stage2b.py for one patch.
Stage2b(p) ==
  /\ Begin("stage2b") /\ pc' = "ended"
  /\ \E f \in Feature :
       features' = [q \in DOMAIN features \cup {p} |-> IF q = p THEN f ELSE features[q]]
  /\ UNCHANGED <<mem, log, semantic, scores, settled>>

\* rerun_failed_semantic.py, as far as the table of judgements goes.
Rejudge(p) ==
  /\ Begin("rerun") /\ semantic[p] # NoRow /\ pc' = "ended"
  /\ \E v \in Judged : Judge(p, v)
  /\ UNCHANGED <<mem, log, features, scores>>

\* Mutants of Folded: S_edit_loc of the new value; PVS of the old ones.
FoldedLate(row, f) ==
  LET edit == IF f = Missing THEN row.edit ELSE f IN
  [row EXCEPT !.edit = edit, !.method = Method(edit), !.editLoc = edit,
              !.pvs = Score(row.sem, edit), !.folds = IF @ = 2 THEN 2 ELSE @ + 1]

FoldedUnscored(row, f) ==
  LET edit == IF f = Missing THEN row.edit ELSE f IN
  [row EXCEPT !.edit = edit, !.method = Method(edit), !.editLoc = row.edit,
              !.folds = IF @ = 2 THEN 2 ELSE @ + 1]

\* update_scores_from_stage2b: what is in the column S_edit is taken for LOC,
\* and its label with it.
Folded(row, f) ==
  LET edit == IF f = Missing THEN row.edit ELSE f
      method == IF f # Missing THEN "ast" ELSE IF row.edit # Missing THEN "loc" ELSE "unavailable"
  IN  [sem |-> row.sem, edit |-> edit, method |-> method, editLoc |-> row.edit,
       pvs |-> Score(row.sem, edit), folds |-> IF row.folds = 2 THEN 2 ELSE row.folds + 1]

\* A row without features: setdefault of the new column.
Kept(row, locColumn) == [row EXCEPT !.editLoc = IF locColumn THEN row.editLoc ELSE row.edit]

\* A table without rows is left alone: there is nothing in it to rewrite.
Update ==
  /\ Begin("update") /\ pc' = "writing" /\ DOMAIN features # {} /\ DOMAIN scores.rows # {}
  /\ copy' = [locColumn |-> TRUE,
              rows |-> [p \in DOMAIN scores.rows |->
                          IF p \in DOMAIN features THEN Folded(scores.rows[p], features[p])
                          ELSE Kept(scores.rows[p], scores.locColumn)]]
  /\ UNCHANGED <<todo, tried, patch, new, results, disk, settled>>

\* Mutant of Rescored: a judgement the row has is kept.
RescoredIfMissing(row, v) ==
  LET sem == IF v = NoRow \/ row.sem # Missing THEN row.sem ELSE v IN
  [row EXCEPT !.sem = sem, !.pvs = Score(sem, row.edit)]

\* rescore_pvs_from_semantic: S_sem from its CSV, if it has the patch.
Rescored(row, v) ==
  LET sem == IF v = NoRow THEN row.sem ELSE v IN
  [row EXCEPT !.sem = sem, !.pvs = Score(sem, row.edit)]

Rescore ==
  /\ Begin("rescore") /\ pc' = "writing" /\ DOMAIN scores.rows # {}
  /\ copy' = [scores EXCEPT !.rows = [p \in DOMAIN @ |-> Rescored(@[p], semantic[p])]]
  /\ UNCHANGED <<todo, tried, patch, new, results, disk, settled>>

\* The table is complete on disk.
EndWrite ==
  /\ pc = "writing" /\ scores' = copy
  /\ settled' = (settled \/ prog = "rescore")
  /\ IF prog = "pilot" THEN pc' = "log" /\ results' = [results EXCEPT ![patch] = "scored"]
     ELSE pc' = "ended" /\ UNCHANGED results
  /\ UNCHANGED <<prog, sessions, todo, tried, patch, new, copy, log, semantic, features>>

\* run_pilot writes its list after every patch.
WriteLog ==
  /\ pc = "log" /\ pc' = "patch" /\ log' = [cut |-> FALSE, entry |-> results]
  /\ UNCHANGED <<prog, sessions, mem, semantic, features, scores, settled>>

EndPilot ==
  /\ pc = "patch" /\ todo = {} /\ pc' = "ended"
  /\ UNCHANGED <<prog, sessions, mem, disk, settled>>

\* Killed: a table that is being written keeps some of its rows, a log that is
\* being written may be cut short.
Kill ==
  /\ Killable /\ ~Resting /\ pc' = "raised"
  /\ \/ pc # "writing" /\ UNCHANGED <<log, scores>>
     \/ /\ pc = "writing" /\ UNCHANGED log
        /\ \E D \in SUBSET DOMAIN copy.rows :
             scores' = [copy EXCEPT !.rows = [p \in D |-> @[p]]]
     \/ pc = "log" /\ log' = [cut |-> TRUE, entry |-> [p \in Patch |-> "none"]] /\ UNCHANGED scores
  /\ UNCHANGED <<prog, sessions, mem, semantic, features, settled>>

Next ==
  \/ StartPilot \/ Semantic \/ Assemble \/ WriteRow \/ Update \/ Rescore
  \/ EndWrite \/ WriteLog \/ EndPilot \/ Kill
  \/ \E p \in Patch : RunPatch(p) \/ StartAssemble(p) \/ Stage2b(p) \/ Rejudge(p)

Spec == Init /\ [][Next]_vars

-----------------------------------------------------------------------------
\* Every variable stays in its type.
TypeOK ==
  /\ pc \in {"idle", "patch", "semantic", "assemble", "row", "writing", "log", "ended", "raised"}
  /\ prog \in {"none", "pilot", "assemble", "stage2b", "rerun", "update", "rescore"}
  /\ sessions \in 0..MaxSessions /\ todo \subseteq Patch /\ tried \subseteq Patch /\ patch \in Patch
  /\ new \in Row /\ IsTable(copy) /\ IsTable(scores)
  /\ results \in [Patch -> Entry] /\ log \in [cut : BOOLEAN, entry : [Patch -> Entry]]
  /\ semantic \in [Patch -> Sem \cup {NoRow}] /\ IsFile(features, Feature) /\ settled \in BOOLEAN

\* PVS (pvs.py) is there exactly when S_sem is, and is computed from the values
\* that stand in its row now, whichever programs wrote them.
PvsIsOfItsRow ==
  \A p \in DOMAIN scores.rows : LET row == scores.rows[p] IN
    row.pvs = IF row.sem = Missing THEN {} ELSE {row.sem, row.edit} \ {Missing}

\* After a rescore (rescore_pvs_from_semantic.py) the table has the judgements
\* of semantic_results.csv, and no other program brings an old one back as long
\* as no judgement changes.
RescoreSettles ==
  settled => \A p \in DOMAIN scores.rows :
    semantic[p] # NoRow => scores.rows[p].sem = semantic[p]

\* A row that was folded at most once (update_scores_from_stage2b.py) has its
\* LOC value in S_edit_loc and says where its S_edit comes from.
FoldedOnce ==
  \A p \in DOMAIN scores.rows : LET row == scores.rows[p] IN
    row.folds <= 1 => row.method = Method(row.edit) /\ row.editLoc \in {NoRow, "loc", Missing}

\* A pass of run_pilot that ends has run every patch the log did not list as
\* done, those that had stopped included, and has listed them all.
PilotCovers ==
  prog = "pilot" /\ pc = "ended" =>
    \A p \in Patch : log.entry[p] \in Done \/ (p \in tried /\ log.entry[p] = "stopped")

\* Writing the log (run_pilot.main) never takes back that a patch is done.
LogKeepsDone ==
  [][~log'.cut => \A p \in Patch : log.entry[p] \in Done => log'.entry[p] \in Done]_vars
=============================================================================
