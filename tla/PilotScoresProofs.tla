-------------------------- MODULE PilotScoresProofs --------------------------
(***************************************************************************)
(* Proofs about PilotScores, for any sample, judgements and number of      *)
(* programs.                                                               *)
(***************************************************************************)
EXTENDS PilotScores, TLAPS

InPatch == {"semantic", "assemble", "row", "writing"}
InPilot == {"patch", "log"} \cup InPatch

\* A row that stands in a table with or without the column S_edit_loc.
RowSound(row, locColumn) ==
  /\ row.pvs = IF row.sem = Missing THEN {} ELSE {row.sem, row.edit} \ {Missing}
  /\ row.folds <= 1 => row.method = Method(row.edit) /\ row.editLoc \in {NoRow, "loc", Missing}
  /\ row.folds = 0 => row.edit \in {"loc", Missing}
  /\ ~locColumn => row.folds = 0

TableSound(t) == \A p \in DOMAIN t.rows : RowSound(t.rows[p], t.locColumn)

\* The judgements of a table are those of semantic_results.csv.
Current(t) == \A p \in DOMAIN t.rows : semantic[p] # NoRow => t.rows[p].sem = semantic[p]

SoundInv ==
  /\ TableSound(scores)
  /\ pc = "writing" => TableSound(copy)
  /\ pc = "row" => RowSound(new, FALSE)

CurrentInv ==
  /\ settled => Current(scores)
  /\ pc = "writing" /\ (settled \/ prog = "rescore") => Current(copy)
  /\ pc = "row" /\ settled /\ semantic[patch] # NoRow => new.sem = semantic[patch]

\* What a pass of run_pilot has in hand, and what it will write.
PassInv ==
  /\ pc \in {"patch", "semantic", "log"} => prog = "pilot"
  /\ prog = "pilot" /\ pc \in InPilot =>
       /\ ~log.cut
       /\ \A p \in todo : results[p] \notin Done
       /\ \A p \in Patch : log.entry[p] \in Done => results[p] \in Done
       /\ pc # "patch" => patch \notin todo
       /\ \A p \in Patch :
            ~(p \in todo) /\ ~(p = patch /\ pc \in InPatch) =>
              results[p] \in Done \/ (p \in tried /\ results[p] = "stopped")
       /\ pc = "patch" => log.entry = results

\* Only the pilot and assemble_pvs assemble rows.
ProgInv == pc \in {"assemble", "row"} => prog \in {"pilot", "assemble"}

IInv == TypeOK /\ SoundInv /\ CurrentInv /\ PassInv /\ PilotCovers /\ ProgInv

-----------------------------------------------------------------------------
LEMMA NewRow ==
  ASSUME NEW sem \in Sem, NEW edit \in {"loc", Missing}, NEW row,
         row = [sem |-> sem, edit |-> edit, method |-> Method(edit), editLoc |-> NoRow,
                pvs |-> Score(sem, edit), folds |-> 0]
  PROVE  row \in Row /\ RowSound(row, FALSE)
  <1>1. Score(sem, edit) \in SUBSET (Sem \cup Edit)
    BY DEF Score, Edit
  <1>2. Method(edit) \in {"loc", "ast", "unavailable"}
    BY DEF Method
  <1>3. row \in Row
    BY <1>1, <1>2 DEF Row, Edit
  <1>4. RowSound(row, FALSE)
    BY DEF RowSound, Score
  <1> QED  BY <1>3, <1>4

LEMMA FoldedRow ==
  ASSUME NEW row \in Row, NEW f \in Feature, NEW c, RowSound(row, c)
  PROVE  Folded(row, f) \in Row /\ RowSound(Folded(row, f), TRUE) /\ Folded(row, f).sem = row.sem
  <1> DEFINE edit == IF f = Missing THEN row.edit ELSE f
             method == IF f # Missing THEN "ast" ELSE IF row.edit # Missing THEN "loc" ELSE "unavailable"
             folds == IF row.folds = 2 THEN 2 ELSE row.folds + 1
  <1>1. Folded(row, f) = [sem |-> row.sem, edit |-> edit, method |-> method, editLoc |-> row.edit,
                          pvs |-> Score(row.sem, edit), folds |-> folds]
    BY DEF Folded
  <1>2. edit \in Edit /\ method \in {"loc", "ast", "unavailable"} /\ row.edit \in Edit
    BY DEF Row, Feature, Edit
  <1>3. folds \in 0..2 /\ folds # 0 /\ (folds <= 1 => row.folds = 0)
    BY DEF Row
  <1>4. Score(row.sem, edit) \in SUBSET (Sem \cup Edit)
    BY <1>2 DEF Score, Row
  <1>5. Folded(row, f) \in Row
    BY <1>1, <1>2, <1>3, <1>4 DEF Row
  <1>6. folds <= 1 => method = Method(edit) /\ row.edit \in {NoRow, "loc", Missing}
    <2> SUFFICES ASSUME folds <= 1 PROVE method = Method(edit) /\ row.edit \in {NoRow, "loc", Missing}
      OBVIOUS
    <2>1. row.edit \in {"loc", Missing}
      BY <1>3 DEF RowSound
    <2>2. f = "ast" \/ f = Missing
      BY DEF Feature
    <2> QED  BY <2>1, <2>2 DEF Method, Missing
  <1>7. Score(row.sem, edit) = IF row.sem = Missing THEN {} ELSE {row.sem, edit} \ {Missing}
    BY DEF Score
  <1> HIDE DEF edit, method, folds
  <1>8. RowSound(Folded(row, f), TRUE)
    BY <1>1, <1>3, <1>6, <1>7 DEF RowSound
  <1>9. Folded(row, f).sem = row.sem
    BY <1>1
  <1> QED  BY <1>5, <1>8, <1>9

LEMMA KeptRow ==
  ASSUME NEW row \in Row, NEW c \in BOOLEAN, RowSound(row, c)
  PROVE  Kept(row, c) \in Row /\ RowSound(Kept(row, c), TRUE) /\ Kept(row, c).sem = row.sem
  <1> DEFINE loc == IF c THEN row.editLoc ELSE row.edit
  <1>1. Kept(row, c) = [row EXCEPT !.editLoc = loc]
    BY DEF Kept
  <1>2. loc \in Edit \cup {NoRow} /\ (row.folds <= 1 => loc \in {NoRow, "loc", Missing})
    BY DEF Row, RowSound
  <1> HIDE DEF loc
  <1>3. Kept(row, c) \in Row
    BY <1>1, <1>2 DEF Row
  <1>4. RowSound(Kept(row, c), TRUE) /\ Kept(row, c).sem = row.sem
    BY <1>1, <1>2 DEF Row, RowSound
  <1> QED  BY <1>3, <1>4

LEMMA RescoredRow ==
  ASSUME NEW row \in Row, NEW v \in Sem \cup {NoRow}, NEW c, RowSound(row, c)
  PROVE  /\ Rescored(row, v) \in Row /\ RowSound(Rescored(row, v), c)
         /\ v # NoRow => Rescored(row, v).sem = v
  <1> DEFINE sem == IF v = NoRow THEN row.sem ELSE v
  <1>1. Rescored(row, v) = [row EXCEPT !.sem = sem, !.pvs = Score(sem, row.edit)]
    BY DEF Rescored
  <1>2. sem \in Sem /\ Score(sem, row.edit) \in SUBSET (Sem \cup Edit)
    BY DEF Row, Score
  <1> HIDE DEF sem
  <1>3. Rescored(row, v) \in Row
    BY <1>1, <1>2 DEF Row
  <1>4. RowSound(Rescored(row, v), c)
    BY <1>1, <1>2 DEF Row, RowSound, Score
  <1>5. v # NoRow => Rescored(row, v).sem = v
    BY <1>1 DEF sem, Row
  <1> QED  BY <1>3, <1>4, <1>5

LEMMA InitInv == Init => IInv
  <1> SUFFICES ASSUME Init PROVE IInv
    OBVIOUS
  <1>1. Blank \in Row
    BY DEF Blank, Row, Sem, Edit
  <1>2. scores = [locColumn |-> FALSE, rows |-> Empty] /\ DOMAIN Empty = {} /\ scores.rows = Empty
    BY DEF Init, Empty
  <1>3. IsFile(Empty, Row) /\ IsFile(Empty, Feature)
    BY DEF IsFile, Empty
  <1>4. IsTable(scores) /\ copy = scores
    BY <1>2, <1>3 DEF IsTable, Init
  <1>5. TypeOK
    <2>1. results \in [Patch -> Entry] /\ log \in [cut : BOOLEAN, entry : [Patch -> Entry]]
      BY DEF Init, Entry
    <2>2. semantic \in [Patch -> Sem \cup {NoRow}] /\ sessions \in 0..MaxSessions
      BY PilotAssumption DEF Init
    <2>3. IsTable(scores) /\ IsTable(copy) /\ new \in Row /\ IsFile(features, Feature)
      BY <1>1, <1>3, <1>4 DEF Init
    <2>4. settled \in BOOLEAN /\ todo \subseteq Patch /\ tried \subseteq Patch /\ patch \in Patch
      BY DEF Init
    <2> QED  BY <2>1, <2>2, <2>3, <2>4 DEF Init, TypeOK
  <1>6. SoundInv /\ CurrentInv
    BY <1>2 DEF Init, SoundInv, CurrentInv, TableSound, Current
  <1>7. PassInv /\ PilotCovers /\ ProgInv
    BY DEF Init, PassInv, PilotCovers, ProgInv
  <1> QED  BY <1>5, <1>6, <1>7 DEF IInv

\* A program starts: nothing on disk changes.
LEMMA BeginInv ==
  ASSUME IInv, StartPilot \/ \E p \in Patch : StartAssemble(p)
  PROVE  IInv'
  <1>1. CASE StartPilot
    <2>1. TypeOK'
      <3>1. sessions' \in 0..MaxSessions /\ todo' \subseteq Patch /\ tried' = {} /\ prog' = "pilot"
        BY <1>1, PilotAssumption DEF StartPilot, Begin, IInv, TypeOK
      <3>2. results' \in [Patch -> Entry] /\ pc' \in {"patch", "raised"}
        BY <1>1 DEF StartPilot, IInv, TypeOK
      <3> QED  BY <1>1, <3>1, <3>2 DEF StartPilot, disk, IInv, TypeOK
    <2>2. SoundInv' /\ CurrentInv'
      BY <1>1 DEF StartPilot, disk, IInv, SoundInv, CurrentInv, TableSound, Current
    <2>3. PassInv' /\ PilotCovers' /\ ProgInv'
      BY <1>1 DEF StartPilot, Begin, disk, PassInv, PilotCovers, InPilot, InPatch, Done, ProgInv
    <2> QED  BY <2>1, <2>2, <2>3 DEF IInv
  <1>2. ASSUME NEW p \in Patch, StartAssemble(p)  PROVE IInv'
    <2>1. TypeOK'
      <3>1. sessions' \in 0..MaxSessions /\ prog' = "assemble"
        BY <1>2, PilotAssumption DEF StartAssemble, Begin, IInv, TypeOK
      <3> QED  BY <1>2, <3>1 DEF StartAssemble, disk, IInv, TypeOK
    <2>2. SoundInv' /\ CurrentInv'
      BY <1>2 DEF StartAssemble, disk, IInv, SoundInv, CurrentInv, TableSound, Current
    <2>3. PassInv' /\ PilotCovers' /\ ProgInv'
      BY <1>2 DEF StartAssemble, Begin, disk, PassInv, PilotCovers, ProgInv
    <2> QED  BY <2>1, <2>2, <2>3 DEF IInv
  <1> QED  BY <1>1, <1>2

LEMMA RunPatchInv == ASSUME IInv, NEW p \in Patch, RunPatch(p) PROVE IInv'
  <1>1. TypeOK'
    <2>1. results' \in [Patch -> Entry] /\ pc' \in {"semantic", "log", "raised"}
      BY DEF RunPatch, IInv, TypeOK, Entry
    <2> QED  BY <2>1 DEF RunPatch, disk, IInv, TypeOK
  <1>2. SoundInv' /\ CurrentInv'
    BY DEF RunPatch, disk, IInv, SoundInv, CurrentInv, TableSound, Current
  <1>3. PassInv'
    <2>1. /\ pc = "patch" /\ prog = "pilot" /\ prog' = prog /\ log' = log
          /\ todo' = todo \ {p} /\ tried' = tried \cup {p} /\ patch' = p /\ p \in todo
      BY DEF RunPatch, disk, IInv, PassInv
    <2>2. /\ ~log.cut /\ \A q \in todo : results[q] \notin Done
          /\ \A q \in Patch : log.entry[q] \in Done => results[q] \in Done
          /\ \A q \in Patch : ~(q \in todo) =>
               results[q] \in Done \/ (q \in tried /\ results[q] = "stopped")
      BY <2>1 DEF IInv, PassInv, InPilot, InPatch
    <2>3. \A q \in Patch : q # p => results'[q] = results[q]
      BY DEF RunPatch, IInv, TypeOK
    <2>4. pc' = "semantic" \/ (pc' = "log" /\ results'[p] = "stopped") \/ pc' = "raised"
      BY DEF RunPatch, IInv, TypeOK
    <2>5. log.entry[p] \notin Done
      BY <2>1, <2>2
    <2> QED  BY <2>1, <2>2, <2>3, <2>4, <2>5 DEF PassInv, InPilot, InPatch, IInv, TypeOK
  <1>4. PilotCovers' /\ ProgInv'
    BY DEF RunPatch, PilotCovers, ProgInv
  <1> QED  BY <1>1, <1>2, <1>3, <1>4 DEF IInv

LEMMA SemanticInv == ASSUME IInv, Semantic PROVE IInv'
  <1>1. semantic' \in [Patch -> Sem \cup {NoRow}] /\ settled' \in BOOLEAN
    BY DEF Semantic, Judge, IInv, TypeOK
  <1>2. settled' => settled /\ semantic' = semantic
    BY DEF Semantic, Judge, IInv, TypeOK
  <1>3. TypeOK'
    BY <1>1 DEF Semantic, mem, IInv, TypeOK
  <1>4. SoundInv' /\ CurrentInv'
    BY <1>2 DEF Semantic, mem, IInv, SoundInv, CurrentInv, TableSound, Current
  <1>5. PassInv' /\ PilotCovers' /\ ProgInv'
    BY DEF Semantic, mem, IInv, PassInv, PilotCovers, InPilot, InPatch, ProgInv
  <1> QED  BY <1>3, <1>4, <1>5 DEF IInv

\* A row that could not be assembled or written is one of a patch that is done.
LEMMA FailPass ==
  ASSUME IInv, pc \in {"assemble", "row"}, FailRow,
         UNCHANGED <<prog, todo, tried, patch, log>>
  PROVE  PassInv' /\ PilotCovers' /\ ProgInv' /\ results' \in [Patch -> Entry] /\ pc' \in {"log", "raised"}
  <1>1. CASE prog = "pilot"
    <2>1. pc' = "log" /\ results' = [results EXCEPT ![patch] = "unscored"]
      BY <1>1 DEF FailRow
    <2>2. results' \in [Patch -> Entry]
      BY <2>1 DEF IInv, TypeOK, Entry, Done
    <2>3. results'[patch] = "unscored" /\ \A p \in Patch : p # patch => results'[p] = results[p]
      BY <2>1 DEF IInv, TypeOK
    <2>4. PassInv'
      BY <1>1, <2>1, <2>3 DEF IInv, TypeOK, PassInv, InPilot, InPatch, Done
    <2>5. PilotCovers' /\ ProgInv'
      BY <2>1 DEF PilotCovers, ProgInv
    <2> QED  BY <2>1, <2>2, <2>4, <2>5
  <1>2. CASE prog # "pilot"
    BY <1>2 DEF FailRow, IInv, TypeOK, PassInv, PilotCovers, InPilot, InPatch, ProgInv
  <1> QED  BY <1>1, <1>2

LEMMA AssembleInv == ASSUME IInv, Assemble PROVE IInv'
  <1>0. /\ pc = "assemble" /\ UNCHANGED <<prog, sessions, todo, tried, patch, copy, settled>>
        /\ UNCHANGED <<log, semantic, features, scores>>
    BY DEF Assemble, disk
  <1>1. CASE pc' = "row" /\ UNCHANGED results
             /\ \E edit \in {"loc", Missing} :
                  new' = [sem |-> IF semantic[patch] = NoRow THEN Missing ELSE semantic[patch],
                          edit |-> edit, method |-> Method(edit), editLoc |-> NoRow,
                          pvs |-> Score(IF semantic[patch] = NoRow THEN Missing ELSE semantic[patch], edit),
                          folds |-> 0]
    <2> DEFINE sem == IF semantic[patch] = NoRow THEN Missing ELSE semantic[patch]
    <2>1. PICK edit \in {"loc", Missing} :
            new' = [sem |-> sem, edit |-> edit, method |-> Method(edit), editLoc |-> NoRow,
                    pvs |-> Score(sem, edit), folds |-> 0]
      BY <1>1
    <2>2. sem \in Sem
      BY DEF IInv, TypeOK, Sem
    <2>3. new'.sem = sem
      BY <2>1
    <2>4. semantic[patch] # NoRow => sem = semantic[patch]
      OBVIOUS
    <2> HIDE DEF sem
    <2>5. new' \in Row /\ RowSound(new', FALSE)
      BY <2>1, <2>2, NewRow
    <2>6. TypeOK'
      BY <1>0, <1>1, <2>5 DEF IInv, TypeOK
    <2>7. SoundInv'
      BY <1>0, <1>1, <2>5 DEF IInv, SoundInv, TableSound
    <2>8. CurrentInv'
      BY <1>0, <1>1, <2>3, <2>4 DEF IInv, CurrentInv, Current
    <2>9. PassInv' /\ PilotCovers' /\ ProgInv'
      BY <1>0, <1>1 DEF IInv, PassInv, PilotCovers, InPilot, InPatch, ProgInv
    <2> QED  BY <2>6, <2>7, <2>8, <2>9 DEF IInv
  <1>2. CASE FailRow /\ UNCHANGED new
    <2>1. PassInv' /\ PilotCovers' /\ ProgInv' /\ results' \in [Patch -> Entry] /\ pc' \in {"log", "raised"}
      BY <1>0, <1>2, FailPass
    <2>2. TypeOK'
      BY <1>0, <1>2, <2>1 DEF IInv, TypeOK
    <2>3. SoundInv' /\ CurrentInv'
      BY <1>0, <1>2, <2>1 DEF IInv, SoundInv, CurrentInv, TableSound, Current
    <2> QED  BY <2>1, <2>2, <2>3 DEF IInv
  <1> QED  BY <1>1, <1>2 DEF Assemble

\* _write_row replaces the row, or empties the table.
LEMMA WriteRowInv == ASSUME IInv, WriteRow PROVE IInv'
  <1> DEFINE others == DOMAIN scores.rows \ {patch}
  <1>0. /\ pc = "row" /\ new' = Blank
        /\ UNCHANGED <<prog, sessions, todo, tried, patch, log, semantic, features, settled>>
    BY DEF WriteRow
  <1>1. Blank \in Row
    BY DEF Blank, Row, Sem, Edit
  <1>2. CASE scores.locColumn /\ others # {}
    <2>1. /\ scores' = [locColumn |-> FALSE, rows |-> Empty] /\ FailRow /\ copy' = copy
      BY <1>2 DEF WriteRow
    <2>2. DOMAIN scores'.rows = {} /\ IsFile(Empty, Row) /\ scores'.rows = Empty
      BY <2>1 DEF Empty, IsFile
    <2>3. IsTable(scores')
      BY <2>1, <2>2 DEF IsTable
    <2>4. PassInv' /\ PilotCovers' /\ ProgInv' /\ results' \in [Patch -> Entry] /\ pc' \in {"log", "raised"}
      BY <1>0, <2>1, FailPass
    <2>5. IsTable(copy)'
      BY <2>1 DEF IInv, TypeOK, IsTable
    <2>6. IsTable(scores)'
      BY <2>3 DEF IsTable
    <2>7. TypeOK'
      BY <1>0, <1>1, <2>4, <2>5, <2>6 DEF IInv, TypeOK
    <2>8. SoundInv' /\ CurrentInv'
      BY <2>2, <2>4 DEF SoundInv, CurrentInv, TableSound, Current
    <2> QED  BY <2>4, <2>7, <2>8 DEF IInv
  <1>3. CASE ~(scores.locColumn /\ others # {})
    <2> DEFINE written == [p \in others \cup {patch} |-> IF p = patch THEN new ELSE scores.rows[p]]
    <2>1. /\ copy' = [locColumn |-> FALSE, rows |-> written] /\ pc' = "writing"
          /\ scores' = scores /\ results' = results
      BY <1>3 DEF WriteRow
    <2>2. copy'.rows = written /\ copy'.locColumn = FALSE /\ DOMAIN written = others \cup {patch}
      BY <2>1
    <2>3. /\ IsFile(scores.rows, Row) /\ scores.locColumn \in BOOLEAN /\ new \in Row
      BY DEF IInv, TypeOK, IsTable
    <2>4. \A p \in others : scores.rows[p] \in Row /\ RowSound(scores.rows[p], FALSE)
      <3> SUFFICES ASSUME NEW p \in others PROVE scores.rows[p] \in Row /\ RowSound(scores.rows[p], FALSE)
        OBVIOUS
      <3>1. ~scores.locColumn
        BY <1>3
      <3>2. RowSound(scores.rows[p], scores.locColumn)
        BY DEF IInv, SoundInv, TableSound
      <3> QED  BY <2>3, <3>1, <3>2 DEF IsFile, RowSound
    <2>5. \A p \in DOMAIN written : written[p] \in Row /\ RowSound(written[p], FALSE)
      BY <1>0, <2>3, <2>4 DEF IInv, SoundInv
    <2>6. IsFile(written, Row)
      BY <2>2, <2>3, <2>5 DEF IsFile, IInv, TypeOK
    <2>7. IsTable(copy)'
      BY <2>1, <2>2, <2>6 DEF IsTable
    <2>8. IsTable(scores)'
      BY <2>1 DEF IInv, TypeOK, IsTable
    <2>9. TypeOK'
      BY <1>0, <1>1, <2>1, <2>7, <2>8 DEF IInv, TypeOK
    <2>10. TableSound(copy)' /\ TableSound(scores)'
      BY <2>1, <2>2, <2>5 DEF TableSound, IInv, SoundInv
    <2>11. settled => Current(copy)' /\ Current(scores)'
      BY <1>0, <2>1, <2>2 DEF Current, IInv, CurrentInv
    <2>12. SoundInv' /\ CurrentInv'
      <3>1. prog # "rescore"
        BY <1>0 DEF IInv, ProgInv
      <3> QED  BY <1>0, <2>1, <2>10, <2>11, <3>1 DEF SoundInv, CurrentInv
    <2>13. PassInv' /\ PilotCovers'
      BY <1>0, <2>1 DEF IInv, PassInv, PilotCovers, InPilot, InPatch
    <2> QED  BY <1>0, <2>1, <2>9, <2>12, <2>13 DEF IInv, ProgInv
  <1> QED  BY <1>2, <1>3

LEMMA Stage2bInv == ASSUME IInv, NEW p \in Patch, Stage2b(p) PROVE IInv'
  <1>1. PICK f \in Feature :
          features' = [q \in DOMAIN features \cup {p} |-> IF q = p THEN f ELSE features[q]]
    BY DEF Stage2b
  <1>2. IsFile(features, Feature)'
    BY <1>1 DEF IInv, TypeOK, IsFile
  <1>3. sessions' \in 0..MaxSessions /\ prog' = "stage2b" /\ pc' = "ended"
    BY PilotAssumption DEF Stage2b, Begin, IInv, TypeOK
  <1>4. TypeOK'
    BY <1>2, <1>3 DEF Stage2b, mem, IInv, TypeOK
  <1>5. SoundInv' /\ CurrentInv'
    BY <1>3 DEF Stage2b, mem, IInv, SoundInv, CurrentInv, TableSound, Current
  <1>6. PassInv' /\ PilotCovers' /\ ProgInv'
    BY <1>3 DEF PassInv, PilotCovers, ProgInv
  <1> QED  BY <1>4, <1>5, <1>6 DEF IInv

LEMMA RejudgeInv == ASSUME IInv, NEW p \in Patch, Rejudge(p) PROVE IInv'
  <1>1. sessions' \in 0..MaxSessions /\ prog' = "rerun" /\ pc' = "ended"
    BY PilotAssumption DEF Rejudge, Begin, IInv, TypeOK
  <1>2. semantic' \in [Patch -> Sem \cup {NoRow}] /\ settled' \in BOOLEAN
    BY DEF Rejudge, Judge, IInv, TypeOK, Sem
  <1>3. settled' => settled /\ semantic' = semantic
    BY DEF Rejudge, Judge, IInv, TypeOK
  <1>4. TypeOK'
    BY <1>1, <1>2 DEF Rejudge, mem, IInv, TypeOK
  <1>5. SoundInv' /\ CurrentInv'
    BY <1>1, <1>3 DEF Rejudge, mem, IInv, SoundInv, CurrentInv, TableSound, Current
  <1>6. PassInv' /\ PilotCovers' /\ ProgInv'
    BY <1>1 DEF PassInv, PilotCovers, ProgInv
  <1> QED  BY <1>4, <1>5, <1>6 DEF IInv

LEMMA UpdateInv == ASSUME IInv, Update PROVE IInv'
  <1> DEFINE row(p) == IF p \in DOMAIN features THEN Folded(scores.rows[p], features[p])
                       ELSE Kept(scores.rows[p], scores.locColumn)
             rows == [p \in DOMAIN scores.rows |-> row(p)]
  <1>0. /\ prog' = "update" /\ pc' = "writing" /\ copy' = [locColumn |-> TRUE, rows |-> rows]
        /\ UNCHANGED <<todo, tried, patch, new, results, log, semantic, features, scores, settled>>
    BY DEF Update, Begin, disk
  <1>1. sessions' \in 0..MaxSessions
    BY PilotAssumption DEF Update, Begin, IInv, TypeOK
  <1>2. /\ IsFile(scores.rows, Row) /\ scores.locColumn \in BOOLEAN /\ IsFile(features, Feature)
    BY DEF IInv, TypeOK, IsTable
  <1>3. \A p \in DOMAIN scores.rows :
          row(p) \in Row /\ RowSound(row(p), TRUE) /\ row(p).sem = scores.rows[p].sem
    <2> SUFFICES ASSUME NEW p \in DOMAIN scores.rows
                 PROVE  row(p) \in Row /\ RowSound(row(p), TRUE) /\ row(p).sem = scores.rows[p].sem
      OBVIOUS
    <2>1. scores.rows[p] \in Row /\ RowSound(scores.rows[p], scores.locColumn)
      BY <1>2 DEF IsFile, IInv, SoundInv, TableSound
    <2>2. CASE p \in DOMAIN features
      <3>1. features[p] \in Feature
        BY <1>2, <2>2 DEF IsFile
      <3> QED  BY <2>1, <2>2, <3>1, FoldedRow
    <2>3. CASE p \notin DOMAIN features
      BY <1>2, <2>1, <2>3, KeptRow
    <2> QED  BY <2>2, <2>3
  <1> HIDE DEF row
  <1>4. copy'.rows = rows /\ copy'.locColumn = TRUE /\ DOMAIN rows = DOMAIN scores.rows
    BY <1>0
  <1>5. \A p \in DOMAIN scores.rows : rows[p] = row(p)
    OBVIOUS
  <1> HIDE DEF rows
  <1>6. IsFile(rows, Row)
    <2>1. rows = [p \in DOMAIN scores.rows |-> row(p)]
      BY DEF rows
    <2> QED  BY <1>2, <1>3, <1>4, <2>1 DEF IsFile
  <1>7. IsTable(copy)' /\ IsTable(scores)'
    BY <1>0, <1>4, <1>6 DEF IsTable, IInv, TypeOK
  <1>8. TypeOK'
    BY <1>0, <1>1, <1>7 DEF IInv, TypeOK
  <1>9. TableSound(copy)' /\ TableSound(scores)'
    BY <1>0, <1>3, <1>4, <1>5 DEF TableSound, IInv, SoundInv
  <1>10. settled => Current(copy)' /\ Current(scores)'
    BY <1>0, <1>3, <1>4, <1>5 DEF Current, IInv, CurrentInv
  <1>11. SoundInv' /\ CurrentInv'
    BY <1>0, <1>9, <1>10 DEF SoundInv, CurrentInv
  <1>12. PassInv' /\ PilotCovers' /\ ProgInv'
    BY <1>0 DEF PassInv, PilotCovers, ProgInv
  <1> QED  BY <1>8, <1>11, <1>12 DEF IInv

LEMMA RescoreInv == ASSUME IInv, Rescore PROVE IInv'
  <1> DEFINE row(p) == Rescored(scores.rows[p], semantic[p])
             rows == [p \in DOMAIN scores.rows |-> row(p)]
  <1>0. /\ prog' = "rescore" /\ pc' = "writing"
        /\ UNCHANGED <<todo, tried, patch, new, results, log, semantic, features, scores, settled>>
    BY DEF Rescore, Begin, disk
  <1>1. sessions' \in 0..MaxSessions
    BY PilotAssumption DEF Rescore, Begin, IInv, TypeOK
  <1>2. copy' = [locColumn |-> scores.locColumn, rows |-> rows]
    BY DEF Rescore, IInv, TypeOK, IsTable
  <1>3. IsFile(scores.rows, Row) /\ scores.locColumn \in BOOLEAN
    BY DEF IInv, TypeOK, IsTable
  <1>4. \A p \in DOMAIN scores.rows :
          /\ row(p) \in Row /\ RowSound(row(p), scores.locColumn)
          /\ semantic[p] # NoRow => row(p).sem = semantic[p]
    <2> SUFFICES ASSUME NEW p \in DOMAIN scores.rows
                 PROVE  /\ row(p) \in Row /\ RowSound(row(p), scores.locColumn)
                        /\ semantic[p] # NoRow => row(p).sem = semantic[p]
      OBVIOUS
    <2>1. scores.rows[p] \in Row /\ RowSound(scores.rows[p], scores.locColumn)
      BY <1>3 DEF IsFile, IInv, SoundInv, TableSound
    <2>2. semantic[p] \in Sem \cup {NoRow}
      BY <1>3 DEF IsFile, IInv, TypeOK
    <2> QED  BY <2>1, <2>2, RescoredRow
  <1> HIDE DEF row
  <1>5. copy'.rows = rows /\ copy'.locColumn = scores.locColumn /\ DOMAIN rows = DOMAIN scores.rows
    BY <1>2
  <1>6. \A p \in DOMAIN scores.rows : rows[p] = row(p)
    OBVIOUS
  <1>7. IsFile(rows, Row)
    BY <1>3, <1>4, <1>5 DEF IsFile
  <1> HIDE DEF rows
  <1>8. IsTable(copy)' /\ IsTable(scores)'
    BY <1>0, <1>2, <1>3, <1>5, <1>7 DEF IsTable, IInv, TypeOK
  <1>9. TypeOK'
    BY <1>0, <1>1, <1>8 DEF IInv, TypeOK
  <1>10. TableSound(copy)' /\ TableSound(scores)'
    BY <1>0, <1>4, <1>5, <1>6 DEF TableSound, IInv, SoundInv
  <1>11. Current(copy)' /\ (settled => Current(scores)')
    BY <1>0, <1>4, <1>5, <1>6 DEF Current, IInv, CurrentInv
  <1>12. SoundInv' /\ CurrentInv'
    BY <1>0, <1>10, <1>11 DEF SoundInv, CurrentInv
  <1>13. PassInv' /\ PilotCovers' /\ ProgInv'
    BY <1>0 DEF PassInv, PilotCovers, ProgInv
  <1> QED  BY <1>9, <1>12, <1>13 DEF IInv

LEMMA EndWriteInv == ASSUME IInv, EndWrite PROVE IInv'
  <1>0. /\ pc = "writing" /\ scores' = copy /\ settled' = (settled \/ prog = "rescore")
        /\ UNCHANGED <<prog, sessions, todo, tried, patch, new, copy, log, semantic, features>>
    BY DEF EndWrite
  <1>1. IsTable(scores)' /\ IsTable(copy)'
    BY <1>0 DEF IsTable, IInv, TypeOK
  <1>2. results' \in [Patch -> Entry] /\ pc' \in {"log", "ended"}
    BY DEF EndWrite, IInv, TypeOK, Entry, Done
  <1>3. settled' \in BOOLEAN
    BY <1>0
  <1>4. TypeOK'
    BY <1>0, <1>1, <1>2, <1>3 DEF IInv, TypeOK
  <1>5. TableSound(scores)' /\ (settled' => Current(scores)')
    BY <1>0 DEF IInv, SoundInv, CurrentInv, TableSound, Current
  <1>6. SoundInv' /\ CurrentInv'
    BY <1>2, <1>5 DEF SoundInv, CurrentInv
  <1>7. PassInv' /\ PilotCovers' /\ ProgInv'
    <2>1. CASE prog = "pilot"
      <3>1. pc' = "log" /\ results' = [results EXCEPT ![patch] = "scored"]
        BY <2>1 DEF EndWrite
      <3>2. results'[patch] = "scored" /\ \A p \in Patch : p # patch => results'[p] = results[p]
        BY <3>1 DEF IInv, TypeOK
      <3>3. PassInv'
        BY <1>0, <2>1, <3>1, <3>2 DEF IInv, TypeOK, PassInv, InPilot, InPatch, Done
      <3> QED  BY <3>1, <3>3 DEF PilotCovers, ProgInv
    <2>2. CASE prog # "pilot"
      BY <1>0, <2>2 DEF EndWrite, PassInv, PilotCovers, ProgInv
    <2> QED  BY <2>1, <2>2
  <1> QED  BY <1>4, <1>6, <1>7 DEF IInv

LEMMA LogInv == ASSUME IInv, WriteLog \/ EndPilot PROVE IInv'
  <1>1. CASE WriteLog
    <2>1. log' \in [cut : BOOLEAN, entry : [Patch -> Entry]] /\ log'.cut = FALSE /\ log'.entry = results
      BY <1>1 DEF WriteLog, IInv, TypeOK
    <2>2. TypeOK'
      BY <1>1, <2>1 DEF WriteLog, mem, IInv, TypeOK
    <2>3. SoundInv' /\ CurrentInv'
      BY <1>1 DEF WriteLog, mem, IInv, SoundInv, CurrentInv, TableSound, Current
    <2>4. PassInv' /\ PilotCovers' /\ ProgInv'
      BY <1>1, <2>1 DEF WriteLog, mem, IInv, PassInv, PilotCovers, InPilot, InPatch, ProgInv
    <2> QED  BY <2>2, <2>3, <2>4 DEF IInv
  <1>2. CASE EndPilot
    <2>1. TypeOK'
      BY <1>2 DEF EndPilot, mem, disk, IInv, TypeOK
    <2>2. SoundInv' /\ CurrentInv'
      BY <1>2 DEF EndPilot, mem, disk, IInv, SoundInv, CurrentInv, TableSound, Current
    <2>3. PassInv' /\ PilotCovers' /\ ProgInv'
      BY <1>2 DEF EndPilot, mem, disk, IInv, PassInv, PilotCovers, InPilot, InPatch, ProgInv
    <2> QED  BY <2>1, <2>2, <2>3 DEF IInv
  <1> QED  BY <1>1, <1>2

LEMMA KillInv == ASSUME IInv, Kill PROVE IInv'
  <1>0. /\ pc' = "raised" /\ UNCHANGED <<prog, sessions, mem, semantic, features, settled>>
    BY DEF Kill
  <1>1. log' \in [cut : BOOLEAN, entry : [Patch -> Entry]]
    <2>1. log' = log \/ log' = [cut |-> TRUE, entry |-> [p \in Patch |-> "none"]]
      BY DEF Kill
    <2>2. [p \in Patch |-> "none"] \in [Patch -> Entry]
      BY DEF Entry
    <2>3. \A e \in [Patch -> Entry] :
            [cut |-> TRUE, entry |-> e] \in [cut : BOOLEAN, entry : [Patch -> Entry]]
      OBVIOUS
    <2>4. log \in [cut : BOOLEAN, entry : [Patch -> Entry]]
      BY DEF IInv, TypeOK
    <2>5. CASE log' = log
      BY <2>4, <2>5
    <2>6. CASE log' = [cut |-> TRUE, entry |-> [p \in Patch |-> "none"]]
      <3> DEFINE e == [p \in Patch |-> "none"]
      <3> HIDE DEF e
      <3>1. [cut |-> TRUE, entry |-> e] \in [cut : BOOLEAN, entry : [Patch -> Entry]]
        BY <2>2, <2>3 DEF e
      <3> QED  BY <2>6, <3>1 DEF e
    <2> QED  BY <2>1, <2>5, <2>6
  <1>2. IsTable(scores)' /\ TableSound(scores)' /\ (settled => Current(scores)')
    <2>1. CASE scores' = scores
      BY <1>0, <2>1 DEF IsTable, TableSound, Current, IInv, TypeOK, SoundInv, CurrentInv
    <2>2. ASSUME pc = "writing", NEW D \in SUBSET DOMAIN copy.rows,
                 scores' = [copy EXCEPT !.rows = [p \in D |-> @[p]]]
          PROVE  IsTable(scores)' /\ TableSound(scores)' /\ (settled => Current(scores)')
      <3> DEFINE rows == [p \in D |-> copy.rows[p]]
      <3>1. scores' = [locColumn |-> copy.locColumn, rows |-> rows]
        BY <2>2 DEF IInv, TypeOK, IsTable
      <3>2. scores'.rows = rows /\ scores'.locColumn = copy.locColumn /\ DOMAIN rows = D
        BY <3>1
      <3>3. IsFile(copy.rows, Row) /\ copy.locColumn \in BOOLEAN
        BY DEF IInv, TypeOK, IsTable
      <3>4. \A p \in D : rows[p] = copy.rows[p] /\ rows[p] \in Row
        BY <3>3 DEF IsFile
      <3>5. IsFile(rows, Row)
        BY <3>2, <3>3, <3>4 DEF IsFile
      <3> HIDE DEF rows
      <3>6. IsTable(scores)'
        BY <3>1, <3>2, <3>3, <3>5 DEF IsTable
      <3>7. TableSound(scores)'
        BY <2>2, <3>2, <3>4 DEF TableSound, IInv, SoundInv
      <3>8. settled => Current(scores)'
        BY <1>0, <2>2, <3>2, <3>4 DEF Current, IInv, CurrentInv
      <3> QED  BY <3>6, <3>7, <3>8
    <2> QED  BY <2>1, <2>2 DEF Kill
  <1>3. IsTable(copy)'
    BY <1>0 DEF mem, IsTable, IInv, TypeOK
  <1>4. TypeOK'
    BY <1>0, <1>1, <1>2, <1>3 DEF mem, IInv, TypeOK
  <1>5. SoundInv' /\ CurrentInv'
    BY <1>0, <1>2 DEF SoundInv, CurrentInv
  <1>6. PassInv' /\ PilotCovers' /\ ProgInv'
    BY <1>0 DEF PassInv, PilotCovers, ProgInv, InPilot, InPatch
  <1> QED  BY <1>4, <1>5, <1>6 DEF IInv

LEMMA NextInv == IInv /\ [Next]_vars => IInv'
  <1> SUFFICES ASSUME IInv, [Next]_vars PROVE IInv'
    OBVIOUS
  <1>1. CASE UNCHANGED vars
    <2>1. TypeOK'
      BY <1>1 DEF vars, mem, disk, IInv, TypeOK, IsTable
    <2>2. SoundInv' /\ CurrentInv'
      BY <1>1 DEF vars, mem, disk, IInv, SoundInv, CurrentInv, TableSound, Current
    <2>3. PassInv' /\ PilotCovers' /\ ProgInv'
      BY <1>1 DEF vars, mem, disk, IInv, PassInv, PilotCovers, ProgInv
    <2> QED  BY <2>1, <2>2, <2>3 DEF IInv
  <1>2. CASE Next
    BY <1>2, BeginInv, RunPatchInv, SemanticInv, AssembleInv, WriteRowInv, Stage2bInv, RejudgeInv,
       UpdateInv, RescoreInv, EndWriteInv, LogInv, KillInv DEF Next
  <1> QED  BY <1>1, <1>2

LEMMA InvHolds == Spec => []IInv
  <1> QED  BY InitInv, NextInv, PTL DEF Spec

\* The tables, the log and the programs' memory stay in their types.
THEOREM PilotTypes == Spec => []TypeOK
  <1>1. IInv => TypeOK
    BY DEF IInv
  <1> QED  BY <1>1, InvHolds, PTL

\* No order of the programs, and no kill, parts a PVS from its row.
THEOREM PvsBelongs == Spec => []PvsIsOfItsRow
  <1>1. IInv => PvsIsOfItsRow
    BY DEF IInv, SoundInv, TableSound, RowSound, PvsIsOfItsRow
  <1> QED  BY <1>1, InvHolds, PTL

\* The judgements a rescore has brought stay in the table.
THEOREM RescoreIsFinal == Spec => []RescoreSettles
  <1>1. IInv => RescoreSettles
    BY DEF IInv, CurrentInv, Current, RescoreSettles
  <1> QED  BY <1>1, InvHolds, PTL

\* Rows folded at most once are labelled right and keep their LOC value.
THEOREM OneFoldIsSafe == Spec => []FoldedOnce
  <1>1. IInv => FoldedOnce
    BY DEF IInv, SoundInv, TableSound, RowSound, FoldedOnce
  <1> QED  BY <1>1, InvHolds, PTL

\* A pass of run_pilot that ends has left no patch out.
THEOREM PilotMissesNone == Spec => []PilotCovers
  <1>1. IInv => PilotCovers
    BY DEF IInv
  <1> QED  BY <1>1, InvHolds, PTL

\* What the log lists as done it goes on listing, unless it is cut short.
THEOREM DoneIsKept == Spec => LogKeepsDone
  <1>1. IInv /\ [Next]_vars =>
          [~log'.cut => \A p \in Patch : log.entry[p] \in Done => log'.entry[p] \in Done]_vars
    <2> SUFFICES ASSUME IInv, Next, ~log'.cut, NEW p \in Patch, log.entry[p] \in Done
                 PROVE  log'.entry[p] \in Done
      BY DEF vars, disk
    <2>1. CASE WriteLog
      BY <2>1 DEF WriteLog, IInv, PassInv, InPilot
    <2>2. CASE Kill
      BY <2>2 DEF Kill
    <2>3. CASE ~WriteLog /\ ~Kill
      <3>1. log' = log
        BY <2>3 DEF Next, StartPilot, Semantic, Assemble, WriteRow, Update, Rescore, EndWrite, EndPilot,
             RunPatch, StartAssemble, Stage2b, Rejudge, disk
      <3> QED  BY <3>1
    <2> QED  BY <2>1, <2>2, <2>3
  <1> QED  BY <1>1, InvHolds, PTL DEF Spec, LogKeepsDone
=============================================================================
