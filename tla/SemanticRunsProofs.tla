------------------------- MODULE SemanticRunsProofs -------------------------
(***************************************************************************)
(* Proofs about SemanticRuns, for any patches, runs, retries and sessions. *)
(***************************************************************************)
EXTENDS SemanticRuns, FiniteSetTheorems, TLAPS

Writing == {"table", "between", "detail"}
InHand  == {"send"} \cup Writing
Active  == {"scan"} \cup InHand

\* A rerun issues only what failed on disk, and only for patches it has read.
ReuseInv ==
  /\ pc \in Writing => plan = {}
  /\ mode = "rerun" /\ pc \in Active => \A p \in todo, i \in Run : <<p, i>> \notin issued
  /\ mode = "rerun" /\ pc \in InHand => patch \notin todo
  /\ mode = "rerun" /\ pc = "send" =>
       \A i \in plan : ErrorClass(detail[patch].rows[i]) \in Rerunnable

\* What the failed calls of a patch it has read, or has in hand, have become.
CoverInv ==
  /\ mode = "rerun" /\ pc \in Active =>
       \A p \in Patch \ todo, i \in Run :
         /\ ~(pc \in InHand /\ p = patch)
         /\ detail[p].kind = "file" /\ ErrorClass(detail[p].rows[i]) \in Rerunnable
         => <<p, i>> \in issued
  /\ mode = "rerun" /\ pc \in InHand =>
       \A i \in Run : ErrorClass(rows[i]) \in Rerunnable => i \in plan \/ <<patch, i>> \in issued

\* The row a patch should have in the table.
Should(p) == IF detail[p].kind = "absent" THEN NoRow ELSE NParsed(detail[p].rows)

AgreeInv ==
  ~spoiled =>
    /\ pc \notin Writing => \A p \in Patch : table[p] = Should(p)
    /\ pc = "table" => \A p \in Patch : copy[p] = IF p = patch THEN NParsed(rows) ELSE Should(p)
    /\ pc \in {"between", "detail"} =>
         \A p \in Patch : table[p] = IF p = patch THEN NParsed(rows) ELSE Should(p)

IInv == TypeOK /\ ReuseInv /\ CoverInv /\ RerunReuses /\ PassCovers /\ AgreeInv

-----------------------------------------------------------------------------
LEMMA ParsedType == ASSUME NEW r PROVE NParsed(r) \in Nat
  <1>1. IsFiniteSet(1..NRuns)
    BY SemanticAssumption, FS_Interval
  <1>2. IsFiniteSet({i \in Run : r[i] = "good"})
    BY <1>1, FS_Subset DEF Run
  <1> QED  BY <1>2, FS_CardinalityType DEF NParsed

LEMMA RowType == Blank \in [Run -> Row] /\ Absent.rows = Blank /\ CutOff.rows = Blank
  BY DEF Blank, Row, Absent, CutOff

LEMMA InitInv == Init => IInv
  <1> SUFFICES ASSUME Init PROVE IInv
    OBVIOUS
  <1>1. TypeOK
    <2>1. \A p \in Patch : detail[p] \in [kind : {"absent", "cut", "file"}, rows : [Run -> Row]]
      BY RowType DEF Init, Absent
    <2>2. detail \in [Patch -> [kind : {"absent", "cut", "file"}, rows : [Run -> Row]]]
      BY <2>1 DEF Init
    <2>3. rows \in [Run -> Row] /\ tries \in 0..(MaxRetries - 1) /\ sessions \in 0..MaxSessions
      BY RowType, SemanticAssumption DEF Init
    <2>4. spoiled \in BOOLEAN /\ issued \subseteq Patch \X Run
      BY DEF Init
    <2> QED  BY <2>2, <2>3, <2>4 DEF Init, TypeOK, NoRow
  <1>2. ReuseInv /\ CoverInv /\ RerunReuses /\ PassCovers
    BY DEF Init, ReuseInv, CoverInv, RerunReuses, PassCovers, Active, InHand, Writing
  <1>3. AgreeInv
    BY DEF Init, AgreeInv, Should, Writing, Absent
  <1> QED  BY <1>1, <1>2, <1>3 DEF IInv

LEMMA BeginInv == ASSUME IInv, Rerun \/ \E p \in Patch : Evaluate(p) PROVE IInv'
  <1>1. CASE Rerun
    <2>1. TypeOK'
      <3>1. todo' \subseteq Patch /\ sessions' \in 0..MaxSessions
        BY <1>1, SemanticAssumption DEF Rerun, IInv, TypeOK
      <3> QED  BY <1>1, <3>1 DEF Rerun, IInv, TypeOK
    <2>2. ReuseInv' /\ CoverInv' /\ RerunReuses' /\ PassCovers'
      BY <1>1 DEF Rerun, ReuseInv, CoverInv, RerunReuses, PassCovers, Active, InHand, Writing, IInv, TypeOK
    <2>3. AgreeInv'
      BY <1>1 DEF Rerun, IInv, AgreeInv, Should, Resting, Writing
    <2> QED  BY <2>1, <2>2, <2>3 DEF IInv
  <1>2. ASSUME NEW p \in Patch, Evaluate(p)  PROVE IInv'
    <2>1. TypeOK'
      <3>1. rows' \in [Run -> Row] /\ sessions' \in 0..MaxSessions /\ tries' \in 0..(MaxRetries - 1)
        BY <1>2, RowType, SemanticAssumption DEF Evaluate, IInv, TypeOK
      <3> QED  BY <1>2, <3>1 DEF Evaluate, IInv, TypeOK
    <2>2. ReuseInv' /\ CoverInv' /\ RerunReuses' /\ PassCovers'
      BY <1>2 DEF Evaluate, ReuseInv, CoverInv, RerunReuses, PassCovers, Active, InHand, Writing
    <2>3. AgreeInv'
      BY <1>2 DEF Evaluate, IInv, AgreeInv, Should, Resting, Writing
    <2> QED  BY <2>1, <2>2, <2>3 DEF IInv
  <1> QED  BY <1>1, <1>2

LEMMA ScanInv == ASSUME IInv, NEW p \in Patch, Scan(p) PROVE IInv'
  <1>0. /\ pc = "scan" /\ p \in todo /\ todo' = todo \ {p}
        /\ UNCHANGED <<mode, sessions, copy, table, detail, issued, spoiled>>
    BY DEF Scan
  <1>1. CASE pc' = "raised" /\ UNCHANGED <<patch, rows, plan, tries>>
    <2>1. TypeOK'
      BY <1>0, <1>1 DEF IInv, TypeOK
    <2>2. ReuseInv' /\ CoverInv' /\ RerunReuses' /\ PassCovers'
      BY <1>1 DEF ReuseInv, CoverInv, RerunReuses, PassCovers, Active, InHand, Writing
    <2>3. AgreeInv'
      BY <1>0, <1>1 DEF IInv, AgreeInv, Should, Writing
    <2> QED  BY <2>1, <2>2, <2>3 DEF IInv
  <1>2. CASE /\ patch' = p /\ rows' = detail[p].rows /\ tries' = 0
             /\ plan' = {i \in Run : ErrorClass(rows'[i]) \in Rerunnable}
             /\ pc' = IF plan' = {} THEN "scan" ELSE "send"
    <2>1. TypeOK'
      <3>1. rows' \in [Run -> Row] /\ plan' \subseteq Run /\ tries' \in 0..(MaxRetries - 1)
        BY <1>2, SemanticAssumption DEF IInv, TypeOK
      <3> QED  BY <1>0, <1>2, <3>1 DEF IInv, TypeOK
    <2>2. ReuseInv'
      BY <1>0, <1>2 DEF IInv, ReuseInv, Active, InHand, Writing
    <2>3. CoverInv'
      BY <1>0, <1>2 DEF IInv, CoverInv, Active, InHand, Writing
    <2>4. RerunReuses' /\ PassCovers'
      BY <1>0, <1>2 DEF IInv, ReuseInv, RerunReuses, PassCovers, Active, InHand, Writing
    <2>5. AgreeInv'
      BY <1>0, <1>2 DEF IInv, AgreeInv, Should, Writing
    <2> QED  BY <2>1, <2>2, <2>3, <2>4, <2>5 DEF IInv
  <1> QED  BY <1>1, <1>2 DEF Scan

\* A session that stops: at the end of a rerun, by an exception, or killed.
LEMMA StopInv ==
  ASSUME IInv, EndScan \/ Kill \/ (pc = "send" /\ pc' = "raised"
                                   /\ UNCHANGED <<memory, sessions, table, detail, issued, spoiled>>)
  PROVE  IInv'
  <1>0. UNCHANGED <<mode, todo, patch, rows, plan, tries, copy, sessions, table, detail, issued>>
    BY DEF EndScan, Kill, memory
  <1>1. pc' \in {"idle", "ended", "raised"} /\ spoiled' \in BOOLEAN
    BY DEF EndScan, Kill, IInv, TypeOK
  <1>2. TypeOK'
    BY <1>0, <1>1 DEF IInv, TypeOK
  <1>3. ReuseInv' /\ CoverInv' /\ RerunReuses'
    BY <1>1 DEF ReuseInv, CoverInv, RerunReuses, Active, InHand, Writing
  <1>4. PassCovers'
    BY <1>0 DEF EndScan, Kill, IInv, PassCovers, CoverInv, Active, InHand, Writing
  <1>5. AgreeInv'
    BY <1>0, <1>1 DEF EndScan, Kill, IInv, AgreeInv, Should, Writing
  <1> QED  BY <1>2, <1>3, <1>4, <1>5 DEF IInv

LEMMA AnsweredInv ==
  ASSUME IInv, pc = "send", NEW i \in plan, NEW row \in Row, Answered(i, row)
  PROVE  IInv'
  <1>0. /\ rows' = [rows EXCEPT ![i] = row] /\ plan' = plan \ {i} /\ tries' = 0
        /\ issued' = issued \cup {<<patch, i>>} /\ i \in Run /\ patch \in Patch
        /\ UNCHANGED <<pc, mode, sessions, todo, patch, copy, table, detail, spoiled>>
    BY DEF Answered, IInv, TypeOK
  <1>1. rows'[i] = row /\ \A j \in Run : j # i => rows'[j] = rows[j]
    BY <1>0 DEF IInv, TypeOK
  <1>2. TypeOK'
    BY <1>0, SemanticAssumption DEF IInv, TypeOK
  <1>3. ReuseInv'
    BY <1>0 DEF IInv, ReuseInv, Active, InHand, Writing
  <1>4. CoverInv'
    BY <1>0, <1>1 DEF IInv, CoverInv, Active, InHand, Writing
  <1>5. RerunReuses'
    <2>1. mode = "rerun" => ErrorClass(detail[patch].rows[i]) \in Rerunnable
      BY <1>0 DEF IInv, ReuseInv
    <2>2. \A j \in Run : <<patch, j>> \in issued' => j = i \/ <<patch, j>> \in issued
      BY <1>0
    <2> QED  BY <1>0, <1>1, <2>1, <2>2 DEF IInv, RerunReuses, Rerunnable
  <1>6. PassCovers' /\ AgreeInv'
    BY <1>0 DEF IInv, PassCovers, AgreeInv, Should, Writing
  <1> QED  BY <1>2, <1>3, <1>4, <1>5, <1>6 DEF IInv

LEMMA SendInv == ASSUME IInv, Send PROVE IInv'
  <1>1. PICK i \in Sender :
          \/ \E row \in {"good", "parse"} \cup Refused : Answered(i, row)
          \/ /\ tries + 1 < MaxRetries /\ tries' = tries + 1
             /\ UNCHANGED <<pc, mode, sessions, todo, patch, rows, plan, copy, table, detail, issued, spoiled>>
          \/ tries + 1 = MaxRetries /\ \E row \in Transient : Answered(i, row)
          \/ /\ pc' = "raised"
             /\ UNCHANGED <<memory, sessions, table, detail, issued, spoiled>>
    BY DEF Send
  <1>2. i \in plan /\ pc = "send"
    BY DEF Sender, Send
  <1>3. CASE \E row \in Row : Answered(i, row)
    BY <1>2, <1>3, AnsweredInv
  <1>4. CASE /\ tries + 1 < MaxRetries /\ tries' = tries + 1
             /\ UNCHANGED <<pc, mode, sessions, todo, patch, rows, plan, copy, table, detail, issued, spoiled>>
    <2>1. TypeOK'
      BY <1>4, SemanticAssumption DEF IInv, TypeOK
    <2>2. ReuseInv' /\ CoverInv' /\ RerunReuses' /\ PassCovers' /\ AgreeInv'
      BY <1>4 DEF IInv, ReuseInv, CoverInv, RerunReuses, PassCovers, AgreeInv, Should
    <2> QED  BY <2>1, <2>2 DEF IInv
  <1>5. CASE pc' = "raised" /\ UNCHANGED <<memory, sessions, table, detail, issued, spoiled>>
    BY <1>2, <1>5, StopInv
  <1> QED  BY <1>1, <1>3, <1>4, <1>5 DEF Row, ApiError

LEMMA TableInv == ASSUME IInv, BeginTable \/ EndTable \/ BeginDetail PROVE IInv'
  <1>1. CASE BeginTable
    <2>1. /\ pc = "send" /\ plan = {} /\ pc' = "table" /\ copy' = [table EXCEPT ![patch] = NParsed(rows)]
          /\ table' = [p \in Patch |-> NoRow]
          /\ UNCHANGED <<mode, todo, patch, rows, plan, tries, sessions, detail, issued, spoiled>>
      BY <1>1 DEF BeginTable
    <2>2. TypeOK'
      BY <2>1, ParsedType DEF IInv, TypeOK
    <2>3. ReuseInv' /\ CoverInv' /\ RerunReuses' /\ PassCovers'
      BY <2>1 DEF IInv, ReuseInv, CoverInv, RerunReuses, PassCovers, Active, InHand, Writing
    <2>4. AgreeInv'
      BY <2>1 DEF IInv, TypeOK, AgreeInv, Should, Writing
    <2> QED  BY <2>2, <2>3, <2>4 DEF IInv
  <1>2. CASE EndTable
    <2>1. pc = "table" /\ pc' = "between" /\ table' = copy
          /\ UNCHANGED <<mode, todo, patch, rows, plan, tries, copy, sessions, detail, issued, spoiled>>
      BY <1>2 DEF EndTable, memory
    <2>2. TypeOK'
      BY <2>1 DEF IInv, TypeOK
    <2>3. ReuseInv' /\ CoverInv' /\ RerunReuses' /\ PassCovers'
      BY <2>1 DEF IInv, ReuseInv, CoverInv, RerunReuses, PassCovers, Active, InHand, Writing
    <2>4. AgreeInv'
      BY <2>1 DEF IInv, AgreeInv, Should, Writing
    <2> QED  BY <2>2, <2>3, <2>4 DEF IInv
  <1>3. CASE BeginDetail
    <2>1. pc = "between" /\ pc' = "detail" /\ detail' = [detail EXCEPT ![patch] = CutOff]
          /\ UNCHANGED <<mode, todo, patch, rows, plan, tries, copy, sessions, table, issued, spoiled>>
      BY <1>3 DEF BeginDetail, memory
    <2>2. detail'[patch] = CutOff /\ \A p \in Patch : p # patch => detail'[p] = detail[p]
      BY <2>1 DEF IInv, TypeOK
    <2>3. CutOff \in [kind : {"absent", "cut", "file"}, rows : [Run -> Row]]
      BY RowType DEF CutOff
    <2>4. TypeOK'
      BY <2>1, <2>3 DEF IInv, TypeOK
    <2>5. ReuseInv' /\ RerunReuses' /\ PassCovers'
      BY <2>1 DEF IInv, ReuseInv, RerunReuses, PassCovers, Active, InHand, Writing
    <2>6. CoverInv'
      BY <2>1, <2>2 DEF IInv, CoverInv, Active, InHand, Writing
    <2>7. AgreeInv'
      BY <2>1, <2>2 DEF IInv, AgreeInv, Should, Writing
    <2> QED  BY <2>4, <2>5, <2>6, <2>7 DEF IInv
  <1> QED  BY <1>1, <1>2, <1>3

LEMMA EndDetailInv == ASSUME IInv, EndDetail PROVE IInv'
  <1>1. /\ pc = "detail" /\ detail' = [detail EXCEPT ![patch] = File(rows)]
        /\ pc' = IF mode = "rerun" THEN "scan" ELSE "ended"
        /\ UNCHANGED <<mode, todo, patch, rows, plan, tries, copy, sessions, table, issued, spoiled>>
    BY DEF EndDetail, memory
  <1>2. /\ detail'[patch] = File(rows) /\ \A p \in Patch : p # patch => detail'[p] = detail[p]
        /\ File(rows).rows = rows /\ File(rows).kind = "file"
    BY <1>1 DEF IInv, TypeOK, File
  <1>3. File(rows) \in [kind : {"absent", "cut", "file"}, rows : [Run -> Row]]
    BY DEF IInv, TypeOK, File
  <1>4. TypeOK'
    BY <1>1, <1>3 DEF IInv, TypeOK
  <1>5. ReuseInv' /\ RerunReuses' /\ PassCovers'
    BY <1>1 DEF IInv, TypeOK, ReuseInv, RerunReuses, PassCovers, Active, InHand, Writing
  <1>6. CoverInv'
    BY <1>1, <1>2 DEF IInv, TypeOK, ReuseInv, CoverInv, Active, InHand, Writing
  <1>7. AgreeInv'
    BY <1>1, <1>2 DEF IInv, AgreeInv, Should, Writing
  <1> QED  BY <1>4, <1>5, <1>6, <1>7 DEF IInv

LEMMA NextInv == ASSUME IInv, [Next]_vars PROVE IInv'
  <1>1. CASE UNCHANGED vars
    <2>1. TypeOK' /\ ReuseInv' /\ CoverInv'
      BY <1>1 DEF vars, memory, IInv, TypeOK, ReuseInv, CoverInv
    <2>2. RerunReuses' /\ PassCovers' /\ AgreeInv'
      BY <1>1 DEF vars, memory, IInv, RerunReuses, PassCovers, AgreeInv, Should
    <2> QED  BY <2>1, <2>2 DEF IInv
  <1>2. CASE Next
    BY <1>2, BeginInv, ScanInv, StopInv, SendInv, TableInv, EndDetailInv DEF Next, Step
  <1> QED  BY <1>1, <1>2

LEMMA InvHolds == Spec => []IInv
  <1> QED  BY InitInv, NextInv, PTL DEF Spec

\* The state of the programs and their files is always of its type; no call
\* makes more attempts than it may.
THEOREM SemanticTypes == Spec => []TypeOK
  <1>1. IInv => TypeOK
    BY DEF IInv
  <1> QED  BY <1>1, InvHolds, PTL

\* A rerun never touches what answered.
THEOREM RerunKeepsAnswers == Spec => []RerunReuses
  <1>1. IInv => RerunReuses
    BY DEF IInv
  <1> QED  BY <1>1, InvHolds, PTL

\* A rerun that ends has re-issued every call that failed in one of its ways.
THEOREM RerunMissesNone == Spec => []PassCovers
  <1>1. IInv => PassCovers
    BY DEF IInv
  <1> QED  BY <1>1, InvHolds, PTL

\* The table and the detail files agree unless a program was killed inside
\* _write_result.
THEOREM TableIsRight == Spec => []TableAgrees
  <1>1. IInv => TableAgrees
    BY DEF IInv, AgreeInv, TableAgrees, Should, Writing
  <1> QED  BY <1>1, InvHolds, PTL

-----------------------------------------------------------------------------
(***************************************************************************)
(* How a program comes to its end.                                         *)
(***************************************************************************)
\* The steps a program may still take for the patch in hand: the attempts of the
\* runs it has to issue, then the writing; the end of a rerun comes last.
Left ==
  CASE pc = "send"    -> 5 + (MaxRetries * Cardinality(plan) - tries)
    [] pc = "table"   -> 4
    [] pc = "between" -> 3
    [] pc = "detail"  -> 2
    [] pc = "scan"    -> 1
    [] OTHER          -> 0

\* A step of a program takes a detail file off its list, where no step puts one
\* on, or it brings the program closer to the end of what it has in hand, whatever
\* the service answers.
ListRunsOut ==
  [][Step => /\ Left \in Nat /\ Left' \in Nat
             /\ \/ \E p \in todo : todo' = todo \ {p}
                \/ todo' = todo /\ Left' < Left]_vars

\* The attempts are those of a run that is still to be issued.
TriesInv == pc = "send" /\ plan = {} => tries = 0

LEMMA TriesStep == ASSUME IInv, TriesInv, [Next]_vars PROVE TriesInv'
  <1>1. CASE Rerun \/ Kill \/ EndScan \/ BeginTable \/ EndTable \/ BeginDetail \/ EndDetail
    BY <1>1 DEF Rerun, Kill, EndScan, BeginTable, EndTable, BeginDetail, EndDetail, TriesInv
  <1>2. CASE \E p \in Patch : Evaluate(p) \/ Scan(p)
    BY <1>2 DEF Evaluate, Scan, TriesInv
  <1>3. CASE Send
    BY <1>3 DEF Send, Sender, Answered, memory, TriesInv
  <1>4. CASE UNCHANGED vars
    BY <1>4 DEF vars, memory, TriesInv
  <1> QED  BY <1>1, <1>2, <1>3, <1>4 DEF Next, Step

\* The runs are finite in number.
LEMMA PlanFinite ==
  ASSUME NEW P \in SUBSET Run
  PROVE  /\ IsFiniteSet(P) /\ Cardinality(P) \in Nat
         /\ \A i \in P : Cardinality(P \ {i}) = Cardinality(P) - 1 /\ Cardinality(P) > 0
  <1>1. IsFiniteSet(P)
    <2>1. IsFiniteSet(1..NRuns)
      BY SemanticAssumption, FS_Interval
    <2> QED  BY <2>1, FS_Subset DEF Run
  <1>2. \A i \in P : Cardinality(P \ {i}) = Cardinality(P) - 1
    BY <1>1, FS_RemoveElement
  <1>3. \A i \in P : Cardinality(P) > 0
    BY <1>1, FS_EmptySet, FS_CardinalityType
  <1> QED  BY <1>1, <1>2, <1>3, FS_CardinalityType

\* What is left of a patch is a number.
LEMMA SendLeft ==
  ASSUME NEW P \in SUBSET Run, NEW t \in 0..(MaxRetries - 1), P = {} => t = 0
  PROVE  5 + (MaxRetries * Cardinality(P) - t) \in Nat
  <1> DEFINE n == Cardinality(P)
  <1>1. n \in Nat /\ (P # {} => n > 0) /\ MaxRetries \in Nat \ {0}
    BY PlanFinite, SemanticAssumption
  <1> SUFFICES 5 + (MaxRetries * n - t) \in Nat
    OBVIOUS
  <1> HIDE DEF n
  <1>2. MaxRetries * n \in Nat /\ (n > 0 => MaxRetries * n >= MaxRetries)
    BY <1>1
  <1>3. t \in Nat /\ t < MaxRetries
    BY <1>1
  <1>4. CASE P = {}
    BY <1>2, <1>4
  <1>5. CASE P # {}
    BY <1>1, <1>2, <1>3, <1>5
  <1> QED  BY <1>4, <1>5

\* A run that is answered or tried again brings the program closer to the writing.
LEMMA SendLowers == ASSUME IInv, Send PROVE todo' = todo /\ Left' < Left
  <1> DEFINE n == Cardinality(plan)
             m == Cardinality(plan)'
  <1>1. PICK i \in Sender :
          \/ \E row \in {"good", "parse"} \cup Refused : Answered(i, row)
          \/ /\ tries + 1 < MaxRetries /\ tries' = tries + 1
             /\ UNCHANGED <<pc, mode, sessions, todo, patch, rows, plan, copy, table, detail, issued, spoiled>>
          \/ tries + 1 = MaxRetries /\ \E row \in Transient : Answered(i, row)
          \/ /\ pc' = "raised"
             /\ UNCHANGED <<memory, sessions, table, detail, issued, spoiled>>
    BY DEF Send
  <1>2. /\ i \in plan /\ pc = "send" /\ n \in Nat /\ n > 0 /\ MaxRetries \in Nat
        /\ tries \in Nat /\ tries < MaxRetries /\ Cardinality(plan \ {i}) = n - 1
    BY <1>1, PlanFinite, SemanticAssumption DEF Send, Sender, IInv, TypeOK
  <1>3. Left = 5 + (MaxRetries * n - tries)
    BY <1>2 DEF Left
  <1>4. CASE \E row \in Row : Answered(i, row)
    <2>1. todo' = todo /\ pc' = "send" /\ tries' = 0 /\ m = n - 1
      BY <1>2, <1>4 DEF Answered
    <2>2. Left' = 5 + (MaxRetries * m - 0)
      BY <2>1 DEF Left
    <2> HIDE DEF n, m
    <2>3. MaxRetries * m = MaxRetries * n - MaxRetries /\ MaxRetries * n \in Nat
      BY <1>2, <2>1
    <2> QED  BY <1>2, <1>3, <2>1, <2>2, <2>3
  <1>5. CASE tries' = tries + 1 /\ UNCHANGED <<pc, todo, plan>>
    <2>1. Left' = 5 + (MaxRetries * n - (tries + 1))
      BY <1>2, <1>5 DEF Left
    <2> HIDE DEF n
    <2>2. MaxRetries * n \in Nat
      BY <1>2
    <2> QED  BY <1>2, <1>3, <1>5, <2>1, <2>2
  <1>6. CASE pc' = "raised" /\ UNCHANGED memory
    <2>1. Left' = 0 /\ todo' = todo
      BY <1>6 DEF Left, memory
    <2> HIDE DEF n
    <2>2. MaxRetries * n \in Nat /\ MaxRetries * n >= MaxRetries
      BY <1>2
    <2> QED  BY <1>2, <1>3, <2>1, <2>2
  <1> QED  BY <1>1, <1>4, <1>5, <1>6 DEF Row, ApiError

\* Every step of a program uses up part of the work it set out with.
THEOREM ProgramsRunOutOfWork == Spec => ListRunsOut
  <1> DEFINE UsesUp ==
        Step => /\ Left \in Nat /\ Left' \in Nat
                /\ \/ \E p \in todo : todo' = todo \ {p}
                   \/ todo' = todo /\ Left' < Left
  <1>1. ASSUME IInv, TriesInv, IInv', TriesInv' PROVE UsesUp
    <2> SUFFICES ASSUME Step
                 PROVE  /\ Left \in Nat /\ Left' \in Nat
                        /\ \/ \E p \in todo : todo' = todo \ {p}
                           \/ todo' = todo /\ Left' < Left
      OBVIOUS
    <2>1. Left \in Nat
      BY <1>1, SendLeft DEF IInv, TypeOK, TriesInv, Left
    <2>2. Left' \in Nat
      BY <1>1, SendLeft DEF IInv, TypeOK, TriesInv, Left
    <2>3. CASE Send
      BY <1>1, <2>1, <2>2, <2>3, SendLowers
    <2>4. CASE \E p \in Patch : Scan(p)
      BY <2>1, <2>2, <2>4 DEF Scan
    <2>5. CASE BeginTable
      <3>1. pc = "send" /\ plan = {} /\ tries = 0 /\ pc' = "table" /\ todo' = todo
        BY <1>1, <2>5 DEF BeginTable, TriesInv
      <3>2. Left = 5
        BY <3>1, FS_EmptySet, SemanticAssumption DEF Left
      <3>3. Left' = 4
        BY <3>1 DEF Left
      <3> QED  BY <3>1, <3>2, <3>3
    <2>6. CASE EndScan \/ EndTable \/ BeginDetail \/ EndDetail
      BY <2>6 DEF EndScan, EndTable, BeginDetail, EndDetail, memory, Left
    <2> QED  BY <2>1, <2>2, <2>3, <2>4, <2>5, <2>6 DEF Step
  <1>2. IInv /\ TriesInv /\ IInv' /\ TriesInv' => [UsesUp]_vars
    BY <1>1
  <1>3. Init => TriesInv
    BY DEF Init, TriesInv
  <1> QED  BY <1>2, <1>3, TriesStep, InvHolds, PTL DEF Spec, ListRunsOut

\* The guards of a program's steps.
CanStep ==
  \/ pc = "scan" \/ pc \in Writing
  \/ pc = "send" /\ (plan = {} \/ Sender # {})

\* A program that has not ended can go on: there is always a next run, a next file
\* or a next write.
NeverStuck == ~Resting => CanStep

\* There is a least run among those to issue.
LEMMA LeastRun == ASSUME NEW P \in SUBSET Run, P # {} PROVE \E i \in P : \A j \in P : i <= j
  <1> DEFINE Upto(i) == {j \in P : j <= i}
             F == {Upto(i) : i \in P}
  <1>1. IsFiniteSet(P) /\ P \subseteq Nat
    BY PlanFinite, SemanticAssumption DEF Run
  <1>2. IsWellFoundedOn(StrictSubsetOrdering(P), FiniteSubsetsOf(P))
    BY <1>1, FS_StrictSubsetOrderingWellFounded
  <1>3. F \subseteq FiniteSubsetsOf(P) /\ F # {}
    <2>1. FiniteSubsetsOf(P) = SUBSET P
      BY <1>1, FS_FiniteSubsetsOfFinite
    <2>2. \A i \in P : Upto(i) \in SUBSET P
      OBVIOUS
    <2>3. F \subseteq SUBSET P
      BY <2>2
    <2>4. F # {}
      OBVIOUS
    <2> QED  BY <2>1, <2>3, <2>4
  <1>4. PICK T \in F : \A U \in F : <<U, T>> \notin StrictSubsetOrdering(P)
    BY <1>2, <1>3, WFMin
  <1>5. PICK i \in P : T = Upto(i)
    BY <1>4
  <1>6. ASSUME NEW j \in P, j < i PROVE FALSE
    <2>1. Upto(j) \subseteq T /\ Upto(j) # T /\ Upto(j) \in F
      BY <1>1, <1>5, <1>6
    <2>2. Upto(j) \in SUBSET P /\ T \in SUBSET P
      BY <1>5
    <2> QED  BY <1>4, <2>1, <2>2 DEF StrictSubsetOrdering
  <1> QED  BY <1>1, <1>6

\* No program is ever stuck: it has ended, or it can take its next step.
THEOREM ProgramsNeverStuck == Spec => []NeverStuck
  <1>1. TypeOK => NeverStuck
    BY LeastRun DEF TypeOK, NeverStuck, CanStep, Resting, Writing, Sender
  <1> QED  BY <1>1, SemanticTypes, PTL

=============================================================================
