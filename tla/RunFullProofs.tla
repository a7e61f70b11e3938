--------------------------- MODULE RunFullProofs ---------------------------
(***************************************************************************)
(* What TLAPS proves of RunFull, for every value of its constants.         *)
(***************************************************************************)
EXTENDS RunFull, FiniteSetTheorems, TLAPS

-----------------------------------------------------------------------------
\* TypeOK is not inductive: which CSV a result is for, and that a job at the
\* stages has a patch, depend on the label of the job.
Results ==
  \A b \in Bug : /\ pc[b] \in {"rowLock", "rowWrite"} => result[b] \in RowState
                 /\ pc[b] \in {"prowLock", "prowWrite"} => result[b] \in PRowState

TypeInv == TypeOK /\ Results

LEMMA LogTypes ==
  /\ NoLog \in CkptType
  /\ NewLog \in CkptType
  /\ [NewLog EXCEPT !.term = "checkout_bug"] \in CkptType
  BY DEF NoLog, NewLog, CkptType, Term, SemRes, ArmRes

LEMMA LogUpdates ==
  ASSUME NEW c \in CkptType
  PROVE  /\ \A t \in Term : [c EXCEPT !.term = t] \in CkptType
         /\ \A t \in Term, r \in BOOLEAN : [c EXCEPT !.term = t, !.raised = r] \in CkptType
         /\ \A r \in BOOLEAN : [c EXCEPT !.raised = r] \in CkptType
         /\ \A o \in SemRes : [c EXCEPT !.sem = o] \in CkptType
         /\ \A o \in ArmRes : [c EXCEPT !.cex = o] \in CkptType
         /\ \A o \in ArmRes : [c EXCEPT !.memo = o] \in CkptType
         /\ \A r, s \in BOOLEAN : [c EXCEPT !.raised = r, !.complete = s] \in CkptType
  BY DEF CkptType

LEMMA InitType == Init => TypeInv
<1> SUFFICES ASSUME Init PROVE TypeInv
  OBVIOUS
<1>1. /\ ckpt \in [Patch -> CkptType]
      /\ row \in [Bug -> RowState] /\ prow \in [Patch -> PRowState]
      /\ buggy \in [Bug -> TreeState] /\ fixed \in [Bug -> TreeState]
  BY ConstantsAssumption DEF Init, DiskType
<1>2. /\ proc \in {"down", "running", "exited"}
      /\ sel \subseteq Patch
      /\ lock \in Bug \cup {NoBug}
      /\ done \in Nat /\ failed \in Nat
  BY DEF Init
<1>6. retry \in BOOLEAN /\ abort \in BOOLEAN
  BY DEF Init
<1>7. starts \in 0..MaxStarts /\ raises \in 0..MaxRaises
  BY ConstantsAssumption DEF Init
<1>3. /\ pc \in [Bug -> Labels]
      /\ todo \in [Bug -> SUBSET Patch]
      /\ cur \in [Bug -> Patch \cup {NoPatch}]
      /\ log \in [Bug -> CkptType]
  BY LogTypes DEF Init, All, Labels
<1>4. /\ result \in [Bug -> RowState \cup PRowState]
      /\ rsnap \in [Bug -> [Bug -> RowState]]
      /\ psnap \in [Bug -> [Patch -> PRowState]]
  BY DEF Init, All, NoRows, NoPRows, RowState, PRowState
<1>5. Results
  BY DEF Init, All, Results
<1> QED
  BY <1>1, <1>2, <1>3, <1>4, <1>5, <1>6, <1>7 DEF TypeInv, TypeOK

LEMMA StartType == ASSUME TypeInv, NEW s \in Selections, NEW r \in Retries, Start(s, r) PROVE TypeInv'
<1>1. done' \in Nat
  <2>1. {p \in s : ~IsPending(ckpt[p], r)} \subseteq Patch
    BY ConstantsAssumption
  <2>2. IsFiniteSet({p \in s : ~IsPending(ckpt[p], r)})
    BY <2>1, ConstantsAssumption, FS_Subset
  <2> QED
    BY <2>2, FS_CardinalityType DEF Start
<1>2. proc' \in {"down", "running", "exited"} /\ sel' \subseteq Patch /\ failed' \in Nat
  BY ConstantsAssumption DEF Start
<1>3. retry' \in BOOLEAN /\ abort' \in BOOLEAN
  BY ConstantsAssumption DEF Start
<1>4. starts' \in 0..MaxStarts
  BY ConstantsAssumption DEF TypeInv, TypeOK, Start
<1>5. /\ pc' \in [Bug -> Labels]
      /\ todo' \in [Bug -> SUBSET Patch]
      /\ cur' \in [Bug -> Patch \cup {NoPatch}]
      /\ log' \in [Bug -> CkptType]
  BY LogTypes DEF Start, ForgetJobs, All, Labels
<1>6. /\ result' \in [Bug -> RowState \cup PRowState]
      /\ rsnap' \in [Bug -> [Bug -> RowState]]
      /\ psnap' \in [Bug -> [Patch -> PRowState]]
  BY DEF Start, ForgetJobs, All, NoRows, NoPRows, RowState, PRowState
<1>7. Results'
  BY DEF Start, Results
<1> QED
  BY <1>1, <1>2, <1>3, <1>4, <1>5, <1>6, <1>7 DEF TypeInv, TypeOK, Start, disk

LEMMA GotoType ==
  ASSUME NEW b \in Bug, NEW l \in Labels, pc \in [Bug -> Labels], Goto(b, l)
  PROVE  pc' \in [Bug -> Labels]
  BY DEF Goto

LEMMA BeginType == ASSUME TypeInv, NEW b \in Bug, Begin(b) PROVE TypeInv'
<1>1. pc' \in [Bug -> Labels]
  BY DEF TypeInv, TypeOK, Begin, Goto, Labels
<1>2. todo' \in [Bug -> SUBSET Patch]
  <2>1. {p \in PatchesOf(b) : IsPending(ckpt[p], retry)} \in SUBSET Patch
    BY DEF PatchesOf, TypeInv, TypeOK
  <2> QED
    BY <2>1 DEF TypeInv, TypeOK, Begin
<1>3. Results'
  BY DEF TypeInv, TypeOK, Results, Begin, Goto
<1> QED
  BY <1>1, <1>2, <1>3 DEF TypeInv, TypeOK, Begin, disk, pass, count

LEMMA CheckoutType ==
  ASSUME TypeInv, NEW b \in Bug,
         Reuse(b) \/ StartBuggy(b) \/ EndBuggy(b) \/ StartFixed(b) \/ EndFixed(b)
  PROVE  TypeInv'
<1>1. pc' \in [Bug -> Labels]
  <2>1. \E l \in Labels : Goto(b, l)
    BY DEF Labels, Reuse, StartBuggy, EndBuggy, StartFixed, EndFixed
  <2> QED
    BY <2>1, GotoType DEF TypeInv, TypeOK
<1>2. buggy' \in [Bug -> TreeState] /\ fixed' \in [Bug -> TreeState]
  BY DEF TypeInv, TypeOK, TreeState, disk, Reuse, StartBuggy, EndBuggy, StartFixed, EndFixed
<1>3. result' \in [Bug -> RowState \cup PRowState]
  BY DEF TypeInv, TypeOK, RowState, Reuse, StartBuggy, EndBuggy, StartFixed, EndFixed
<1>4. Results'
  BY DEF TypeInv, TypeOK, Results, RowState, Goto, Reuse, StartBuggy, EndBuggy, StartFixed, EndFixed
<1>5. UNCHANGED <<ckpt, row, prow, pass, count, abort, lock, todo, cur, log, rsnap, psnap>>
  BY DEF disk, Reuse, StartBuggy, EndBuggy, StartFixed, EndFixed
<1> QED
  BY <1>1, <1>2, <1>3, <1>4, <1>5 DEF TypeInv, TypeOK, pass, count

LEMMA ReadType ==
  ASSUME TypeInv, NEW b \in Bug, ReadRows(b) \/ ReadPatchRows(b)
  PROVE  TypeInv'
<1>1. pc' \in [Bug -> Labels]
  BY DEF TypeInv, TypeOK, Goto, Labels, ReadRows, ReadPatchRows
<1>2. lock' \in Bug \cup {NoBug}
  BY DEF ReadRows, ReadPatchRows
<1>3. rsnap' \in [Bug -> [Bug -> RowState]] /\ psnap' \in [Bug -> [Patch -> PRowState]]
  BY DEF TypeInv, TypeOK, ReadRows, ReadPatchRows
<1>4. Results'
  BY DEF TypeInv, TypeOK, Results, Goto, ReadRows, ReadPatchRows
<1>5. UNCHANGED <<disk, pass, count, abort, todo, cur, log, result>>
  BY DEF ReadRows, ReadPatchRows
<1> QED
  BY <1>1, <1>2, <1>3, <1>4, <1>5 DEF TypeInv, TypeOK, disk, pass, count

LEMMA ReplaceRowsType == ASSUME TypeInv, NEW b \in Bug, ReplaceRows(b) PROVE TypeInv'
<1>1. pc' \in [Bug -> Labels]
  BY DEF TypeInv, TypeOK, Goto, Labels, ReplaceRows
<1>2. rsnap' \in [Bug -> [Bug -> RowState]]
  <2>1. NoRows \in [Bug -> RowState]
    BY DEF NoRows, RowState
  <2> QED
    BY <2>1 DEF TypeInv, TypeOK, ReplaceRows
<1>3. row' \in [Bug -> RowState]
  <2>1. result[b] \in RowState /\ rsnap[b] \in [Bug -> RowState]
    BY DEF TypeInv, TypeOK, Results, ReplaceRows
  <2> QED
    BY <2>1 DEF ReplaceRows
<1>4. result' \in [Bug -> RowState \cup PRowState]
  BY DEF TypeInv, TypeOK, RowState, ReplaceRows
<1>5. Results'
  BY DEF TypeInv, TypeOK, Results, Goto, ReplaceRows
<1> QED
  BY <1>1, <1>2, <1>3, <1>4, <1>5 DEF TypeInv, TypeOK, ReplaceRows, pass, count

LEMMA ReplacePatchRowsType == ASSUME TypeInv, NEW b \in Bug, ReplacePatchRows(b) PROVE TypeInv'
<1>1. pc' \in [Bug -> Labels]
  <2>1. \E l \in Labels : Goto(b, l)
    BY DEF Labels, ReplacePatchRows
  <2> QED
    BY <2>1, GotoType DEF TypeInv, TypeOK
<1>2. psnap' \in [Bug -> [Patch -> PRowState]]
  <2>1. NoPRows \in [Patch -> PRowState]
    BY DEF NoPRows, PRowState
  <2> QED
    BY <2>1 DEF TypeInv, TypeOK, ReplacePatchRows
<1>3. prow' \in [Patch -> PRowState]
  <2>1. result[b] \in PRowState /\ psnap[b] \in [Patch -> PRowState]
    BY DEF TypeInv, TypeOK, Results, ReplacePatchRows
  <2> QED
    BY <2>1 DEF ReplacePatchRows
<1>4. result' \in [Bug -> RowState \cup PRowState]
  BY DEF TypeInv, TypeOK, RowState, ReplacePatchRows
<1>5. Results'
  BY DEF TypeInv, TypeOK, Results, Goto, ReplacePatchRows
<1>6. log' \in [Bug -> CkptType]
  <2>1. [log[b] EXCEPT !.term = "apply_patch"] \in CkptType
    BY LogUpdates DEF TypeInv, TypeOK, Term
  <2> QED
    BY <2>1 DEF TypeInv, TypeOK, ReplacePatchRows
<1>7. lock' = NoBug
  BY DEF ReplacePatchRows
<1>8. UNCHANGED <<ckpt, row, buggy, fixed, pass, count, abort, todo, cur, rsnap>>
  BY DEF ReplacePatchRows
<1> QED
  BY <1>1, <1>2, <1>3, <1>4, <1>5, <1>6, <1>7, <1>8 DEF TypeInv, TypeOK, pass, count

LEMMA ApplyType == ASSUME TypeInv, NEW b \in Bug, Apply(b) PROVE TypeInv'
<1>1. pc' \in [Bug -> Labels]
  <2>1. \E l \in Labels : Goto(b, l)
    BY DEF Labels, Apply
  <2> QED
    BY <2>1, GotoType DEF TypeInv, TypeOK
<1>2. result' \in [Bug -> RowState \cup PRowState]
  BY DEF TypeInv, TypeOK, PRowState, Apply
<1>3. Results'
  BY DEF TypeInv, TypeOK, Results, Goto, Apply, PRowState
<1>4. log' \in [Bug -> CkptType]
  <2>1. [log[b] EXCEPT !.term = "apply_patch", !.raised = TRUE] \in CkptType
    BY LogUpdates DEF TypeInv, TypeOK, Term
  <2> QED
    BY <2>1 DEF TypeInv, TypeOK, Apply
<1>5. UNCHANGED <<disk, pass, count, abort, lock, todo, cur, rsnap, psnap>>
  BY DEF Apply
<1> QED
  BY <1>1, <1>2, <1>3, <1>4, <1>5 DEF TypeInv, TypeOK, disk, pass, count

\* The steps that take a patch in hand, or put it down.
LEMMA PatchType ==
  ASSUME TypeInv, NEW b \in Bug, FailCheckout(b) \/ NextPatch(b) \/ Bump(b)
  PROVE  TypeInv'
<1>1. pc' \in [Bug -> Labels]
  BY DEF TypeInv, TypeOK, Goto, Labels, FailCheckout, NextPatch, Bump
<1>2. todo' \in [Bug -> SUBSET Patch]
  <2>1. todo' = todo \/ \E p \in Patch : todo' = [todo EXCEPT ![b] = todo[b] \ {p}]
    BY DEF TypeInv, TypeOK, FailCheckout, NextPatch, Bump
  <2>2. CASE todo' = todo
    BY <2>2 DEF TypeInv, TypeOK
  <2>3. CASE \E p \in Patch : todo' = [todo EXCEPT ![b] = todo[b] \ {p}]
    <3>1. PICK p \in Patch : todo' = [todo EXCEPT ![b] = todo[b] \ {p}]
      BY <2>3
    <3>2. todo \in [Bug -> SUBSET Patch] /\ todo[b] \ {p} \in SUBSET Patch
      BY DEF TypeInv, TypeOK
    <3> QED
      BY <3>1, <3>2
  <2> QED
    BY <2>1, <2>2, <2>3
<1>7. cur' \in [Bug -> Patch \cup {NoPatch}]
  <2>1. cur' = cur \/ \E p \in Patch \cup {NoPatch} : cur' = [cur EXCEPT ![b] = p]
    BY DEF TypeInv, TypeOK, FailCheckout, NextPatch, Bump
  <2> QED
    BY <2>1 DEF TypeInv, TypeOK
<1>3. log' \in [Bug -> CkptType]
  BY LogTypes DEF TypeInv, TypeOK, FailCheckout, NextPatch, Bump
<1>4. done' \in Nat /\ failed' \in Nat
  BY DEF TypeInv, TypeOK, count, FailCheckout, NextPatch, Bump
<1>5. Results'
  BY DEF TypeInv, TypeOK, Results, Goto, FailCheckout, NextPatch, Bump
<1>6. UNCHANGED <<disk, pass, abort, lock, result, rsnap, psnap>>
  BY DEF FailCheckout, NextPatch, Bump
<1> QED
  BY <1>1, <1>2, <1>3, <1>4, <1>5, <1>6, <1>7 DEF TypeInv, TypeOK, disk, pass

LEMMA Stage2bLog ==
  ASSUME TypeInv, NEW b \in Bug, Stage2b(b)
  PROVE  \E r \in BOOLEAN, s \in BOOLEAN :
           log' = [log EXCEPT ![b] = [log[b] EXCEPT !.raised = r, !.complete = s]]
<1>1. PICK o \in AuxOut :
        LET bad == log[b].raised \/ o = "raised" IN
        log' = [log EXCEPT ![b].raised = bad, ![b].complete = ~bad /\ ArmsReal(log[b])]
  BY DEF Stage2b
<1> DEFINE bad == log[b].raised \/ o = "raised"
           cmp == ~bad /\ ArmsReal(log[b])
<1>2. bad \in BOOLEAN /\ cmp \in BOOLEAN
  OBVIOUS
<1>3. log' = [log EXCEPT ![b] = [log[b] EXCEPT !.raised = bad, !.complete = cmp]]
  BY <1>1 DEF TypeInv, TypeOK
<1> QED
  BY <1>2, <1>3

LEMMA StageType ==
  ASSUME TypeInv, NEW b \in Bug,
         Fingerprint(b) \/ Semantic(b) \/ Counterexample(b) \/ Memorization(b) \/ Stage2b(b)
  PROVE  TypeInv'
<1>1. pc' \in [Bug -> Labels]
  BY DEF TypeInv, TypeOK, Goto, Labels, Raised, StopOnBilling,
         Fingerprint, Semantic, Counterexample, Memorization, Stage2b
<1>2. abort' \in BOOLEAN
  BY DEF TypeInv, TypeOK, Raised, StopOnBilling,
         Fingerprint, Semantic, Counterexample, Memorization, Stage2b
<1>3. log' \in [Bug -> CkptType]
  <2>1. PICK c \in CkptType : log' = [log EXCEPT ![b] = c]
    <3> SUFFICES \E c \in CkptType : log' = [log EXCEPT ![b] = c]
      OBVIOUS
    <3> log[b] \in CkptType /\ log = [log EXCEPT ![b] = log[b]]
      BY DEF TypeInv, TypeOK
    <3>1. CASE log' = log
      BY <3>1
    <3>2. CASE \E o \in SemRes : log' = [log EXCEPT ![b].sem = o]
      BY <3>2, LogUpdates
    <3>3. CASE \E o \in ArmRes : log' = [log EXCEPT ![b].cex = o] \/ log' = [log EXCEPT ![b].memo = o]
      BY <3>3, LogUpdates
    <3>4. CASE log' = [log EXCEPT ![b].raised = TRUE]
      BY <3>4, LogUpdates
    <3>5. CASE Stage2b(b)
      <4>1. PICK r \in BOOLEAN, s \in BOOLEAN :
              log' = [log EXCEPT ![b] = [log[b] EXCEPT !.raised = r, !.complete = s]]
        BY <3>5, Stage2bLog
      <4> QED
        BY <4>1, LogUpdates
    <3>6. CASE Fingerprint(b)
      BY <3>6, <3>1, <3>4 DEF Fingerprint, Raised
    <3>7. CASE Semantic(b)
      BY <3>7, <3>1, <3>2, <3>4, ConstantsAssumption DEF Semantic, Raised, StopOnBilling, SemRes
    <3>8. CASE Counterexample(b)
      BY <3>8, <3>1, <3>3, <3>4, ConstantsAssumption DEF Counterexample, Raised, StopOnBilling, ArmRes
    <3>9. CASE Memorization(b)
      BY <3>9, <3>1, <3>3, <3>4, ConstantsAssumption DEF Memorization, Raised, StopOnBilling, ArmRes
    <3> QED
      BY <3>5, <3>6, <3>7, <3>8, <3>9
  <2> QED
    BY <2>1 DEF TypeInv, TypeOK
<1>4. Results'
  BY DEF TypeInv, TypeOK, Results, Goto, Raised, StopOnBilling,
         Fingerprint, Semantic, Counterexample, Memorization, Stage2b
<1>5. UNCHANGED <<disk, pass, count, lock, todo, cur, result, rsnap, psnap>>
  BY DEF Fingerprint, Semantic, Counterexample, Memorization, Stage2b
<1> QED
  BY <1>1, <1>2, <1>3, <1>4, <1>5 DEF TypeInv, TypeOK, disk, pass, count

LEMMA WriteType == ASSUME TypeInv, NEW b \in Bug, WriteCheckpoint(b) PROVE TypeInv'
<1>1. pc' \in [Bug -> Labels] /\ Results'
  BY DEF TypeInv, TypeOK, Results, Goto, Labels, WriteCheckpoint
<1>2. ckpt' \in [Patch -> CkptType]
  BY DEF TypeInv, TypeOK, WriteCheckpoint
<1> QED
  BY <1>1, <1>2 DEF TypeInv, TypeOK, WriteCheckpoint, files, pass, count

LEMMA RaiseType ==
  ASSUME TypeInv, NEW b \in Bug, RaiseInStage(b) \/ RaiseInJob(b)
  PROVE  TypeInv'
<1>1. pc' \in [Bug -> Labels] /\ Results'
  BY DEF TypeInv, TypeOK, Results, Goto, Labels, RaiseInStage, RaiseInJob
<1>2. lock' \in Bug \cup {NoBug}
  BY DEF TypeInv, TypeOK, RaiseInStage, RaiseInJob
<1>0. NoRows \in [Bug -> RowState] /\ NoPRows \in [Patch -> PRowState]
  BY DEF NoRows, NoPRows, RowState, PRowState
<1>3. rsnap' \in [Bug -> [Bug -> RowState]]
  BY <1>0 DEF TypeInv, TypeOK, RaiseInStage, RaiseInJob
<1>4. psnap' \in [Bug -> [Patch -> PRowState]]
  BY <1>0 DEF TypeInv, TypeOK, RaiseInStage, RaiseInJob
<1>5. result' \in [Bug -> RowState \cup PRowState]
  BY DEF TypeInv, TypeOK, RowState, RaiseInStage, RaiseInJob
<1>6. log' \in [Bug -> CkptType]
  <2>1. [log[b] EXCEPT !.term = "apply_patch", !.raised = TRUE] \in CkptType
    BY LogUpdates DEF TypeInv, TypeOK, Term
  <2> QED
    BY <2>1 DEF TypeInv, TypeOK, RaiseInStage, RaiseInJob
<1>7. raises' \in 0..MaxRaises
  BY ConstantsAssumption DEF TypeInv, TypeOK, RaiseInStage, RaiseInJob
<1>8. UNCHANGED <<disk, proc, retry, sel, starts, count, abort, todo, cur>>
  BY DEF RaiseInStage, RaiseInJob
<1> QED
  BY <1>1, <1>2, <1>3, <1>4, <1>5, <1>6, <1>7, <1>8 DEF TypeInv, TypeOK, disk, count

LEMMA StopType == ASSUME TypeInv, Exit \/ Kill PROVE TypeInv'
<1>1. CASE Exit
  BY <1>1 DEF TypeInv, TypeOK, Results, Exit, disk, count
<1>2. CASE Kill
  <2>1. /\ pc' \in [Bug -> Labels]
        /\ todo' \in [Bug -> SUBSET Patch]
        /\ cur' \in [Bug -> Patch \cup {NoPatch}]
        /\ log' \in [Bug -> CkptType]
    BY <1>2, LogTypes DEF Kill, ForgetJobs, All, Labels
  <2>2. /\ result' \in [Bug -> RowState \cup PRowState]
        /\ rsnap' \in [Bug -> [Bug -> RowState]]
        /\ psnap' \in [Bug -> [Patch -> PRowState]]
    BY <1>2 DEF Kill, ForgetJobs, All, NoRows, NoPRows, RowState, PRowState
  <2>3. Results'
    BY <1>2 DEF Kill, All, Results
  <2> QED
    BY <1>2, <2>1, <2>2, <2>3 DEF TypeInv, TypeOK, Kill, disk
<1> QED
  BY <1>1, <1>2

LEMMA NextType == TypeInv /\ [Next]_vars => TypeInv'
<1> SUFFICES ASSUME TypeInv, [Next]_vars PROVE TypeInv'
  OBVIOUS
<1>1. CASE \E s \in Selections, r \in Retries : Start(s, r)
  BY <1>1, StartType
<1>2. ASSUME NEW b \in Bug, JobStep(b) \/ RaiseInStage(b) \/ RaiseInJob(b) PROVE TypeInv'
  BY <1>2, BeginType, CheckoutType, ReadType, ReplaceRowsType, ReplacePatchRowsType, ApplyType,
     PatchType, StageType, WriteType, RaiseType DEF JobStep
<1>3. CASE Exit \/ Kill
  BY <1>3, StopType
<1>4. CASE UNCHANGED vars
  BY <1>4 DEF TypeInv, TypeOK, Results, vars, disk, pass, count
<1> QED
  BY <1>1, <1>2, <1>3, <1>4 DEF Next

\* Every variable of the orchestrator stays in its type.
THEOREM TypeCorrect == Spec => []TypeOK
<1>1. Init => TypeInv
  BY InitType
<1>2. TypeInv /\ [Next]_vars => TypeInv'
  BY NextType
<1>3. TypeInv => TypeOK
  BY DEF TypeInv
<1> QED
  BY <1>1, <1>2, <1>3, PTL DEF Spec

-----------------------------------------------------------------------------
(***************************************************************************)
(* The inductive invariant.  JobInv: a job only ever holds pending patches *)
(* of its own bug, so what it read when it was given them is still true    *)
(* when it writes; and the log it writes is honest.  CsvInv: the job that  *)
(* rewrites a CSV holds the lock and its copy is the file.                 *)
(***************************************************************************)
JobInv(b) ==
  /\ \A p \in todo[b] : p \in sel /\ BugOf[p] = b /\ IsPending(ckpt[p], retry)
  /\ pc[b] \in InHand =>
       cur[b] \in Patch /\ cur[b] \in sel /\ BugOf[cur[b]] = b /\ cur[b] \notin todo[b]
  /\ pc[b] \in InHand \ {"bump"} => IsPending(ckpt[cur[b]], retry)
  /\ pc[b] \in Pipeline =>
       /\ log[b].kind = "log" /\ log[b].term = "none"
       /\ ~log[b].complete /\ ~HasBilling(log[b])
  /\ pc[b] = "write" => Honest(log[b])

CsvInv(b) ==
  /\ pc[b] = "rowWrite" => lock = b /\ rsnap[b] = row
  /\ pc[b] = "prowWrite" => lock = b /\ psnap[b] = prow
  /\ pc[b] \in Pipeline \cup {"next"} => row[b] = "available"
  /\ pc[b] \in {"write", "bump"} /\ log[b].term # "checkout_bug" => row[b] = "available"

IInv == TypeInv /\ (\A b \in Bug : JobInv(b)) /\ (\A b \in Bug : CsvInv(b))

\* A step of one job leaves the local variables of the others alone.
Elsewhere(b) ==
  \A c \in Bug \ {b} : /\ pc'[c] = pc[c] /\ todo'[c] = todo[c] /\ cur'[c] = cur[c]
                        /\ log'[c] = log[c] /\ result'[c] = result[c]
                        /\ rsnap'[c] = rsnap[c] /\ psnap'[c] = psnap[c]

LEMMA StepsAreLocal ==
  ASSUME TypeInv, NEW b \in Bug, JobStep(b) \/ RaiseInStage(b) \/ RaiseInJob(b)
  PROVE  Elsewhere(b)
<1> USE DEF TypeInv, TypeOK, Elsewhere, Goto
<1>1. CASE Begin(b) \/ Reuse(b) \/ StartBuggy(b) \/ EndBuggy(b) \/ StartFixed(b) \/ EndFixed(b)
  BY <1>1 DEF Begin, Reuse, StartBuggy, EndBuggy, StartFixed, EndFixed
<1>2. CASE ReadRows(b) \/ ReplaceRows(b) \/ ReadPatchRows(b)
  BY <1>2 DEF ReadRows, ReplaceRows, ReadPatchRows
<1>3. CASE ReplacePatchRows(b)
  BY <1>3 DEF ReplacePatchRows
<1>4. CASE FailCheckout(b) \/ NextPatch(b)
  BY <1>4 DEF FailCheckout, NextPatch
<1>5. CASE Apply(b) \/ Fingerprint(b) \/ Stage2b(b)
  BY <1>5 DEF Apply, Fingerprint, Stage2b, Raised
<1>6. CASE Semantic(b) \/ Counterexample(b) \/ Memorization(b)
  BY <1>6 DEF Semantic, Counterexample, Memorization, Raised, StopOnBilling
<1>7. CASE WriteCheckpoint(b) \/ Bump(b)
  BY <1>7 DEF WriteCheckpoint, Bump
<1>8. CASE RaiseInStage(b) \/ RaiseInJob(b)
  BY <1>8 DEF RaiseInStage, RaiseInJob
<1> QED
  BY <1>1, <1>2, <1>3, <1>4, <1>5, <1>6, <1>7, <1>8 DEF JobStep

\* Only Start changes the flags of the pass, and only WriteCheckpoint a
\* checkpoint, that of the patch its job holds.
LEMMA CkptStep ==
  ASSUME NEW b \in Bug, JobStep(b) \/ RaiseInStage(b) \/ RaiseInJob(b)
  PROVE  /\ UNCHANGED <<retry, sel>>
         /\ UNCHANGED ckpt \/ WriteCheckpoint(b)
  BY DEF JobStep, Begin, Reuse, StartBuggy, EndBuggy, StartFixed, EndFixed, ReadRows, ReplaceRows,
         FailCheckout, NextPatch, Apply, ReadPatchRows, ReplacePatchRows, Fingerprint, Semantic,
         Counterexample, Memorization, Stage2b, WriteCheckpoint, Bump, RaiseInStage, RaiseInJob,
         disk, pass

LEMMA OtherJobs ==
  ASSUME IInv, NEW b \in Bug, JobStep(b) \/ RaiseInStage(b) \/ RaiseInJob(b), NEW c \in Bug \ {b}
  PROVE  JobInv(c)'
<1>1. /\ pc'[c] = pc[c] /\ todo'[c] = todo[c] /\ cur'[c] = cur[c] /\ log'[c] = log[c]
      /\ UNCHANGED <<retry, sel>>
  BY StepsAreLocal, CkptStep DEF Elsewhere, IInv
<1>2. \A p \in Patch : BugOf[p] = c => ckpt'[p] = ckpt[p]
  <2>1. CASE UNCHANGED ckpt
    BY <2>1
  <2>2. CASE WriteCheckpoint(b)
    <3>1. BugOf[cur[b]] = b /\ cur[b] \in Patch
      BY <2>2 DEF IInv, JobInv, WriteCheckpoint, InHand
    <3> QED
      BY <2>2, <3>1 DEF WriteCheckpoint, IInv, TypeInv, TypeOK
  <2> QED
    BY <2>1, <2>2, CkptStep
<1>3. JobInv(c) /\ todo[c] \subseteq Patch
  BY DEF IInv, TypeInv, TypeOK
<1> QED
  BY <1>1, <1>2, <1>3 DEF JobInv, InHand

\* The steps of a job before it has a patch in hand.
LEMMA OwnJobBefore ==
  ASSUME IInv, NEW b \in Bug,
         \/ Begin(b) \/ Reuse(b) \/ StartBuggy(b) \/ EndBuggy(b) \/ StartFixed(b) \/ EndFixed(b)
         \/ ReadRows(b) \/ ReplaceRows(b)
  PROVE  JobInv(b)'
<1>1. UNCHANGED <<ckpt, retry, sel>>
  BY DEF Begin, Reuse, StartBuggy, EndBuggy, StartFixed, EndFixed, ReadRows, ReplaceRows, disk, pass
<1>2. pc'[b] \notin InHand \cup Pipeline
  BY DEF Begin, Reuse, StartBuggy, EndBuggy, StartFixed, EndFixed, ReadRows, ReplaceRows,
         Goto, InHand, Pipeline, IInv, TypeInv, TypeOK
<1>3. \A p \in todo'[b] : p \in sel /\ BugOf[p] = b /\ IsPending(ckpt[p], retry)
  <2>1. CASE todo' = todo
    BY <2>1 DEF IInv, JobInv
  <2>2. CASE Begin(b)
    BY <2>2 DEF IInv, JobInv, TypeInv, TypeOK, Begin, PatchesOf
  <2> QED
    BY <2>1, <2>2 DEF Reuse, StartBuggy, EndBuggy, StartFixed, EndFixed, ReadRows, ReplaceRows
<1> QED
  BY <1>1, <1>2, <1>3 DEF JobInv, InHand

\* Taking a patch out of todo.
LEMMA OwnJobTakes ==
  ASSUME IInv, NEW b \in Bug, FailCheckout(b) \/ NextPatch(b)
  PROVE  JobInv(b)'
<1>0. /\ pc \in [Bug -> Labels] /\ todo \in [Bug -> SUBSET Patch]
      /\ cur \in [Bug -> Patch \cup {NoPatch}] /\ log \in [Bug -> CkptType]
      /\ JobInv(b)
  BY DEF IInv, TypeInv, TypeOK
<1>1. UNCHANGED <<ckpt, retry, sel>>
  BY DEF FailCheckout, NextPatch, disk, pass
<1>2. CASE FailCheckout(b)
  <2>1. PICK p \in todo[b] : /\ todo' = [todo EXCEPT ![b] = @ \ {p}]
                             /\ cur' = [cur EXCEPT ![b] = p]
                             /\ log' = [log EXCEPT ![b] = [NewLog EXCEPT !.term = "checkout_bug"]]
    BY <1>2 DEF FailCheckout
  <2>2. pc'[b] = "write"
    BY <1>0, <1>2 DEF FailCheckout, Goto
  <2>3. Honest([NewLog EXCEPT !.term = "checkout_bug"])
    BY DEF Honest, HasBilling, NewLog, NoLog
  <2> QED
    BY <1>0, <1>1, <2>1, <2>2, <2>3 DEF JobInv, InHand, Pipeline
<1>3. CASE NextPatch(b) /\ UNCHANGED <<todo, cur, log>>
  <2>1. pc'[b] \in {"finished", "apply"}
    BY <1>0, <1>3 DEF NextPatch, Goto
  <2>2. pc'[b] # "apply"
    BY <1>0, <1>3 DEF NextPatch, Goto
  <2> QED
    BY <1>0, <1>1, <1>3, <2>1, <2>2 DEF JobInv, InHand, Pipeline
<1>4. CASE NextPatch(b) /\ ~UNCHANGED <<todo, cur, log>>
  <2>1. PICK p \in todo[b] : /\ todo' = [todo EXCEPT ![b] = @ \ {p}]
                             /\ cur' = [cur EXCEPT ![b] = p]
                             /\ log' = [log EXCEPT ![b] = NewLog]
                             /\ Goto(b, "apply")
    BY <1>4 DEF NextPatch
  <2>2. pc'[b] = "apply"
    BY <1>0, <2>1 DEF Goto
  <2>3. NewLog.kind = "log" /\ NewLog.term = "none" /\ ~NewLog.complete /\ ~HasBilling(NewLog)
    BY DEF HasBilling, NewLog, NoLog
  <2> QED
    BY <1>0, <1>1, <2>1, <2>2, <2>3 DEF JobInv, InHand, Pipeline
<1> QED
  BY <1>2, <1>3, <1>4

\* A step inside the pipeline keeps the patch in hand; what is left to show
\* is that the log stays honest.
LEMMA OwnJobKeeps ==
  ASSUME IInv, NEW b \in Bug, pc[b] \in Pipeline,
         UNCHANGED <<ckpt, retry, sel, todo, cur>>,
         \/ /\ pc'[b] \in Pipeline
            /\ log'[b].kind = "log" /\ log'[b].term = "none"
            /\ ~log'[b].complete /\ ~HasBilling(log'[b])
         \/ pc'[b] = "write" /\ Honest(log'[b])
         \/ pc'[b] = "finished"
  PROVE  JobInv(b)'
<1>1. JobInv(b) /\ pc[b] \in InHand \ {"bump"}
  BY DEF IInv, Pipeline, InHand
<1>2. CASE pc'[b] \in Pipeline
  <2>1. pc'[b] \in InHand /\ pc'[b] # "write"
    BY <1>2 DEF Pipeline, InHand
  <2>2. log'[b].kind = "log" /\ log'[b].term = "none" /\ ~log'[b].complete /\ ~HasBilling(log'[b])
    BY <1>2 DEF Pipeline, InHand
  <2> QED
    BY <1>1, <2>1, <2>2 DEF JobInv
<1>3. CASE pc'[b] \in {"write", "finished"}
  <2>1. pc'[b] \notin Pipeline
    BY <1>3 DEF Pipeline, InHand
  <2>2. pc'[b] = "write" => Honest(log'[b])
    BY <1>3 DEF Pipeline, InHand
  <2>3. pc'[b] \in InHand => pc'[b] = "write"
    BY <1>3 DEF InHand
  <2> QED
    BY <1>1, <2>1, <2>2, <2>3 DEF JobInv, InHand
<1> QED
  BY <1>2, <1>3

LEMMA OwnJobPipeline ==
  ASSUME IInv, NEW b \in Bug,
         \/ Apply(b) \/ ReadPatchRows(b) \/ ReplacePatchRows(b) \/ Fingerprint(b) \/ Semantic(b)
         \/ Counterexample(b) \/ Memorization(b) \/ Stage2b(b) \/ RaiseInStage(b)
  PROVE  JobInv(b)'
<1>0. pc \in [Bug -> Labels] /\ log \in [Bug -> CkptType]
  BY DEF IInv, TypeInv, TypeOK
<1>1. pc[b] \in Pipeline
  BY DEF Apply, ReadPatchRows, ReplacePatchRows, Fingerprint, Semantic, Counterexample,
         Memorization, Stage2b, RaiseInStage, Pipeline, InHand
<1>2. UNCHANGED <<ckpt, retry, sel, todo, cur>>
  BY DEF Apply, ReadPatchRows, ReplacePatchRows, Fingerprint, Semantic, Counterexample,
         Memorization, Stage2b, RaiseInStage, disk, pass
<1>3. /\ log[b].kind = "log" /\ log[b].term = "none" /\ log[b].complete = FALSE
      /\ ~HasBilling(log[b]) /\ log[b] \in CkptType
  BY <1>0, <1>1 DEF IInv, JobInv, CkptType
\* What a step may make of the log.
<1>4. ASSUME pc'[b] \in Pipeline, log' = log PROVE JobInv(b)'
  BY <1>1, <1>2, <1>3, <1>4, OwnJobKeeps
<1>5. ASSUME pc'[b] \in Pipeline, log' = [log EXCEPT ![b].raised = TRUE] PROVE JobInv(b)'
  <2>1. log'[b] = [log[b] EXCEPT !.raised = TRUE]
    BY <1>0, <1>5
  <2> QED
    BY <1>1, <1>2, <1>3, <1>5, <2>1, OwnJobKeeps DEF CkptType, HasBilling
<1>6. ASSUME pc'[b] = "write",
             \/ log'[b] = [log[b] EXCEPT !.term = "apply_patch", !.raised = TRUE]
             \/ log'[b] = [log[b] EXCEPT !.term = "apply_patch"]
      PROVE  JobInv(b)'
  BY <1>1, <1>2, <1>3, <1>6, OwnJobKeeps DEF CkptType, HasBilling, Honest
<1>7. CASE Apply(b)
  <2>1. CASE log' = log /\ Goto(b, "prowLock")
    BY <1>0, <1>4, <2>1 DEF Goto, Pipeline, InHand
  <2>2. CASE log' = [log EXCEPT ![b].term = "apply_patch", ![b].raised = TRUE] /\ Goto(b, "write")
    BY <1>0, <1>6, <2>2 DEF Goto
  <2> QED
    BY <1>7, <2>1, <2>2 DEF Apply
<1>8. CASE RaiseInStage(b)
  BY <1>0, <1>6, <1>8 DEF RaiseInStage, Goto
<1>9. CASE ReadPatchRows(b)
  BY <1>0, <1>4, <1>9 DEF ReadPatchRows, Goto, Pipeline, InHand
<1>10. CASE ReplacePatchRows(b)
  <2>1. CASE result[b] = "rejected"
    <3>1. log'[b] = [log[b] EXCEPT !.term = "apply_patch"] /\ pc'[b] = "write"
      BY <1>0, <1>10, <2>1 DEF ReplacePatchRows, Goto
    <3> QED
      BY <1>6, <3>1
  <2>2. CASE result[b] # "rejected"
    BY <1>0, <1>4, <1>10, <2>2 DEF ReplacePatchRows, Goto, Pipeline, InHand
  <2> QED
    BY <2>1, <2>2
<1>11. ASSUME NEW l \in Pipeline, Raised(b, l) PROVE JobInv(b)'
  BY <1>0, <1>5, <1>11 DEF Raised, Goto
<1>12. CASE Fingerprint(b)
  <2>1. CASE Raised(b, "semantic")
    BY <1>11, <2>1 DEF Pipeline, InHand
  <2>2. CASE Goto(b, "semantic") /\ log' = log
    BY <1>0, <1>4, <2>2 DEF Goto, Pipeline, InHand
  <2> QED
    BY <1>12, <2>1, <2>2 DEF Fingerprint
<1>13. ASSUME StopOnBilling(b) PROVE JobInv(b)'
  BY <1>0, <1>1, <1>2, <1>3, <1>13, OwnJobKeeps DEF StopOnBilling, Goto
<1>14. ASSUME pc'[b] \in Pipeline, NEW o, o # "billing",
              \/ log'[b] = [log[b] EXCEPT !.sem = o]
              \/ log'[b] = [log[b] EXCEPT !.cex = o]
              \/ log'[b] = [log[b] EXCEPT !.memo = o]
       PROVE  JobInv(b)'
  BY <1>1, <1>2, <1>3, <1>14, OwnJobKeeps DEF CkptType, HasBilling
<1>15. CASE Semantic(b)
  <2>1. CASE Raised(b, "cex")
    BY <1>11, <2>1 DEF Pipeline, InHand
  <2>2. CASE \E o \in SemOut \ {"billing"} : log' = [log EXCEPT ![b].sem = o] /\ Goto(b, "cex")
    BY <1>0, <1>14, <2>2 DEF Goto, Pipeline, InHand
  <2> QED
    BY <1>13, <1>15, <2>1, <2>2 DEF Semantic
<1>16. CASE Counterexample(b)
  <2>1. CASE Raised(b, "memo")
    BY <1>11, <2>1 DEF Pipeline, InHand
  <2>2. CASE \E o \in ArmOut \ {"billing"} : log' = [log EXCEPT ![b].cex = o] /\ Goto(b, "memo")
    BY <1>0, <1>14, <2>2 DEF Goto, Pipeline, InHand
  <2> QED
    BY <1>13, <1>16, <2>1, <2>2 DEF Counterexample
<1>17. CASE Memorization(b)
  <2>1. CASE Raised(b, "stage2b")
    BY <1>11, <2>1 DEF Pipeline, InHand
  <2>2. CASE \E o \in ArmOut \ {"billing"} : log' = [log EXCEPT ![b].memo = o] /\ Goto(b, "stage2b")
    BY <1>0, <1>14, <2>2 DEF Goto, Pipeline, InHand
  <2> QED
    BY <1>13, <1>17, <2>1, <2>2 DEF Memorization
<1>18. CASE Stage2b(b)
  <2>1. PICK o \in AuxOut :
          log' = [log EXCEPT ![b].raised = (log[b].raised \/ o = "raised"),
                             ![b].complete = ~(log[b].raised \/ o = "raised") /\ ArmsReal(log[b])]
    BY <1>18 DEF Stage2b
  <2> DEFINE bad == log[b].raised \/ o = "raised"
  <2>2. log'[b] = [log[b] EXCEPT !.raised = bad, !.complete = ~bad /\ ArmsReal(log[b])]
    BY <1>0, <2>1
  <2>3. Honest(log'[b])
    <3>1. ArmsReal(log'[b]) <=> ArmsReal(log[b])
      BY <1>3, <2>2 DEF ArmsReal, CkptType
    <3>2. ~HasBilling(log'[b]) /\ log'[b].kind = "log" /\ log'[b].term = "none"
      BY <1>3, <2>2 DEF HasBilling, CkptType
    <3>3. log'[b].raised = bad /\ log'[b].complete = (~bad /\ ArmsReal(log[b]))
      BY <1>3, <2>2 DEF CkptType
    <3> QED
      BY <3>1, <3>2, <3>3 DEF Honest
  <2>4. pc'[b] = "write"
    BY <1>0, <1>18 DEF Stage2b, Goto
  <2> QED
    BY <1>1, <1>2, <2>3, <2>4, OwnJobKeeps
<1> QED
  BY <1>7, <1>8, <1>9, <1>10, <1>12, <1>15, <1>16, <1>17, <1>18

LEMMA OwnJobAfter ==
  ASSUME IInv, NEW b \in Bug, WriteCheckpoint(b) \/ Bump(b) \/ RaiseInJob(b)
  PROVE  JobInv(b)'
<1>0. /\ pc \in [Bug -> Labels] /\ ckpt \in [Patch -> CkptType]
      /\ cur \in [Bug -> Patch \cup {NoPatch}] /\ JobInv(b)
  BY DEF IInv, TypeInv, TypeOK
<1>1. CASE WriteCheckpoint(b)
  <2>1. pc[b] = "write" /\ pc'[b] = "bump" /\ cur[b] \notin todo[b] /\ cur[b] \in Patch
    BY <1>0, <1>1 DEF WriteCheckpoint, Goto, JobInv, InHand
  <2>2. \A p \in todo[b] : ckpt'[p] = ckpt[p]
    BY <1>0, <1>1, <2>1 DEF WriteCheckpoint
  <2>3. UNCHANGED <<retry, sel, todo, cur>>
    BY <1>1 DEF WriteCheckpoint, pass
  <2> QED
    BY <1>0, <2>1, <2>2, <2>3 DEF JobInv, InHand, Pipeline
<1>2. CASE Bump(b)
  <2>1. pc'[b] \notin InHand \cup Pipeline
    BY <1>0, <1>2 DEF Bump, Goto, InHand, Pipeline
  <2>2. UNCHANGED <<ckpt, retry, sel, todo>>
    BY <1>2 DEF Bump, disk, pass
  <2> QED
    BY <1>0, <2>1, <2>2 DEF JobInv, InHand
<1>3. CASE RaiseInJob(b)
  <2>1. pc'[b] \notin InHand \cup Pipeline
    BY <1>0, <1>3 DEF RaiseInJob, Goto, InHand, Pipeline
  <2>2. UNCHANGED <<ckpt, retry, sel, todo>>
    BY <1>3 DEF RaiseInJob, disk
  <2> QED
    BY <1>0, <2>1, <2>2 DEF JobInv, InHand
<1> QED
  BY <1>1, <1>2, <1>3

LEMMA CsvStep ==
  ASSUME IInv, NEW b \in Bug, JobStep(b) \/ RaiseInStage(b) \/ RaiseInJob(b)
  PROVE  /\ \A c \in Bug \ {b} : row'[c] = row[c]
         /\ UNCHANGED row \/ pc[b] = "rowWrite"
         /\ UNCHANGED prow \/ pc[b] = "prowWrite"
<1>1. CASE UNCHANGED row
  <2>1. UNCHANGED prow \/ ReplacePatchRows(b)
    BY DEF JobStep, Begin, Reuse, StartBuggy, EndBuggy, StartFixed, EndFixed, ReadRows, ReplaceRows,
           FailCheckout, NextPatch, Apply, ReadPatchRows, Fingerprint, Semantic, Counterexample,
           Memorization, Stage2b, WriteCheckpoint, Bump, RaiseInStage, RaiseInJob, disk, files
  <2> QED
    BY <1>1, <2>1 DEF ReplacePatchRows
<1>2. CASE ReplaceRows(b)
  BY <1>2 DEF ReplaceRows, IInv, CsvInv, TypeInv, TypeOK
<1>3. UNCHANGED row \/ ReplaceRows(b)
  BY DEF JobStep, Begin, Reuse, StartBuggy, EndBuggy, StartFixed, EndFixed, ReadRows, ReplacePatchRows,
         FailCheckout, NextPatch, Apply, ReadPatchRows, Fingerprint, Semantic, Counterexample,
         Memorization, Stage2b, WriteCheckpoint, Bump, RaiseInStage, RaiseInJob, disk, files
<1> QED
  BY <1>1, <1>2, <1>3

\* The lock changes hands only through NoBug.
LEMMA LockStep ==
  ASSUME NEW b \in Bug, JobStep(b) \/ RaiseInStage(b) \/ RaiseInJob(b)
  PROVE  \/ UNCHANGED lock
         \/ lock = NoBug /\ lock' = b
         \/ lock' = NoBug /\ pc[b] \in {"rowWrite", "prowWrite"}
  BY DEF JobStep, Begin, Reuse, StartBuggy, EndBuggy, StartFixed, EndFixed, ReadRows, ReplaceRows,
         FailCheckout, NextPatch, Apply, ReadPatchRows, ReplacePatchRows, Fingerprint, Semantic,
         Counterexample, Memorization, Stage2b, WriteCheckpoint, Bump, RaiseInStage, RaiseInJob

LEMMA OtherCsv ==
  ASSUME IInv, NEW b \in Bug, JobStep(b) \/ RaiseInStage(b) \/ RaiseInJob(b), NEW c \in Bug \ {b}
  PROVE  CsvInv(c)'
<1>1. /\ pc'[c] = pc[c] /\ log'[c] = log[c] /\ rsnap'[c] = rsnap[c] /\ psnap'[c] = psnap[c]
      /\ row'[c] = row[c]
  BY StepsAreLocal, CsvStep DEF Elsewhere, IInv
<1>2. CsvInv(c) /\ CsvInv(b)
  BY DEF IInv
<1>3. ASSUME pc[c] \in {"rowWrite", "prowWrite"}
      PROVE  lock' = c /\ UNCHANGED <<row, prow>>
  <2>1. lock = c /\ lock # NoBug
    BY <1>2, <1>3, ConstantsAssumption DEF CsvInv
  <2>2. pc[b] \notin {"rowWrite", "prowWrite"}
    BY <1>2, <2>1 DEF CsvInv
  <2> QED
    BY <2>1, <2>2, CsvStep, LockStep
<1> QED
  BY <1>1, <1>2, <1>3 DEF CsvInv

LEMMA OwnCsv ==
  ASSUME IInv, NEW b \in Bug, JobStep(b) \/ RaiseInStage(b) \/ RaiseInJob(b)
  PROVE  CsvInv(b)'
<1>0. /\ pc \in [Bug -> Labels] /\ log \in [Bug -> CkptType] /\ row \in [Bug -> RowState]
      /\ cur \in [Bug -> Patch \cup {NoPatch}]
      /\ rsnap \in [Bug -> [Bug -> RowState]] /\ psnap \in [Bug -> [Patch -> PRowState]]
      /\ JobInv(b) /\ CsvInv(b)
  BY DEF IInv, TypeInv, TypeOK
<1>1. CASE Begin(b) \/ StartBuggy(b) \/ EndBuggy(b) \/ StartFixed(b) \/ EndFixed(b)
  <2>1. pc'[b] \in {"finished", "ensure", "coBuggy", "rowLock", "startFixed", "coFixed"}
    BY <1>0, <1>1 DEF Begin, StartBuggy, EndBuggy, StartFixed, EndFixed, Goto
  <2> QED
    BY <2>1 DEF CsvInv, Pipeline, InHand
<1>2. CASE Reuse(b)
  BY <1>0, <1>2 DEF Reuse, Goto, CsvInv, Pipeline, InHand, disk
<1>3. CASE ReadRows(b)
  BY <1>0, <1>3 DEF ReadRows, Goto, CsvInv, Pipeline, InHand, disk
<1>4. CASE ReplaceRows(b)
  <2>1. pc'[b] \in {"next", "failAll"} /\ (pc'[b] = "next" => result[b] = "available")
    BY <1>0, <1>4 DEF ReplaceRows, Goto
  <2>2. row'[b] = result[b]
    BY <1>0, <1>4 DEF ReplaceRows
  <2> QED
    BY <2>1, <2>2 DEF CsvInv, Pipeline, InHand
<1>5. CASE FailCheckout(b)
  <2>1. pc'[b] = "write" /\ log'[b].term = "checkout_bug"
    BY <1>0, <1>5 DEF FailCheckout, Goto, NewLog, NoLog
  <2> QED
    BY <2>1 DEF CsvInv, Pipeline, InHand
<1>6. CASE NextPatch(b)
  <2>1. pc[b] = "next" /\ pc'[b] \in {"apply", "finished"} /\ UNCHANGED row
    BY <1>0, <1>6 DEF NextPatch, Goto, disk
  <2> QED
    BY <1>0, <2>1 DEF CsvInv, Pipeline, InHand
\* Inside the pipeline the row of the bug stays available.
<1>7. ASSUME pc[b] \in Pipeline, pc'[b] \notin {"rowWrite", "prowWrite"}, UNCHANGED row
      PROVE  CsvInv(b)'
  BY <1>0, <1>7 DEF CsvInv
<1>8. CASE Apply(b) \/ Fingerprint(b) \/ Stage2b(b)
  <2>1. pc[b] \in Pipeline /\ pc'[b] \notin {"rowWrite", "prowWrite"} /\ UNCHANGED row
    BY <1>0, <1>8 DEF Apply, Fingerprint, Stage2b, Raised, Goto, Pipeline, InHand, disk
  <2> QED
    BY <1>7, <2>1
<1>9. CASE Semantic(b) \/ Counterexample(b) \/ Memorization(b)
  <2>1. pc[b] \in Pipeline /\ pc'[b] \notin {"rowWrite", "prowWrite"} /\ UNCHANGED row
    BY <1>0, <1>9 DEF Semantic, Counterexample, Memorization, Raised, StopOnBilling, Goto,
                      Pipeline, InHand, disk
  <2> QED
    BY <1>7, <2>1
<1>10. CASE ReplacePatchRows(b) \/ RaiseInStage(b)
  <2>1. pc[b] \in Pipeline /\ pc'[b] \notin {"rowWrite", "prowWrite"} /\ UNCHANGED row
    BY <1>0, <1>10 DEF ReplacePatchRows, RaiseInStage, Goto, Pipeline, InHand, disk
  <2> QED
    BY <1>7, <2>1
<1>11. CASE ReadPatchRows(b)
  BY <1>0, <1>11 DEF ReadPatchRows, Goto, CsvInv, Pipeline, InHand, disk
<1>12. CASE WriteCheckpoint(b)
  <2>1. pc[b] = "write" /\ pc'[b] = "bump" /\ UNCHANGED <<row, log>>
    BY <1>0, <1>12 DEF WriteCheckpoint, Goto, files
  <2> QED
    BY <1>0, <2>1 DEF CsvInv, Pipeline, InHand
<1>13. CASE Bump(b)
  <2>1. pc[b] = "bump" /\ pc'[b] \in {"next", "failAll", "finished"} /\ UNCHANGED row
    BY <1>0, <1>13 DEF Bump, Goto, disk
  <2>2. pc'[b] = "next" => log[b].term # "checkout_bug"
    BY <1>0, <1>13 DEF Bump, Goto
  <2> QED
    BY <1>0, <2>1, <2>2 DEF CsvInv, Pipeline, InHand
<1>14. CASE RaiseInJob(b)
  <2>1. pc'[b] = "raised"
    BY <1>0, <1>14 DEF RaiseInJob, Goto
  <2> QED
    BY <2>1 DEF CsvInv, Pipeline, InHand
<1> QED
  BY <1>1, <1>2, <1>3, <1>4, <1>5, <1>6, <1>8, <1>9, <1>10, <1>11, <1>12, <1>13, <1>14 DEF JobStep

LEMMA InitInv == Init => IInv
<1> SUFFICES ASSUME Init PROVE IInv
  OBVIOUS
<1>1. ASSUME NEW b \in Bug PROVE JobInv(b) /\ CsvInv(b)
  BY DEF Init, All, JobInv, CsvInv, InHand, Pipeline
<1> QED
  BY <1>1, InitType DEF IInv

LEMMA NextInv == IInv /\ [Next]_vars => IInv'
<1> SUFFICES ASSUME IInv, [Next]_vars PROVE IInv'
  OBVIOUS
<1>0. TypeInv'
  BY NextType DEF IInv
<1>1. ASSUME NEW b \in Bug, JobStep(b) \/ RaiseInStage(b) \/ RaiseInJob(b)
      PROVE  (\A c \in Bug : JobInv(c)') /\ (\A c \in Bug : CsvInv(c)')
  <2>1. JobInv(b)'
    BY <1>1, OwnJobBefore, OwnJobTakes, OwnJobPipeline, OwnJobAfter DEF JobStep
  <2>2. \A c \in Bug \ {b} : JobInv(c)' /\ CsvInv(c)'
    BY <1>1, OtherJobs, OtherCsv
  <2> QED
    BY <1>1, <2>1, <2>2, OwnCsv
\* A process that starts or dies has no job with anything in hand.
<1>2. ASSUME ForgetJobs, \A b \in Bug : pc'[b] \in {"off", "queued"}
      PROVE  (\A c \in Bug : JobInv(c)') /\ (\A c \in Bug : CsvInv(c)')
  BY <1>2 DEF ForgetJobs, All, JobInv, CsvInv, InHand, Pipeline
<1>3. ASSUME NEW s \in Selections, NEW r \in Retries, Start(s, r) PROVE IInv'
  BY <1>0, <1>2, <1>3 DEF Start, IInv
<1>4. CASE Kill
  BY <1>0, <1>2, <1>4 DEF Kill, All, IInv
<1>5. CASE Exit
  BY <1>0, <1>5 DEF Exit, IInv, JobInv, CsvInv, disk
<1>6. CASE UNCHANGED vars
  BY <1>0, <1>6 DEF IInv, JobInv, CsvInv, vars, disk, pass, count
<1> QED
  BY <1>0, <1>1, <1>3, <1>4, <1>5, <1>6 DEF Next, IInv

\* The invariant holds throughout.
THEOREM Invariance == Spec => []IInv
  BY InitInv, NextInv, PTL DEF Spec

\* A job runs its patches only while the status CSV records both trees of its
\* bug as available, in every interleaving of the jobs with kills.
THEOREM RecordedSafe == Spec => []RecordedBeforeUse
<1>1. IInv => RecordedBeforeUse
  BY DEF IInv, CsvInv, RecordedBeforeUse
<1> QED
  BY <1>1, Invariance, PTL

\* The status CSVs lose no update: a row changes only by its own job.
THEOREM NoLostRow == Spec => RowsOnlyByOwner
<1> DEFINE Owned == /\ \A b \in Bug : row'[b] # row[b] => pc[b] = "rowWrite"
                    /\ \A p \in Patch : prow'[p] # prow[p] =>
                         pc[BugOf[p]] = "prowWrite" /\ cur[BugOf[p]] = p
<1>1. IInv /\ [Next]_vars => [Owned]_vars
  <2> SUFFICES ASSUME IInv, Next PROVE Owned
    OBVIOUS
  <2>1. ASSUME NEW b \in Bug, JobStep(b) \/ RaiseInStage(b) \/ RaiseInJob(b) PROVE Owned
    <3>1. \A c \in Bug : row'[c] # row[c] => pc[c] = "rowWrite"
      BY <2>1, CsvStep
    <3>2. CASE UNCHANGED prow
      BY <3>1, <3>2
    <3>3. CASE ReplacePatchRows(b)
      <4>1. psnap[b] = prow /\ BugOf[cur[b]] = b /\ pc[b] = "prowWrite"
        BY <3>3 DEF ReplacePatchRows, IInv, CsvInv, JobInv, InHand
      <4>2. \A p \in Patch : prow'[p] # prow[p] => p = cur[b]
        BY <3>3, <4>1 DEF ReplacePatchRows, IInv, TypeInv, TypeOK
      <4> QED
        BY <3>1, <4>1, <4>2
    <3>4. UNCHANGED prow \/ ReplacePatchRows(b)
      BY <2>1 DEF JobStep, Begin, Reuse, StartBuggy, EndBuggy, StartFixed, EndFixed, ReadRows,
           ReplaceRows, FailCheckout, NextPatch, Apply, ReadPatchRows, Fingerprint, Semantic,
           Counterexample, Memorization, Stage2b, WriteCheckpoint, Bump, RaiseInStage, RaiseInJob,
           disk, files
    <3> QED
      BY <3>2, <3>3, <3>4
  <2>2. CASE UNCHANGED <<row, prow>>
    BY <2>2
  <2> QED
    BY <2>1, <2>2 DEF Next, Start, Exit, Kill, disk
<1> QED
  BY <1>1, Invariance, PTL DEF Spec, RowsOnlyByOwner

-----------------------------------------------------------------------------
(***************************************************************************)
(* The checkpoint files implement CheckpointLedger.                        *)
(***************************************************************************)
LEMMA ClassType == \A c : Class(c) \in Ledger!Results
  BY DEF Class, Ledger!Results, Ledger!Honest

LEMMA HonestClass == \A c : Honest(c) => Class(c) \in Ledger!Honest
  BY DEF Class, Honest, Ledger!Honest

\* What a pass works on is pending in the ledger.
LEMMA PendingClass ==
  ASSUME NEW c \in CkptType, NEW r \in BOOLEAN, IsPending(c, r)
  PROVE  \/ Class(c) \in {"none", "corrupt", "incomplete"}
         \/ r /\ Class(c) = "terminalError"
  BY DEF CkptType, Term, IsPending, IsDone, HasStageError, Class, Honest

\* The checkpoint files implement the ledger (run_full.py:13).
THEOREM ImplementsLedger == Spec => LedgerSpec
<1> DEFINE led == [p \in Patch |-> Class(ckpt[p])]
<1>1. Init => Ledger!Init
  BY ClassType DEF Init, Ledger!Init
<1>2. IInv /\ [Next]_vars => [Ledger!Next]_<<led, retry>>
  <2> SUFFICES ASSUME IInv, Next PROVE [Ledger!Next]_<<led, retry>>
    BY DEF vars, disk, pass
  <2>1. ASSUME NEW s \in Selections, NEW r \in Retries, Start(s, r) PROVE Ledger!NewPass
    BY <2>1, ConstantsAssumption DEF Start, Ledger!NewPass, disk
  <2>2. ASSUME NEW b \in Bug, WriteCheckpoint(b) PROVE Ledger!Record(cur[b]) /\ cur[b] \in Patch
    <3>1. /\ cur[b] \in Patch /\ IsPending(ckpt[cur[b]], retry) /\ Honest(log[b])
          /\ ckpt[cur[b]] \in CkptType /\ retry \in BOOLEAN /\ ckpt \in [Patch -> CkptType]
      BY <2>2 DEF WriteCheckpoint, IInv, JobInv, InHand, TypeInv, TypeOK
    <3>2. Ledger!Pending(cur[b])
      BY <3>1, PendingClass DEF Ledger!Pending
    <3>3. led' = [led EXCEPT ![cur[b]] = Class(log[b])]
      BY <2>2, <3>1 DEF WriteCheckpoint
    <3>4. retry' = retry
      BY <2>2 DEF WriteCheckpoint, pass
    <3> QED
      BY <3>1, <3>2, <3>3, <3>4, HonestClass DEF Ledger!Record
  <2>3. ASSUME NEW b \in Bug, JobStep(b) \/ RaiseInStage(b) \/ RaiseInJob(b)
        PROVE  WriteCheckpoint(b) \/ UNCHANGED <<ckpt, retry>>
    BY <2>3, CkptStep
  <2>4. CASE UNCHANGED <<ckpt, retry>>
    BY <2>4
  <2>5. CASE Exit \/ Kill
    BY <2>4, <2>5 DEF Exit, Kill, disk
  <2> QED
    BY <2>1, <2>2, <2>3, <2>4, <2>5 DEF Next, Ledger!Next
<1> QED
  BY <1>1, <1>2, Invariance, PTL DEF Spec, LedgerSpec, Ledger!Spec

-----------------------------------------------------------------------------
(***************************************************************************)
(* A billing abort leaves a pending patch behind.                          *)
(***************************************************************************)
Dropped == \E p \in sel : IsPending(ckpt[p], retry) /\ pc[BugOf[p]] = "finished"
AbortInv == abort => Dropped

LEMMA AbortStep ==
  ASSUME IInv, AbortInv, NEW b \in Bug, JobStep(b) \/ RaiseInStage(b) \/ RaiseInJob(b)
  PROVE  AbortInv'
<1>0. /\ pc \in [Bug -> Labels] /\ ckpt \in [Patch -> CkptType] /\ sel \subseteq Patch
      /\ BugOf \in [Patch -> Bug] /\ JobInv(b)
  BY ConstantsAssumption DEF IInv, TypeInv, TypeOK
<1>1. UNCHANGED <<retry, sel>> /\ \A c \in Bug \ {b} : pc'[c] = pc[c]
  BY CkptStep, StepsAreLocal DEF Elsewhere, IInv
<1>2. pc[b] # "finished"
  BY DEF JobStep, Begin, Reuse, StartBuggy, EndBuggy, StartFixed, EndFixed, ReadRows, ReplaceRows,
         FailCheckout, NextPatch, Apply, ReadPatchRows, ReplacePatchRows, Fingerprint, Semantic,
         Counterexample, Memorization, Stage2b, WriteCheckpoint, Bump, RaiseInStage, RaiseInJob
\* A patch another job dropped stays as it was.
<1>3. Dropped => Dropped'
  <2> SUFFICES ASSUME NEW p \in sel, IsPending(ckpt[p], retry), pc[BugOf[p]] = "finished"
               PROVE  Dropped'
    BY DEF Dropped
  <2>1. BugOf[p] \in Bug \ {b} /\ p \in Patch
    BY <1>0, <1>2
  <2>2. ckpt'[p] = ckpt[p]
    <3>1. CASE WriteCheckpoint(b)
      <4>1. BugOf[cur[b]] = b
        BY <1>0, <3>1 DEF WriteCheckpoint, JobInv, InHand
      <4> QED
        BY <1>0, <2>1, <3>1, <4>1 DEF WriteCheckpoint
    <3> QED
      BY <3>1, CkptStep
  <2> QED
    BY <1>1, <2>1, <2>2 DEF Dropped
\* The job that sees the billing error drops the patch in its hands.
<1>4. ASSUME StopOnBilling(b), pc[b] \in Pipeline, UNCHANGED <<ckpt, cur>> PROVE Dropped'
  <2>1. cur[b] \in sel /\ BugOf[cur[b]] = b /\ IsPending(ckpt[cur[b]], retry)
    BY <1>0, <1>4 DEF JobInv, Pipeline, InHand
  <2>2. pc'[b] = "finished"
    BY <1>0, <1>4 DEF StopOnBilling, Goto
  <2> QED
    BY <1>1, <1>4, <2>1, <2>2 DEF Dropped
<1>5. abort' => abort \/ (StopOnBilling(b) /\ pc[b] \in Pipeline /\ UNCHANGED <<ckpt, cur>>)
  <2>1. CASE Semantic(b) \/ Counterexample(b) \/ Memorization(b)
    BY <2>1 DEF Semantic, Counterexample, Memorization, Raised, Pipeline, InHand, disk
  <2>2. CASE Fingerprint(b)
    BY <2>2 DEF Fingerprint, Raised
  <2> QED
    BY <2>1, <2>2 DEF JobStep, Begin, Reuse, StartBuggy, EndBuggy, StartFixed, EndFixed, ReadRows,
       ReplaceRows, FailCheckout, NextPatch, Apply, ReadPatchRows, ReplacePatchRows, Stage2b,
       WriteCheckpoint, Bump, RaiseInStage, RaiseInJob
<1> QED
  BY <1>3, <1>4, <1>5 DEF AbortInv

\* While a pass is aborting, the same command would take up again some patch
\* that it selected: a billing error never settles the patch it hit.
THEOREM AbortLosesNothing == Spec => []AbortedIsRedone
<1>1. Init => AbortInv
  BY DEF Init, AbortInv
<1>2. IInv /\ AbortInv /\ [Next]_vars => AbortInv'
  <2> SUFFICES ASSUME IInv, AbortInv, [Next]_vars PROVE AbortInv'
    OBVIOUS
  <2>1. CASE \E s \in Selections, r \in Retries : Start(s, r)
    BY <2>1 DEF Start, AbortInv
  <2>2. CASE Kill
    BY <2>2 DEF Kill, AbortInv
  <2>3. CASE Exit
    BY <2>3 DEF Exit, AbortInv, Dropped, disk
  <2>4. CASE UNCHANGED vars
    BY <2>4 DEF vars, AbortInv, Dropped, disk, pass
  <2> QED
    BY <2>1, <2>2, <2>3, <2>4, AbortStep DEF Next
<1>3. AbortInv => AbortedIsRedone
  BY DEF AbortInv, Dropped, AbortedIsRedone
<1> QED
  BY <1>1, <1>2, <1>3, Invariance, PTL DEF Spec

-----------------------------------------------------------------------------
(***************************************************************************)
(* Trees.  A row that says available is true of both trees, and stays so:  *)
(* a checkout is started only where the row does not say it.               *)
(***************************************************************************)
Whole(b) == buggy[b] = "full" /\ fixed[b] = "full"

\* What the files of a first pass must say: no row is ahead of its trees.
RowsAreTrue == \A b \in Bug : row[b] = "available" => Whole(b)

TreeInv(b) ==
  /\ row[b] = "available" => Whole(b)
  /\ pc[b] \in {"coBuggy", "startFixed", "coFixed", "rowLock", "rowWrite"} => row[b] # "available"
  /\ pc[b] \in {"startFixed", "coFixed"} => buggy[b] = "full"
  /\ pc[b] \in {"rowLock", "rowWrite"} /\ result[b] = "available" => Whole(b)

TreesInv == \A b \in Bug : TreeInv(b)

\* Only the steps of the checkout touch a tree, each that of its own bug.
LEMMA TreeStep ==
  ASSUME IInv, NEW b \in Bug, JobStep(b) \/ RaiseInStage(b) \/ RaiseInJob(b)
  PROVE  /\ \A c \in Bug \ {b} : buggy'[c] = buggy[c] /\ fixed'[c] = fixed[c]
         /\ \/ UNCHANGED <<buggy, fixed>>
            \/ StartBuggy(b) \/ EndBuggy(b) \/ StartFixed(b) \/ EndFixed(b)
<1>1. \/ UNCHANGED <<buggy, fixed>>
      \/ StartBuggy(b) \/ EndBuggy(b) \/ StartFixed(b) \/ EndFixed(b)
  BY DEF JobStep, Begin, Reuse, ReadRows, ReplaceRows,
         FailCheckout, NextPatch, Apply, ReadPatchRows, ReplacePatchRows, Fingerprint, Semantic,
         Counterexample, Memorization, Stage2b, WriteCheckpoint, Bump, RaiseInStage, RaiseInJob,
         disk, files
<1>2. \/ UNCHANGED <<buggy, fixed>>
      \/ \E v : buggy' = [buggy EXCEPT ![b] = v] /\ UNCHANGED fixed
      \/ \E v : fixed' = [fixed EXCEPT ![b] = v] /\ UNCHANGED buggy
  BY <1>1 DEF StartBuggy, EndBuggy, StartFixed, EndFixed
<1> QED
  BY <1>1, <1>2 DEF IInv, TypeInv, TypeOK

LEMMA OwnTree ==
  ASSUME IInv, NEW b \in Bug, TreeInv(b), JobStep(b) \/ RaiseInStage(b) \/ RaiseInJob(b)
  PROVE  TreeInv(b)'
<1>0. /\ pc \in [Bug -> Labels] /\ row \in [Bug -> RowState]
      /\ buggy \in [Bug -> TreeState] /\ fixed \in [Bug -> TreeState]
      /\ result \in [Bug -> RowState \cup PRowState] /\ rsnap \in [Bug -> [Bug -> RowState]]
  BY DEF IInv, TypeInv, TypeOK
<1>1. CASE Reuse(b)
  BY <1>0, <1>1 DEF Reuse, Goto, TreeInv, Whole, disk
<1>2. CASE StartBuggy(b)
  <2>1. row[b] # "available"
    BY <1>2 DEF StartBuggy, TreeInv, Whole
  <2>2. pc'[b] = "coBuggy" /\ UNCHANGED row
    BY <1>0, <1>2 DEF StartBuggy, Goto
  <2> QED
    BY <2>1, <2>2 DEF TreeInv
<1>3. CASE EndBuggy(b)
  <2>1. row[b] # "available" /\ UNCHANGED row
    BY <1>3 DEF EndBuggy, TreeInv
  <2>2. \/ pc'[b] = "rowLock" /\ result'[b] = "unavailable"
        \/ pc'[b] = "startFixed" /\ buggy'[b] = "full"
    BY <1>0, <1>3 DEF EndBuggy, Goto
  <2> QED
    BY <2>1, <2>2 DEF TreeInv
<1>4. CASE StartFixed(b)
  <2>1. row[b] # "available" /\ buggy[b] = "full" /\ UNCHANGED <<row, buggy>>
    BY <1>4 DEF StartFixed, TreeInv
  <2>2. pc'[b] = "coFixed"
    BY <1>0, <1>4 DEF StartFixed, Goto
  <2> QED
    BY <2>1, <2>2 DEF TreeInv
<1>5. CASE EndFixed(b)
  <2>1. row[b] # "available" /\ buggy[b] = "full" /\ UNCHANGED <<row, buggy>> /\ pc'[b] = "rowLock"
    BY <1>0, <1>5 DEF EndFixed, Goto, TreeInv
  <2>2. result'[b] = "available" => fixed'[b] = "full"
    BY <1>0, <1>5 DEF EndFixed
  <2> QED
    BY <2>1, <2>2 DEF TreeInv, Whole
<1>6. CASE ReadRows(b)
  BY <1>0, <1>6 DEF ReadRows, Goto, TreeInv, Whole, disk
<1>7. CASE ReplaceRows(b)
  <2>1. row'[b] = result[b] /\ UNCHANGED <<buggy, fixed>> /\ pc[b] = "rowWrite"
    BY <1>0, <1>7 DEF ReplaceRows
  <2>2. pc'[b] \in {"next", "failAll"}
    BY <1>0, <1>7 DEF ReplaceRows, Goto
  <2> QED
    BY <2>1, <2>2 DEF TreeInv, Whole
<1>8. ASSUME UNCHANGED <<row, buggy, fixed>>,
             pc'[b] \notin {"coBuggy", "startFixed", "coFixed", "rowLock", "rowWrite"}
      PROVE  TreeInv(b)'
  BY <1>8 DEF TreeInv, Whole
<1>9. CASE Begin(b) \/ FailCheckout(b) \/ NextPatch(b) \/ WriteCheckpoint(b) \/ Bump(b)
  BY <1>0, <1>8, <1>9 DEF Begin, FailCheckout, NextPatch, WriteCheckpoint, Bump, Goto, disk, files
<1>10. CASE Apply(b) \/ ReadPatchRows(b) \/ ReplacePatchRows(b) \/ Fingerprint(b) \/ Stage2b(b)
  BY <1>0, <1>8, <1>10 DEF Apply, ReadPatchRows, ReplacePatchRows, Fingerprint, Stage2b, Raised,
                           Goto, disk
<1>11. CASE Semantic(b) \/ Counterexample(b) \/ Memorization(b)
  BY <1>0, <1>8, <1>11 DEF Semantic, Counterexample, Memorization, Raised, StopOnBilling, Goto, disk
<1>12. CASE RaiseInStage(b) \/ RaiseInJob(b)
  BY <1>0, <1>8, <1>12 DEF RaiseInStage, RaiseInJob, Goto, disk
<1> QED
  BY <1>1, <1>2, <1>3, <1>4, <1>5, <1>6, <1>7, <1>9, <1>10, <1>11, <1>12 DEF JobStep

LEMMA TreesStep == IInv /\ TreesInv /\ [Next]_vars => TreesInv'
<1> SUFFICES ASSUME IInv, TreesInv, [Next]_vars PROVE TreesInv'
  OBVIOUS
<1>1. ASSUME NEW b \in Bug, JobStep(b) \/ RaiseInStage(b) \/ RaiseInJob(b) PROVE TreesInv'
  <2>1. ASSUME NEW c \in Bug \ {b} PROVE TreeInv(c)'
    <3>1. /\ pc'[c] = pc[c] /\ result'[c] = result[c] /\ row'[c] = row[c]
          /\ buggy'[c] = buggy[c] /\ fixed'[c] = fixed[c]
      BY <1>1, <2>1, StepsAreLocal, CsvStep, TreeStep DEF Elsewhere, IInv
    <3> QED
      BY <3>1 DEF TreesInv, TreeInv, Whole
  <2>2. TreeInv(b)'
    BY <1>1, OwnTree DEF TreesInv
  <2> QED
    BY <2>1, <2>2 DEF TreesInv
<1>2. ASSUME UNCHANGED disk, \A b \in Bug : pc'[b] \in {"off", "queued"} PROVE TreesInv'
  BY <1>2 DEF TreesInv, TreeInv, Whole, disk
<1>3. CASE \E s \in Selections, r \in Retries : Start(s, r)
  BY <1>2, <1>3 DEF Start
<1>4. CASE Kill
  BY <1>2, <1>4 DEF Kill, All
<1>5. CASE Exit \/ UNCHANGED vars
  BY <1>5 DEF Exit, vars, disk, TreesInv, TreeInv, Whole
<1> QED
  BY <1>1, <1>3, <1>4, <1>5 DEF Next

\* If the rows found at first are true of the trees found with them, no patch
\* ever runs in a tree that is missing or partial, whatever is killed when.
THEOREM TreesStayWhole == RowsAreTrue /\ Spec => []TreesAreWhole
<1>1. Init /\ RowsAreTrue => TreesInv
  BY DEF Init, All, RowsAreTrue, TreesInv, TreeInv
<1>2. IInv /\ TreesInv => TreesAreWhole
  BY DEF IInv, CsvInv, TreesInv, TreeInv, Whole, TreesAreWhole
<1> QED
  BY <1>1, <1>2, TreesStep, Invariance, PTL DEF Spec

-----------------------------------------------------------------------------
(***************************************************************************)
(* Rows of patches.  A row once written never goes back to none, and a log *)
(* past the stage apply_patch is in hand only when the row is written.     *)
(***************************************************************************)
PastApply(c) == c.term = "none" \/ (c.term = "apply_patch" /\ ~c.raised)

RowInv(b) ==
  /\ pc[b] \in {"prowLock", "prowWrite"} => result[b] # "none"
  /\ pc[b] \in {"fingerprint", "semantic", "cex", "memo", "stage2b"} => prow[cur[b]] # "none"
  /\ pc[b] = "write" /\ PastApply(log[b]) => prow[cur[b]] # "none"

RowsInv == CheckpointHasRow /\ \A b \in Bug : RowInv(b)

\* A step records the patch of its job or leaves every row.
LEMMA ProwStep ==
  ASSUME IInv, RowsInv, NEW b \in Bug, JobStep(b) \/ RaiseInStage(b) \/ RaiseInJob(b)
  PROVE  /\ \A p \in Patch : prow[p] # "none" => prow'[p] # "none"
         /\ ReplacePatchRows(b) => prow'[cur[b]] # "none"
<1>1. CASE ReplacePatchRows(b)
  <2>1. psnap[b] = prow /\ cur[b] \in Patch /\ result[b] # "none"
    BY <1>1 DEF ReplacePatchRows, IInv, CsvInv, JobInv, InHand, RowsInv, RowInv
  <2>2. prow' = [prow EXCEPT ![cur[b]] = result[b]]
    BY <1>1, <2>1 DEF ReplacePatchRows
  <2> QED
    BY <2>1, <2>2 DEF IInv, TypeInv, TypeOK
<1>2. UNCHANGED prow \/ ReplacePatchRows(b)
  BY DEF JobStep, Begin, Reuse, StartBuggy, EndBuggy, StartFixed, EndFixed, ReadRows,
         ReplaceRows, FailCheckout, NextPatch, Apply, ReadPatchRows, Fingerprint, Semantic,
         Counterexample, Memorization, Stage2b, WriteCheckpoint, Bump, RaiseInStage, RaiseInJob,
         disk, files
<1> QED
  BY <1>1, <1>2

LEMMA OwnRow ==
  ASSUME IInv, RowsInv, NEW b \in Bug, JobStep(b) \/ RaiseInStage(b) \/ RaiseInJob(b)
  PROVE  RowInv(b)'
<1>0. /\ pc \in [Bug -> Labels] /\ log \in [Bug -> CkptType]
      /\ cur \in [Bug -> Patch \cup {NoPatch}] /\ result \in [Bug -> RowState \cup PRowState]
      /\ JobInv(b) /\ RowInv(b) /\ (pc[b] \in InHand => cur[b] \in Patch)
  BY DEF IInv, TypeInv, TypeOK, RowsInv, JobInv
<1> DEFINE Stages == {"fingerprint", "semantic", "cex", "memo", "stage2b"}
\* Steps to where nothing is asked, and steps that keep a patch and its row.
<1>1. ASSUME pc'[b] \notin Stages \cup {"prowLock", "prowWrite", "write"} PROVE RowInv(b)'
  BY <1>1 DEF RowInv
<1>2. ASSUME pc[b] \in Stages, pc'[b] \in Stages \cup {"write"}, UNCHANGED cur PROVE RowInv(b)'
  <2>1. prow[cur[b]] # "none" /\ cur[b] \in Patch
    BY <1>0, <1>2 DEF RowInv, InHand
  <2>2. prow'[cur'[b]] # "none"
    BY <1>2, <2>1, ProwStep
  <2> QED
    BY <1>2, <2>2 DEF RowInv
<1>3. ASSUME pc'[b] = "write", ~PastApply(log'[b]) PROVE RowInv(b)'
  BY <1>3 DEF RowInv
<1>4. CASE \/ Begin(b) \/ Reuse(b) \/ StartBuggy(b) \/ EndBuggy(b) \/ StartFixed(b) \/ EndFixed(b)
           \/ ReadRows(b) \/ ReplaceRows(b) \/ WriteCheckpoint(b) \/ Bump(b) \/ RaiseInJob(b)
  BY <1>0, <1>1, <1>4 DEF Begin, Reuse, StartBuggy, EndBuggy, StartFixed, EndFixed, ReadRows,
       ReplaceRows, WriteCheckpoint, Bump, RaiseInJob, Goto
<1>5. CASE NextPatch(b)
  BY <1>0, <1>1, <1>5 DEF NextPatch, Goto
<1>6. CASE FailCheckout(b)
  <2>1. pc'[b] = "write" /\ log'[b].term = "checkout_bug"
    BY <1>0, <1>6 DEF FailCheckout, Goto, NewLog, NoLog
  <2> QED
    BY <1>3, <2>1 DEF PastApply
<1>7. CASE RaiseInStage(b)
  <2>1. pc'[b] = "write" /\ log'[b].term = "apply_patch" /\ log'[b].raised
    BY <1>0, <1>7 DEF RaiseInStage, Goto, CkptType
  <2> QED
    BY <1>3, <2>1 DEF PastApply
<1>8. CASE Apply(b)
  <2>1. CASE pc'[b] = "write"
    <3>1. log'[b].term = "apply_patch" /\ log'[b].raised
      BY <1>0, <1>8, <2>1 DEF Apply, Goto, CkptType
    <3> QED
      BY <1>3, <2>1, <3>1 DEF PastApply
  <2>2. CASE pc'[b] = "prowLock" /\ result'[b] # "none"
    BY <2>2 DEF RowInv
  <2> QED
    BY <1>0, <1>8, <2>1, <2>2 DEF Apply, Goto
<1>9. CASE ReadPatchRows(b)
  BY <1>0, <1>9 DEF ReadPatchRows, Goto, RowInv
<1>10. CASE ReplacePatchRows(b)
  <2>1. prow'[cur'[b]] # "none" /\ pc'[b] \in {"write", "fingerprint"}
    BY <1>0, <1>10, ProwStep DEF ReplacePatchRows, Goto
  <2> QED
    BY <2>1 DEF RowInv
<1>11. CASE Fingerprint(b) \/ Stage2b(b)
  BY <1>0, <1>2, <1>11 DEF Fingerprint, Stage2b, Raised, Goto
<1>12. CASE Semantic(b) \/ Counterexample(b) \/ Memorization(b)
  <2>1. pc[b] \in Stages /\ pc'[b] \in Stages \cup {"finished"} /\ UNCHANGED cur
    BY <1>0, <1>12 DEF Semantic, Counterexample, Memorization, Raised, StopOnBilling, Goto
  <2> QED
    BY <1>1, <1>2, <2>1
<1> QED
  BY <1>4, <1>5, <1>6, <1>7, <1>8, <1>9, <1>10, <1>11, <1>12 DEF JobStep

LEMMA RowsStep == IInv /\ RowsInv /\ [Next]_vars => RowsInv'
<1> SUFFICES ASSUME IInv, RowsInv, [Next]_vars PROVE RowsInv'
  OBVIOUS
<1>1. ASSUME NEW b \in Bug, JobStep(b) \/ RaiseInStage(b) \/ RaiseInJob(b) PROVE RowsInv'
  <2>1. ASSUME NEW c \in Bug \ {b} PROVE RowInv(c)'
    <3>1. pc'[c] = pc[c] /\ result'[c] = result[c] /\ cur'[c] = cur[c] /\ log'[c] = log[c]
      BY <1>1, <2>1, StepsAreLocal DEF Elsewhere, IInv
    <3>2. RowInv(c) /\ (pc[c] \in InHand => cur[c] \in Patch)
      BY DEF RowsInv, IInv, JobInv
    <3>3. \A p \in Patch : prow[p] # "none" => prow'[p] # "none"
      BY <1>1, ProwStep
    <3> QED
      BY <3>1, <3>2, <3>3 DEF RowInv, InHand
  <2>2. RowInv(b)'
    BY <1>1, OwnRow
  <2>3. CheckpointHasRow'
    <3>1. \A p \in Patch : prow[p] # "none" => prow'[p] # "none"
      BY <1>1, ProwStep
    <3>2. CASE UNCHANGED ckpt
      BY <3>1, <3>2 DEF RowsInv, CheckpointHasRow
    <3>3. CASE WriteCheckpoint(b)
      <4>1. cur[b] \in Patch /\ (PastApply(log[b]) => prow[cur[b]] # "none")
        BY <3>3 DEF WriteCheckpoint, RowsInv, RowInv, IInv, JobInv, InHand
      <4>2. ckpt' = [ckpt EXCEPT ![cur[b]] = log[b]] /\ ckpt \in [Patch -> CkptType]
        BY <3>3 DEF WriteCheckpoint, IInv, TypeInv, TypeOK
      <4> QED
        BY <3>1, <4>1, <4>2 DEF RowsInv, CheckpointHasRow, PastApply
    <3> QED
      BY <1>1, <3>2, <3>3, CkptStep
  <2> QED
    BY <2>1, <2>2, <2>3 DEF RowsInv
<1>2. ASSUME UNCHANGED disk, \A b \in Bug : pc'[b] \in {"off", "queued"} PROVE RowsInv'
  BY <1>2 DEF RowsInv, RowInv, CheckpointHasRow, disk
<1>3. CASE \E s \in Selections, r \in Retries : Start(s, r)
  BY <1>2, <1>3 DEF Start
<1>4. CASE Kill
  BY <1>2, <1>4 DEF Kill, All
<1>5. CASE Exit \/ UNCHANGED vars
  BY <1>5 DEF Exit, vars, disk, RowsInv, RowInv, CheckpointHasRow
<1> QED
  BY <1>1, <1>3, <1>4, <1>5 DEF Next

\* If it was so of the files found at first, every checkpoint past the stage
\* apply_patch has the row of its patch, whatever is killed when.
THEOREM RowBeforeCheckpoint == CheckpointHasRow /\ Spec => []CheckpointHasRow
<1>1. Init /\ CheckpointHasRow => RowsInv
  BY DEF Init, All, RowsInv, RowInv
<1>2. RowsInv => CheckpointHasRow
  BY DEF RowsInv
<1> QED
  BY <1>1, <1>2, RowsStep, Invariance, PTL DEF Spec

-----------------------------------------------------------------------------
(***************************************************************************)
(* Covering.  A selected patch of a pass is either still held by the job   *)
(* of its bug or has been counted; one that is not held has an honest      *)
(* checkpoint.  An abort lets go of patches, which is why it is excepted.  *)
(***************************************************************************)
HeldBy(b, p) ==
  p \in todo[b] \/ cur[b] = p \/ (pc[b] = "queued" /\ IsPending(ckpt[p], retry))
Held == {p \in sel : HeldBy(BugOf[p], p)}

\* What the files of a first pass must say: what counts as done is honest.
DoneIsHonest == \A p \in Patch : IsDone(ckpt[p]) => Honest(ckpt[p])

HoldInv(b) ==
  /\ pc[b] \in {"off", "queued"} => todo[b] = {}
  /\ pc[b] \notin InHand \cup {"finished", "raised"} => cur[b] = NoPatch
  /\ pc[b] = "finished" /\ ~abort => todo[b] = {} /\ cur[b] = NoPatch

ProcInv == proc # "running" => \A b \in Bug : pc[b] \in Settled
HoldsInv == ProcInv /\ \A b \in Bug : HoldInv(b)

\* An abort is not taken back in its pass.
LEMMA AbortStays ==
  ASSUME NEW b \in Bug, JobStep(b) \/ RaiseInStage(b) \/ RaiseInJob(b)
  PROVE  (abort => abort') /\ proc' = proc /\ pc[b] \notin Settled
  BY DEF JobStep, Begin, Reuse, StartBuggy, EndBuggy, StartFixed, EndFixed, ReadRows, ReplaceRows,
         FailCheckout, NextPatch, Apply, ReadPatchRows, ReplacePatchRows, Fingerprint, Semantic,
         Counterexample, Memorization, Stage2b, WriteCheckpoint, Bump, RaiseInStage, RaiseInJob,
         Raised, StopOnBilling, pass, Settled

\* Of the steps of a job, which change what it holds.
LEMMA HoldStep ==
  ASSUME IInv, NEW b \in Bug, JobStep(b) \/ RaiseInStage(b) \/ RaiseInJob(b)
  PROVE  \/ /\ UNCHANGED <<todo, cur>>
            /\ pc[b] # "queued" /\ pc'[b] \notin {"off", "queued"}
            /\ pc[b] \in InHand \/ pc'[b] \notin InHand \cup {"finished"}
            /\ pc'[b] \in InHand \cup {"raised"} \/ pc[b] \notin InHand
               \/ (pc'[b] = "finished" /\ abort')
         \/ Begin(b) \/ FailCheckout(b) \/ NextPatch(b) \/ Bump(b)
<1>0. pc \in [Bug -> Labels]
  BY DEF IInv, TypeInv, TypeOK
<1>1. CASE \/ Reuse(b) \/ StartBuggy(b) \/ EndBuggy(b) \/ StartFixed(b) \/ EndFixed(b)
           \/ ReadRows(b) \/ ReplaceRows(b)
  BY <1>0, <1>1 DEF Reuse, StartBuggy, EndBuggy, StartFixed, EndFixed, ReadRows, ReplaceRows,
                    Goto, InHand
<1>2. CASE Apply(b) \/ ReadPatchRows(b) \/ ReplacePatchRows(b) \/ Fingerprint(b) \/ Stage2b(b)
           \/ WriteCheckpoint(b) \/ RaiseInStage(b)
  BY <1>0, <1>2 DEF Apply, ReadPatchRows, ReplacePatchRows, Fingerprint, Stage2b, WriteCheckpoint,
                    RaiseInStage, Raised, Goto, InHand
<1>3. CASE Semantic(b) \/ Counterexample(b) \/ Memorization(b)
  BY <1>0, <1>3 DEF Semantic, Counterexample, Memorization, Raised, StopOnBilling, Goto, InHand
<1>4. CASE RaiseInJob(b)
  BY <1>0, <1>4 DEF RaiseInJob, Goto, InHand
<1> QED
  BY <1>1, <1>2, <1>3, <1>4 DEF JobStep

LEMMA OwnHold ==
  ASSUME IInv, HoldsInv, NEW b \in Bug, JobStep(b) \/ RaiseInStage(b) \/ RaiseInJob(b)
  PROVE  HoldInv(b)'
<1>0. /\ pc \in [Bug -> Labels] /\ todo \in [Bug -> SUBSET Patch]
      /\ cur \in [Bug -> Patch \cup {NoPatch}] /\ HoldInv(b)
  BY DEF IInv, TypeInv, TypeOK, HoldsInv
<1>1. CASE Begin(b)
  <2>1. UNCHANGED cur /\ cur[b] = NoPatch /\ todo[b] = {} /\ pc'[b] \in {"finished", "ensure"}
    BY <1>0, <1>1 DEF Begin, Goto, HoldInv, InHand
  <2>2. pc'[b] = "finished" => UNCHANGED todo
    BY <1>0, <1>1 DEF Begin, Goto
  <2> QED
    BY <2>1, <2>2 DEF HoldInv
<1>2. CASE FailCheckout(b)
  BY <1>0, <1>2 DEF FailCheckout, Goto, HoldInv, InHand
<1>3. CASE NextPatch(b)
  <2>1. cur[b] = NoPatch /\ pc'[b] \in {"finished", "apply"} /\ UNCHANGED abort
    BY <1>0, <1>3 DEF NextPatch, Goto, HoldInv, InHand
  <2>2. pc'[b] = "finished" => UNCHANGED <<todo, cur>> /\ (abort \/ todo[b] = {})
    BY <1>0, <1>3 DEF NextPatch, Goto
  <2> QED
    BY <2>1, <2>2 DEF HoldInv, InHand
<1>4. CASE Bump(b)
  <2>1. cur'[b] = NoPatch /\ UNCHANGED <<todo, abort>> /\ pc'[b] \in {"next", "failAll", "finished"}
    BY <1>0, <1>4 DEF Bump, Goto
  <2>2. CASE pc'[b] = "finished" /\ todo[b] = {}
    BY <2>1, <2>2 DEF HoldInv
  <2>3. CASE pc'[b] # "finished"
    BY <2>1, <2>3 DEF HoldInv
  <2> QED
    BY <1>0, <1>4, <2>2, <2>3 DEF Bump, Goto
<1>5. CASE \/ Begin(b) \/ FailCheckout(b) \/ NextPatch(b) \/ Bump(b)
  BY <1>1, <1>2, <1>3, <1>4, <1>5
<1>6. CASE /\ UNCHANGED <<todo, cur>>
           /\ pc[b] # "queued" /\ pc'[b] \notin {"off", "queued"}
           /\ pc[b] \in InHand \/ pc'[b] \notin InHand \cup {"finished"}
           /\ pc'[b] \in InHand \cup {"raised"} \/ pc[b] \notin InHand
              \/ (pc'[b] = "finished" /\ abort')
  <2>1. pc[b] \notin Settled
    BY AbortStays
  <2> QED
    BY <1>0, <1>6, <2>1 DEF HoldInv, Settled, InHand
<1> QED
  BY <1>5, <1>6, HoldStep

LEMMA HoldsStep == IInv /\ HoldsInv /\ [Next]_vars => HoldsInv'
<1> SUFFICES ASSUME IInv, HoldsInv, [Next]_vars PROVE HoldsInv'
  OBVIOUS
<1>1. ASSUME NEW b \in Bug, JobStep(b) \/ RaiseInStage(b) \/ RaiseInJob(b) PROVE HoldsInv'
  <2>1. proc' = proc /\ proc = "running" /\ (abort => abort')
    BY <1>1, AbortStays DEF HoldsInv, ProcInv
  <2>2. ASSUME NEW c \in Bug \ {b} PROVE HoldInv(c)'
    <3>1. pc'[c] = pc[c] /\ todo'[c] = todo[c] /\ cur'[c] = cur[c]
      BY <1>1, <2>2, StepsAreLocal DEF Elsewhere, IInv
    <3> QED
      BY <2>1, <3>1 DEF HoldsInv, HoldInv
  <2>3. HoldInv(b)'
    BY <1>1, OwnHold
  <2> QED
    BY <2>1, <2>2, <2>3 DEF HoldsInv, ProcInv
<1>2. ASSUME ForgetJobs, \A b \in Bug : pc'[b] \in {"off", "queued"}
      PROVE  \A b \in Bug : HoldInv(b)'
  BY <1>2 DEF ForgetJobs, All, HoldInv
<1>3. CASE \E s \in Selections, r \in Retries : Start(s, r)
  BY <1>2, <1>3 DEF Start, HoldsInv, ProcInv
<1>4. CASE Kill
  BY <1>2, <1>4 DEF Kill, All, HoldsInv, ProcInv, Settled
<1>5. CASE Exit
  BY <1>5 DEF Exit, HoldsInv, ProcInv, HoldInv
<1>6. CASE UNCHANGED vars
  BY <1>6 DEF vars, pass, HoldsInv, ProcInv, HoldInv
<1> QED
  BY <1>1, <1>3, <1>4, <1>5, <1>6 DEF Next

\* What a job lets go of: the patch it counts; with an abort, what it was queued
\* for; nothing in any other step.
LEMMA HeldStep ==
  ASSUME IInv, HoldsInv, NEW b \in Bug, JobStep(b) \/ RaiseInStage(b) \/ RaiseInJob(b)
  PROVE  \/ Held' = Held /\ ~Bump(b)
         \/ Begin(b) /\ abort /\ Held' \subseteq Held
         \/ Bump(b) /\ cur[b] \in Held /\ Held' = Held \ {cur[b]}
<1>0. /\ pc \in [Bug -> Labels] /\ todo \in [Bug -> SUBSET Patch] /\ ckpt \in [Patch -> CkptType]
      /\ cur \in [Bug -> Patch \cup {NoPatch}] /\ sel \subseteq Patch /\ UNCHANGED <<retry, sel>>
      /\ BugOf \in [Patch -> Bug] /\ NoPatch \notin Patch /\ HoldInv(b) /\ JobInv(b)
  BY ConstantsAssumption, CkptStep DEF IInv, TypeInv, TypeOK, HoldsInv
\* The patches of other bugs stay held, or not.
<1>1. ASSUME NEW p \in sel, BugOf[p] # b PROVE HeldBy(BugOf[p], p)' <=> HeldBy(BugOf[p], p)
  <2>1. BugOf[p] \in Bug \ {b} /\ p \in Patch
    BY <1>0, <1>1
  <2>2. /\ pc'[BugOf[p]] = pc[BugOf[p]] /\ todo'[BugOf[p]] = todo[BugOf[p]]
        /\ cur'[BugOf[p]] = cur[BugOf[p]]
    BY <2>1, StepsAreLocal DEF Elsewhere, IInv
  <2>3. ckpt'[p] = ckpt[p]
    <3>1. CASE WriteCheckpoint(b)
      BY <1>0, <1>1, <2>1, <3>1 DEF WriteCheckpoint, JobInv, InHand
    <3> QED
      BY <3>1, CkptStep
  <2> QED
    BY <1>0, <2>2, <2>3 DEF HeldBy
<1>2. ASSUME \A p \in sel : BugOf[p] = b => (HeldBy(b, p)' <=> HeldBy(b, p)) PROVE Held' = Held
  BY <1>0, <1>1, <1>2 DEF Held
<1>3. CASE Begin(b)
  <2> DEFINE pending == {p \in PatchesOf(b) : IsPending(ckpt[p], retry)}
  <2>1. pc[b] = "queued" /\ todo[b] = {} /\ UNCHANGED <<ckpt, cur>> /\ cur[b] = NoPatch
    BY <1>0, <1>3 DEF Begin, HoldInv, InHand, disk
  <2>2. \A p \in sel : BugOf[p] = b => (HeldBy(b, p) <=> p \in pending)
    BY <1>0, <2>1 DEF HeldBy, PatchesOf
  <2>3. CASE abort \/ pending = {}
    <3>1. pc'[b] = "finished" /\ UNCHANGED todo
      BY <1>0, <1>3, <2>3 DEF Begin, Goto
    <3>2. \A p \in sel : BugOf[p] = b => ~HeldBy(b, p)'
      BY <1>0, <2>1, <3>1 DEF HeldBy
    <3>3. CASE pending = {}
      BY <1>2, <1>3, <2>2, <3>2, <3>3 DEF Begin, Bump
    <3>4. CASE abort
      BY <1>0, <1>1, <1>3, <3>2, <3>4 DEF Held
    <3> QED
      BY <2>3, <3>3, <3>4
  <2>4. CASE ~(abort \/ pending = {})
    <3>1. pc'[b] = "ensure" /\ todo'[b] = pending
      BY <1>0, <1>3, <2>4 DEF Begin, Goto
    <3>2. \A p \in sel : BugOf[p] = b => (HeldBy(b, p)' <=> p \in pending)
      BY <1>0, <2>1, <3>1 DEF HeldBy
    <3> QED
      BY <1>2, <1>3, <2>2, <3>2 DEF Begin, Bump
  <2> QED
    BY <2>3, <2>4
<1>4. CASE FailCheckout(b) \/ NextPatch(b)
  <2>1. pc[b] \in {"failAll", "next"} /\ pc'[b] \in {"write", "finished", "apply"} /\ cur[b] = NoPatch
    BY <1>0, <1>4 DEF FailCheckout, NextPatch, Goto, HoldInv, InHand
  <2>2. \/ UNCHANGED <<todo, cur>>
        \/ \E p \in todo[b] : todo'[b] = todo[b] \ {p} /\ cur'[b] = p
    BY <1>0, <1>4 DEF FailCheckout, NextPatch
  <2>3. \A p \in sel : BugOf[p] = b => (HeldBy(b, p)' <=> HeldBy(b, p))
    BY <1>0, <2>1, <2>2 DEF HeldBy
  <2> QED
    BY <1>2, <2>1, <2>3 DEF Bump
<1>5. CASE Bump(b)
  <2>1. pc[b] = "bump" /\ pc'[b] \in {"next", "failAll", "finished"} /\ cur'[b] = NoPatch
        /\ UNCHANGED todo
    BY <1>0, <1>5 DEF Bump, Goto
  <2>2. cur[b] \in sel /\ BugOf[cur[b]] = b /\ cur[b] \notin todo[b]
    BY <1>0, <2>1 DEF JobInv, InHand
  <2>3. \A p \in sel : BugOf[p] = b => (HeldBy(b, p)' <=> HeldBy(b, p) /\ p # cur[b])
    BY <1>0, <2>1, <2>2 DEF HeldBy
  <2>4. cur[b] \in Held
    BY <2>2 DEF Held, HeldBy
  <2>5. Held' = Held \ {cur[b]}
    BY <1>0, <1>1, <2>2, <2>3 DEF Held
  <2> QED
    BY <1>5, <2>4, <2>5
<1>6. CASE ~Bump(b) /\ UNCHANGED <<todo, cur>> /\ pc[b] # "queued" /\ pc'[b] # "queued"
  <2>1. \A p \in sel : BugOf[p] = b => (HeldBy(b, p)' <=> HeldBy(b, p))
    BY <1>6 DEF HeldBy
  <2> QED
    BY <1>2, <1>6, <2>1
<1> QED
  BY <1>3, <1>4, <1>5, <1>6, HoldStep

\* The numbers.
Tally ==
  proc # "down" => /\ done + failed + Cardinality(Held) <= Cardinality(sel)
                   /\ ~abort => done + failed + Cardinality(Held) = Cardinality(sel)

LEMMA Finite ==
  ASSUME TypeInv
  PROVE  IsFiniteSet(sel) /\ IsFiniteSet(Held)
         /\ Cardinality(sel) \in Nat /\ Cardinality(Held) \in Nat
<1>1. IsFiniteSet(sel)
  BY ConstantsAssumption, FS_Subset DEF TypeInv, TypeOK
<1>2. IsFiniteSet(Held)
  BY <1>1, FS_Subset DEF Held
<1> QED
  BY <1>1, <1>2, FS_CardinalityType

LEMMA CountStep ==
  ASSUME TypeInv, NEW b \in Bug, JobStep(b) \/ RaiseInStage(b) \/ RaiseInJob(b)
  PROVE  IF Bump(b) THEN done' + failed' = done + failed + 1 ELSE UNCHANGED <<done, failed>>
<1>1. CASE Bump(b)
  BY <1>1 DEF Bump, TypeInv, TypeOK
<1>2. CASE ~Bump(b)
  BY <1>2 DEF JobStep, Begin, Reuse, StartBuggy, EndBuggy, StartFixed, EndFixed, ReadRows,
         ReplaceRows, FailCheckout, NextPatch, Apply, ReadPatchRows, ReplacePatchRows, Fingerprint,
         Semantic, Counterexample, Memorization, Stage2b, WriteCheckpoint, RaiseInStage,
         RaiseInJob, count
<1> QED
  BY <1>1, <1>2

LEMMA StartTally ==
  ASSUME IInv, NEW s \in Selections, NEW r \in Retries, Start(s, r)
  PROVE  Tally'
<1> DEFINE pending == {p \in s : IsPending(ckpt[p], r)}
<1>1. s \subseteq Patch /\ IsFiniteSet(s)
  BY ConstantsAssumption, FS_Subset
<1>2. Held' = pending
  <2>1. sel' = s /\ retry' = r /\ ckpt' = ckpt /\ todo' = All({}) /\ cur' = All(NoPatch)
    BY DEF Start, ForgetJobs, disk
  <2>2. ASSUME NEW p \in s PROVE HeldBy(BugOf[p], p)' <=> IsPending(ckpt[p], r)
    <3>1. BugOf[p] \in Bug /\ p # NoPatch
      BY <1>1, ConstantsAssumption
    <3>2. pc'[BugOf[p]] = "queued" /\ todo'[BugOf[p]] = {} /\ cur'[BugOf[p]] = NoPatch
      BY <2>1, <3>1 DEF Start, All
    <3> QED
      BY <2>1, <3>1, <3>2 DEF HeldBy
  <2> QED
    BY <2>1, <2>2 DEF Held
<1>3. done' = Cardinality(s \ pending)
  <2>1. s \ pending = {p \in s : ~IsPending(ckpt[p], r)}
    OBVIOUS
  <2> QED
    BY <2>1 DEF Start
<1>4. Cardinality(s \ pending) = Cardinality(s) - Cardinality(pending)
  <2>1. s \cap pending = pending
    OBVIOUS
  <2> QED
    BY <1>1, <2>1, FS_Difference
<1>5. Cardinality(s) \in Nat /\ Cardinality(pending) \in Nat
  <2>1. IsFiniteSet(pending)
    BY <1>1, FS_Subset
  <2> QED
    BY <1>1, <2>1, FS_CardinalityType
<1>6. sel' = s /\ failed' = 0
  BY DEF Start
<1> HIDE DEF pending
<1> QED
  BY <1>2, <1>3, <1>4, <1>5, <1>6 DEF Tally

LEMMA TallyStep == IInv /\ HoldsInv /\ Tally /\ [Next]_vars => Tally'
<1> SUFFICES ASSUME IInv, HoldsInv, Tally, [Next]_vars PROVE Tally'
  OBVIOUS
<1>1. ASSUME NEW b \in Bug, JobStep(b) \/ RaiseInStage(b) \/ RaiseInJob(b) PROVE Tally'
  <2>1. proc = "running" /\ proc' = proc /\ sel' = sel /\ (abort => abort')
    BY <1>1, AbortStays, CkptStep DEF HoldsInv, ProcInv
  <2>2. /\ IsFiniteSet(Held) /\ Cardinality(sel) \in Nat /\ Cardinality(Held) \in Nat
        /\ done \in Nat /\ failed \in Nat
    BY Finite DEF IInv, TypeInv, TypeOK
  <2>3. CASE Held' = Held /\ ~Bump(b)
    BY <1>1, <2>1, <2>2, <2>3, CountStep DEF Tally, IInv
  <2>4. CASE Begin(b) /\ abort /\ Held' \subseteq Held
    <3>1. Cardinality(Held') <= Cardinality(Held) /\ Cardinality(Held') \in Nat
      BY <2>2, <2>4, FS_Subset, FS_CardinalityType
    <3>2. UNCHANGED <<done, failed>>
      BY <2>4 DEF Begin, count
    <3> QED
      BY <2>1, <2>2, <2>4, <3>1, <3>2 DEF Tally
  <2>5. CASE Bump(b) /\ cur[b] \in Held /\ Held' = Held \ {cur[b]}
    <3>1. Cardinality(Held') = Cardinality(Held) - 1
      BY <2>2, <2>5, FS_RemoveElement
    <3>2. done' + failed' = done + failed + 1
      BY <1>1, <2>5, CountStep DEF IInv
    <3>3. done' \in Nat /\ failed' \in Nat
      BY NextType DEF IInv, TypeInv, TypeOK
    <3>4. done' + failed' + Cardinality(Held') = done + failed + Cardinality(Held)
      <4>1. done' + failed' + Cardinality(Held') = (done + failed + 1) + (Cardinality(Held) - 1)
        BY <3>1, <3>2
      <4>2. (done + failed + 1) + (Cardinality(Held) - 1) = done + failed + Cardinality(Held)
        BY <2>2
      <4> QED
        BY <4>1, <4>2
    <3> QED
      BY <2>1, <3>4 DEF Tally
  <2> QED
    BY <1>1, <2>3, <2>4, <2>5, HeldStep
<1>2. CASE \E s \in Selections, r \in Retries : Start(s, r)
  BY <1>2, StartTally
<1>3. CASE Kill
  BY <1>3 DEF Kill, Tally
<1>4. CASE Exit
  <2>1. proc = "running" /\ Held' = Held /\ UNCHANGED <<done, failed, sel, abort>>
    BY <1>4 DEF Exit, Held, HeldBy, disk, count
  <2> QED
    BY <2>1 DEF Tally
<1>5. CASE UNCHANGED vars
  <2>1. Held' = Held /\ UNCHANGED <<done, failed, sel, abort, proc>>
    BY <1>5 DEF vars, Held, HeldBy, disk, count, pass
  <2> QED
    BY <2>1 DEF Tally
<1> QED
  BY <1>1, <1>2, <1>3, <1>4, <1>5 DEF Next

\* In a clean exit nobody holds anything.
LEMMA CleanExitHoldsNone == ASSUME IInv, HoldsInv, CleanExit PROVE Held = {}
<1> SUFFICES ASSUME NEW p \in sel PROVE ~HeldBy(BugOf[p], p)
  BY DEF Held
<1>1. BugOf[p] \in Bug /\ p # NoPatch
  BY ConstantsAssumption DEF IInv, TypeInv, TypeOK
<1>2. pc[BugOf[p]] \in {"off", "finished"}
  BY <1>1 DEF CleanExit, HoldsInv, ProcInv, Settled
<1>3. todo[BugOf[p]] = {} /\ cur[BugOf[p]] = NoPatch
  BY <1>1, <1>2 DEF CleanExit, HoldsInv, HoldInv, InHand
<1> QED
  BY <1>1, <1>2, <1>3 DEF HeldBy

\* The invariants that need nothing of the files found at first.
LEMMA HoldingInvariance == Spec => [](HoldsInv /\ Tally)
<1>1. Init => HoldsInv /\ Tally
  BY DEF Init, All, HoldsInv, ProcInv, HoldInv, Settled, Tally
<1> QED
  BY <1>1, HoldsStep, TallyStep, Invariance, PTL DEF Spec

\* The progress counters never exceed the selection and add up to it in a clean
\* exit, for any number of bugs, workers, patches, passes and kills.
THEOREM CountsAddUp == Spec => []ProgressAddsUp
<1>1. IInv /\ HoldsInv /\ Tally => ProgressAddsUp
  <2> SUFFICES ASSUME IInv, HoldsInv, Tally PROVE ProgressAddsUp
    OBVIOUS
  <2>1. Cardinality(sel) \in Nat /\ Cardinality(Held) \in Nat /\ done \in Nat /\ failed \in Nat
    BY Finite DEF IInv, TypeInv, TypeOK
  <2>2. CleanExit => Cardinality(Held) = 0
    BY CleanExitHoldsNone, FS_EmptySet
  <2>3. CleanExit => proc # "down" /\ ~abort
    BY DEF CleanExit
  <2> QED
    BY <2>1, <2>2, <2>3 DEF ProgressAddsUp, Tally
<1> QED
  BY <1>1, HoldingInvariance, Invariance, PTL

-----------------------------------------------------------------------------
CoverInv ==
  /\ DoneIsHonest
  /\ \A b \in Bug : pc[b] = "bump" => Honest(ckpt[cur[b]])
  /\ proc # "down" /\ ~abort => \A p \in sel \ Held : Honest(ckpt[p])

LEMMA CoverStep == IInv /\ HoldsInv /\ CoverInv /\ [Next]_vars => CoverInv'
<1> SUFFICES ASSUME IInv, HoldsInv, CoverInv, [Next]_vars PROVE CoverInv'
  OBVIOUS
<1>1. ASSUME NEW b \in Bug, JobStep(b) \/ RaiseInStage(b) \/ RaiseInJob(b) PROVE CoverInv'
  <2>0. /\ ckpt \in [Patch -> CkptType] /\ pc \in [Bug -> Labels] /\ sel \subseteq Patch
    BY DEF IInv, TypeInv, TypeOK
\* Honest checkpoints stay honest, and a written one is.
  <2>1. /\ \A p \in Patch : ckpt'[p] = ckpt[p] \/ Honest(ckpt'[p])
        /\ WriteCheckpoint(b) => Honest(ckpt'[cur[b]]) /\ UNCHANGED cur
    <3>1. CASE WriteCheckpoint(b)
      <4>1. Honest(log[b]) /\ cur[b] \in Patch
        BY <3>1 DEF WriteCheckpoint, IInv, JobInv, InHand
      <4> QED
        BY <2>0, <3>1, <4>1 DEF WriteCheckpoint
    <3>2. ~WriteCheckpoint(b) => UNCHANGED ckpt
      BY <1>1, CkptStep
    <3> QED
      BY <3>1, <3>2
  <2>2. DoneIsHonest'
    BY <2>1 DEF CoverInv, DoneIsHonest
  <2>3. ASSUME NEW c \in Bug, pc'[c] = "bump" PROVE Honest(ckpt'[cur'[c]])
    <3>1. CASE c = b
      <4>1. WriteCheckpoint(b)
        BY <1>1, <2>0, <2>3, <3>1 DEF JobStep, Begin, Reuse, StartBuggy, EndBuggy, StartFixed, EndFixed,
           ReadRows, ReplaceRows, FailCheckout, NextPatch, Apply, ReadPatchRows, ReplacePatchRows,
           Fingerprint, Semantic, Counterexample, Memorization, Stage2b, Bump, RaiseInStage,
           RaiseInJob, Raised, StopOnBilling, Goto
      <4> QED
        BY <2>1, <3>1, <4>1
    <3>2. CASE c # b
      <4>1. pc[c] = "bump" /\ cur'[c] = cur[c] /\ cur[c] \in Patch
        BY <1>1, <2>3, <3>2, StepsAreLocal DEF Elsewhere, IInv, JobInv, InHand
      <4> QED
        BY <2>1, <4>1 DEF CoverInv
    <3> QED
      BY <3>1, <3>2
  <2>4. ASSUME proc' # "down", ~abort', NEW p \in sel' \ Held' PROVE Honest(ckpt'[p])
    <3>1. proc # "down" /\ ~abort /\ sel' = sel /\ p \in Patch
      BY <1>1, <2>0, <2>4, AbortStays, CkptStep
    <3>2. CASE p \notin Held
      BY <2>1, <2>4, <3>1, <3>2 DEF CoverInv
    <3>3. CASE p \in Held
      <4>1. Bump(b) /\ p = cur[b]
        BY <1>1, <2>4, <3>1, <3>3, HeldStep
      <4> QED
        BY <2>1, <3>1, <4>1 DEF CoverInv, Bump
    <3> QED
      BY <3>2, <3>3
  <2> QED
    BY <2>2, <2>3, <2>4 DEF CoverInv
<1>2. ASSUME NEW s \in Selections, NEW r \in Retries, Start(s, r) PROVE CoverInv'
  <2>1. /\ sel' = s /\ retry' = r /\ UNCHANGED ckpt /\ s \subseteq Patch
        /\ \A c \in Bug : pc'[c] \in {"off", "queued"}
    BY <1>2, ConstantsAssumption DEF Start, disk
  <2>2. ASSUME NEW p \in sel' \ Held' PROVE IsDone(ckpt[p])
    <3>1. BugOf[p] \in Bug /\ p \in s
      BY <2>1, ConstantsAssumption
    <3>2. pc'[BugOf[p]] = "queued"
      BY <1>2, <3>1 DEF Start
    <3>3. ~IsPending(ckpt[p], r)
      BY <2>1, <2>2, <3>2 DEF Held, HeldBy
    <3> QED
      BY <3>3 DEF IsPending
  <2> QED
    BY <2>1, <2>2 DEF CoverInv, DoneIsHonest
<1>3. CASE Kill
  BY <1>3 DEF Kill, All, CoverInv, DoneIsHonest, disk
<1>4. CASE Exit
  BY <1>4 DEF Exit, CoverInv, DoneIsHonest, Held, HeldBy, disk
<1>5. CASE UNCHANGED vars
  BY <1>5 DEF vars, CoverInv, DoneIsHonest, Held, HeldBy, disk, pass
<1> QED
  BY <1>1, <1>2, <1>3, <1>4, <1>5 DEF Next

\* If what counted as done was honest at first, every clean exit leaves an
\* honest checkpoint for every selected patch.
THEOREM CleanExitLeavesAll == DoneIsHonest /\ Spec => []CleanExitCovers
<1>1. Init /\ DoneIsHonest => CoverInv
  BY DEF Init, All, CoverInv
<1>2. IInv /\ HoldsInv /\ CoverInv => CleanExitCovers
  <2> SUFFICES ASSUME IInv, HoldsInv, CoverInv, CleanExit, NEW p \in sel PROVE Honest(ckpt[p])
    BY DEF CleanExitCovers
  <2>1. p \notin Held /\ proc # "down" /\ ~abort
    BY CleanExitHoldsNone DEF CleanExit
  <2> QED
    BY <2>1 DEF CoverInv
<1> QED
  BY <1>1, <1>2, CoverStep, HoldingInvariance, Invariance, PTL DEF Spec

-----------------------------------------------------------------------------
(***************************************************************************)
(* Files of the program's own making.  The three results above start from  *)
(* files that are in order; those of a first pass are, for there are none, *)
(* and every later pass finds what the earlier ones left.                  *)
(***************************************************************************)
NothingRun == (\A p \in Patch : ckpt[p].kind = "none") /\ \A b \in Bug : row[b] = "none"

\* Whatever passes are aborted, killed or end in an exception, the files that
\* this program alone has written keep their promises: whole trees, a row for
\* every applied patch, an honest checkpoint for every patch of a clean pass.
THEOREM OwnFilesAreInOrder ==
  NothingRun /\ Spec => [](TreesAreWhole /\ CheckpointHasRow /\ CleanExitCovers)
<1>1. NothingRun => RowsAreTrue /\ CheckpointHasRow /\ DoneIsHonest
  BY DEF NothingRun, RowsAreTrue, CheckpointHasRow, DoneIsHonest, IsDone
<1> QED
  BY <1>1, TreesStayWhole, RowBeforeCheckpoint, CleanExitLeavesAll, PTL

-----------------------------------------------------------------------------
(***************************************************************************)
(* Why a pass ends.  The work left to a job is a number that each of its   *)
(* steps lowers and no step of another job changes, and while it is left   *)
(* some job is free to go on.  That a job which is free does go on is the  *)
(* fairness of the pool.                                                   *)
(***************************************************************************)

\* How far a label is from the end of a patch, or of the bug's checkout.
Distance(l) ==
  CASE l = "queued" -> 19    [] l = "ensure" -> 18     [] l = "coBuggy" -> 17
    [] l = "startFixed" -> 16 [] l = "coFixed" -> 15   [] l = "rowLock" -> 14
    [] l = "rowWrite" -> 13  [] l = "apply" -> 12      [] l = "prowLock" -> 11
    [] l = "prowWrite" -> 10 [] l = "fingerprint" -> 9 [] l = "semantic" -> 8
    [] l = "cex" -> 7        [] l = "memo" -> 6        [] l = "stage2b" -> 5
    [] l = "write" -> 4      [] l = "bump" -> 3
    [] l = "next" -> 2       [] l = "failAll" -> 2     [] OTHER -> 0

\* The patches a job has not taken yet, at most.
Ahead(b) == IF pc[b] = "queued" THEN PatchesOf(b) ELSE todo[b]

WorkLeft(b) == 20 * Cardinality(Ahead(b)) + Distance(pc[b])

\* A step of a job lowers its own work, and leaves that of the others as it is.
WorkRunsOut ==
  [][\A b \in Bug : JobStep(b) \/ RaiseInStage(b) \/ RaiseInJob(b) =>
       /\ WorkLeft(b) \in Nat /\ WorkLeft(b)' \in Nat /\ WorkLeft(b)' < WorkLeft(b)
       /\ \A c \in Bug \ {b} : WorkLeft(c)' = WorkLeft(c)]_vars

LEMMA DistanceType == \A l : Distance(l) \in 0..19
  BY DEF Distance

\* Sets of patches are finite.
LEMMA AheadFinite ==
  ASSUME NEW S \in SUBSET Patch
  PROVE  IsFiniteSet(S) /\ Cardinality(S) \in Nat
  BY ConstantsAssumption, FS_Subset, FS_CardinalityType

\* Most steps go forward with the same patches.
LEMMA StepsGoForward ==
  ASSUME IInv, NEW b \in Bug,
         \/ Reuse(b) \/ StartBuggy(b) \/ EndBuggy(b) \/ StartFixed(b) \/ EndFixed(b)
         \/ ReadRows(b) \/ ReplaceRows(b) \/ Apply(b) \/ ReadPatchRows(b) \/ ReplacePatchRows(b)
         \/ Fingerprint(b) \/ Semantic(b) \/ Counterexample(b) \/ Memorization(b) \/ Stage2b(b)
         \/ WriteCheckpoint(b) \/ Bump(b) \/ RaiseInStage(b) \/ RaiseInJob(b)
  PROVE  /\ Distance(pc'[b]) < Distance(pc[b])
         /\ todo' = todo /\ pc[b] # "queued" /\ pc'[b] # "queued"
<1>0. pc \in [Bug -> Labels]
  BY DEF IInv, TypeInv, TypeOK
<1>1. CASE \/ Reuse(b) \/ StartBuggy(b) \/ EndBuggy(b) \/ StartFixed(b) \/ EndFixed(b)
           \/ ReadRows(b) \/ ReplaceRows(b)
  BY <1>0, <1>1 DEF Reuse, StartBuggy, EndBuggy, StartFixed, EndFixed, ReadRows, ReplaceRows,
                    Goto, Distance
<1>2. CASE Apply(b) \/ ReadPatchRows(b) \/ ReplacePatchRows(b)
  BY <1>0, <1>2 DEF Apply, ReadPatchRows, ReplacePatchRows, Goto, Distance
<1>3. CASE Fingerprint(b) \/ Semantic(b)
  BY <1>0, <1>3 DEF Fingerprint, Semantic, Raised, StopOnBilling, Goto, Distance
<1>4. CASE Counterexample(b) \/ Memorization(b)
  BY <1>0, <1>4 DEF Counterexample, Memorization, Raised, StopOnBilling, Goto, Distance
<1>5. CASE Stage2b(b) \/ WriteCheckpoint(b) \/ Bump(b) \/ RaiseInStage(b)
  BY <1>0, <1>5 DEF Stage2b, WriteCheckpoint, Bump, RaiseInStage, Goto, Distance
<1>6. CASE RaiseInJob(b)
  BY <1>0, <1>6 DEF RaiseInJob, Goto, Distance
<1> QED
  BY <1>1, <1>2, <1>3, <1>4, <1>5, <1>6

\* A patch that is taken is one less.
LEMMA TakingOne ==
  ASSUME IInv, NEW b \in Bug, FailCheckout(b) \/ NextPatch(b), todo' # todo
  PROVE  /\ pc[b] \in {"next", "failAll"} /\ pc'[b] \in {"apply", "write"}
         /\ \E p \in todo[b] : todo'[b] = todo[b] \ {p}
<1>0. pc \in [Bug -> Labels] /\ todo \in [Bug -> SUBSET Patch]
  BY DEF IInv, TypeInv, TypeOK
<1>1. CASE FailCheckout(b)
  BY <1>0, <1>1 DEF FailCheckout, Goto
<1>2. CASE NextPatch(b)
  BY <1>0, <1>2 DEF NextPatch, Goto
<1> QED
  BY <1>1, <1>2

\* The work a job has left goes down in each of its steps.
LEMMA WorkStep ==
  ASSUME IInv, HoldsInv, IInv', NEW b \in Bug, JobStep(b) \/ RaiseInStage(b) \/ RaiseInJob(b)
  PROVE  WorkLeft(b) \in Nat /\ WorkLeft(b)' \in Nat /\ WorkLeft(b)' < WorkLeft(b)
<1> DEFINE n == Cardinality(Ahead(b))
           m == Cardinality(Ahead(b)')
           d == Distance(pc[b])
           e == Distance(pc'[b])
<1>0. /\ pc \in [Bug -> Labels] /\ todo \in [Bug -> SUBSET Patch]
      /\ IsFiniteSet(Ahead(b)) /\ n \in Nat /\ m \in Nat
  <2>1. Ahead(b) \in SUBSET Patch /\ Ahead(b)' \in SUBSET Patch
    BY DEF IInv, TypeInv, TypeOK, Ahead, PatchesOf
  <2>2. IsFiniteSet(Ahead(b)) /\ n \in Nat /\ m \in Nat
    BY <2>1, AheadFinite
  <2> QED
    BY <2>2 DEF IInv, TypeInv, TypeOK
<1>1. d \in 0..19 /\ e \in 0..19
  BY DistanceType
<1>2. WorkLeft(b) = 20 * n + d /\ WorkLeft(b)' = 20 * m + e
  BY DEF WorkLeft
<1>3. (m <= n /\ e < d) \/ (m = n - 1 /\ d = 2)
  <2>1. CASE Begin(b)
    <3>1. todo[b] = {} /\ pc[b] = "queued" /\ pc'[b] \in {"finished", "ensure"}
      BY <1>0, <2>1 DEF Begin, Goto, HoldsInv, HoldInv
    <3>2. UNCHANGED sel
      BY <2>1 DEF Begin, pass
    <3>3. todo'[b] \subseteq PatchesOf(b)
      BY <1>0, <2>1, <3>1 DEF Begin
    <3>4. Ahead(b)' \subseteq Ahead(b)
      BY <3>1, <3>3 DEF Ahead
    <3>5. m <= n
      BY <1>0, <3>4, FS_Subset
    <3>6. e < d
      BY <3>1 DEF Distance
    <3> QED
      BY <3>5, <3>6
  <2>2. CASE (FailCheckout(b) \/ NextPatch(b)) /\ todo' # todo
    <3>1. PICK p \in todo[b] : todo'[b] = todo[b] \ {p}
      BY <2>2, TakingOne
    <3>2. pc[b] \in {"next", "failAll"} /\ pc'[b] \in {"apply", "write"}
      BY <2>2, TakingOne
    <3>3. Ahead(b) = todo[b] /\ Ahead(b)' = todo[b] \ {p}
      BY <3>1, <3>2 DEF Ahead
    <3>4. m = n - 1
      <4>1. p \in Ahead(b) /\ Ahead(b)' = Ahead(b) \ {p}
        BY <3>1, <3>3
      <4>2. Cardinality(Ahead(b) \ {p}) = Cardinality(Ahead(b)) - 1
        BY <1>0, <4>1, FS_RemoveElement
      <4> QED
        BY <4>1, <4>2
    <3>5. d = 2
      BY <3>2 DEF Distance
    <3> QED
      BY <3>4, <3>5
  <2>3. CASE (FailCheckout(b) \/ NextPatch(b)) /\ todo' = todo
    <3>1. /\ pc[b] \in {"next", "failAll"}
          /\ pc'[b] = "finished"
      <4>1. ~FailCheckout(b)
        BY <1>0, <2>3 DEF FailCheckout
      <4>2. NextPatch(b) /\ pc[b] = "next"
        BY <2>3, <4>1 DEF NextPatch
      <4>3. ~\E p \in todo[b] : todo' = [todo EXCEPT ![b] = @ \ {p}]
        BY <1>0, <2>3
      <4> QED
        BY <1>0, <4>2, <4>3 DEF NextPatch, Goto
    <3>2. Ahead(b)' = Ahead(b)
      BY <2>3, <3>1 DEF Ahead
    <3>3. e < d
      BY <3>1 DEF Distance
    <3> QED
      BY <1>0, <3>2, <3>3
  <2>4. CASE ~(Begin(b) \/ FailCheckout(b) \/ NextPatch(b))
    <3>1. e < d /\ todo' = todo /\ pc[b] # "queued" /\ pc'[b] # "queued"
      BY <2>4, StepsGoForward DEF JobStep
    <3>2. Ahead(b)' = Ahead(b)
      BY <3>1 DEF Ahead
    <3> QED
      BY <1>0, <3>1, <3>2
  <2> QED
    BY <2>1, <2>2, <2>3, <2>4
<1> HIDE DEF n, m, d, e
<1> QED
  BY <1>0, <1>1, <1>2, <1>3

\* Each job is through after at most as many steps as it had work left, whatever
\* the others do in between.
THEOREM JobsRunOutOfWork == Spec => WorkRunsOut
<1> DEFINE Lowered ==
      \A b \in Bug : JobStep(b) \/ RaiseInStage(b) \/ RaiseInJob(b) =>
        /\ WorkLeft(b) \in Nat /\ WorkLeft(b)' \in Nat /\ WorkLeft(b)' < WorkLeft(b)
        /\ \A c \in Bug \ {b} : WorkLeft(c)' = WorkLeft(c)
<1>1. ASSUME IInv, HoldsInv, IInv' PROVE Lowered
  <2> SUFFICES ASSUME NEW b \in Bug, JobStep(b) \/ RaiseInStage(b) \/ RaiseInJob(b)
               PROVE  /\ WorkLeft(b) \in Nat /\ WorkLeft(b)' \in Nat /\ WorkLeft(b)' < WorkLeft(b)
                      /\ \A c \in Bug \ {b} : WorkLeft(c)' = WorkLeft(c)
    OBVIOUS
  <2>1. WorkLeft(b) \in Nat /\ WorkLeft(b)' \in Nat /\ WorkLeft(b)' < WorkLeft(b)
    BY <1>1, WorkStep
  <2>2. ASSUME NEW c \in Bug \ {b} PROVE WorkLeft(c)' = WorkLeft(c)
    <3>1. pc'[c] = pc[c] /\ todo'[c] = todo[c] /\ sel' = sel
      BY <1>1, StepsAreLocal, CkptStep DEF Elsewhere, IInv
    <3> QED
      BY <3>1 DEF WorkLeft, Ahead, PatchesOf
  <2> QED
    BY <2>1, <2>2
<1>2. IInv /\ HoldsInv /\ IInv' => [Lowered]_vars
  BY <1>1
<1> QED
  BY <1>2, Invariance, HoldingInvariance, PTL DEF Spec, WorkRunsOut

-----------------------------------------------------------------------------
\* Every outcome of a stage is one of its outcomes: there is one.
StagesEnd == ApplyOut # {} /\ AuxOut # {} /\ SemOut # {} /\ ArmOut # {}

\* A job that is not settled waits for a worker, for the lock, or for nobody.
Waits(b) ==
  \/ pc[b] = "queued" /\ Cardinality(Active) >= Workers
  \/ pc[b] \in {"rowLock", "prowLock"} /\ lock # NoBug

\* The guards of the steps of a job.
CanStep(b) ==
  /\ pc[b] \notin Settled /\ ~Waits(b)
  /\ pc[b] = "failAll" => todo[b] # {}
  /\ pc[b] = "apply" => ApplyOut # {}
  /\ pc[b] \in {"fingerprint", "stage2b"} => AuxOut # {}
  /\ pc[b] = "semantic" => SemOut # {}
  /\ pc[b] \in {"cex", "memo"} => ArmOut # {}

\* Jobs do not wait for one another in a circle, neither for the lock nor for
\* the workers of the pool.
SomeJobCanStep ==
  proc = "running" => (\A b \in Bug : pc[b] \in Settled) \/ \E b \in Bug : CanStep(b)

\* The lock is held by a job that rewrites a CSV.
LockHeld == lock # NoBug => lock \in Bug /\ pc[lock] \in {"rowWrite", "prowWrite"}

\* A job that checks out its trees has patches to run in them.
AtCheckout ==
  {"ensure", "coBuggy", "startFixed", "coFixed", "rowLock", "rowWrite", "failAll"}
CheckoutHasWork == \A b \in Bug : pc[b] \in AtCheckout => todo[b] # {}
FreeInv == LockHeld /\ CheckoutHasWork

\* Where a step of a job leads with respect to the checkout and the lock.
LEMMA FreeOwn ==
  ASSUME IInv, HoldsInv, FreeInv, NEW b \in Bug, JobStep(b) \/ RaiseInStage(b) \/ RaiseInJob(b)
  PROVE  /\ pc'[b] \in AtCheckout => todo'[b] # {}
         /\ pc[b] \in {"rowWrite", "prowWrite"} => lock' = NoBug
         /\ lock' = b /\ lock # b => pc'[b] \in {"rowWrite", "prowWrite"}
<1>0. pc \in [Bug -> Labels] /\ todo \in [Bug -> SUBSET Patch] /\ NoBug \notin Bug
      /\ (pc[b] \in AtCheckout => todo[b] # {})
  BY ConstantsAssumption DEF IInv, TypeInv, TypeOK, FreeInv, CheckoutHasWork
<1>1. CASE Begin(b)
  BY <1>0, <1>1 DEF Begin, Goto, AtCheckout
<1>2. CASE Reuse(b) \/ StartBuggy(b) \/ EndBuggy(b) \/ StartFixed(b) \/ EndFixed(b)
  BY <1>0, <1>2 DEF Reuse, StartBuggy, EndBuggy, StartFixed, EndFixed, Goto, AtCheckout
<1>3. CASE ReadRows(b) \/ ReplaceRows(b)
  BY <1>0, <1>3 DEF ReadRows, ReplaceRows, Goto, AtCheckout
<1>4. CASE FailCheckout(b) \/ NextPatch(b) \/ WriteCheckpoint(b)
  BY <1>0, <1>4 DEF FailCheckout, NextPatch, WriteCheckpoint, Goto, AtCheckout
<1>5. CASE Apply(b) \/ ReadPatchRows(b) \/ ReplacePatchRows(b)
  BY <1>0, <1>5 DEF Apply, ReadPatchRows, ReplacePatchRows, Goto, AtCheckout
<1>6. CASE Fingerprint(b) \/ Semantic(b) \/ Stage2b(b)
  BY <1>0, <1>6 DEF Fingerprint, Semantic, Stage2b, Raised, StopOnBilling, Goto, AtCheckout
<1>7. CASE Counterexample(b) \/ Memorization(b)
  BY <1>0, <1>7 DEF Counterexample, Memorization, Raised, StopOnBilling, Goto, AtCheckout
<1>8. CASE Bump(b)
  BY <1>0, <1>8 DEF Bump, Goto, AtCheckout
<1>9. CASE RaiseInStage(b) \/ RaiseInJob(b)
  BY <1>0, <1>9 DEF RaiseInStage, RaiseInJob, Goto, AtCheckout
<1> QED
  BY <1>1, <1>2, <1>3, <1>4, <1>5, <1>6, <1>7, <1>8, <1>9 DEF JobStep

\* Every step preserves it.
LEMMA FreeStep == IInv /\ HoldsInv /\ FreeInv /\ [Next]_vars => FreeInv'
<1> SUFFICES ASSUME IInv, HoldsInv, FreeInv, [Next]_vars PROVE FreeInv'
  OBVIOUS
<1>1. ASSUME NEW b \in Bug, JobStep(b) \/ RaiseInStage(b) \/ RaiseInJob(b) PROVE FreeInv'
  <2>1. \A c \in Bug \ {b} : pc'[c] = pc[c] /\ todo'[c] = todo[c]
    BY <1>1, StepsAreLocal DEF Elsewhere, IInv
  <2>2. /\ pc'[b] \in AtCheckout => todo'[b] # {}
        /\ pc[b] \in {"rowWrite", "prowWrite"} => lock' = NoBug
        /\ lock' = b /\ lock # b => pc'[b] \in {"rowWrite", "prowWrite"}
    BY <1>1, FreeOwn
  <2>3. CheckoutHasWork'
    BY <2>1, <2>2 DEF FreeInv, CheckoutHasWork
  <2>4. LockHeld'
    <3>1. \/ UNCHANGED lock
          \/ lock = NoBug /\ lock' = b
          \/ lock' = NoBug
      BY <1>1, LockStep
    <3>2. CASE UNCHANGED lock /\ lock # NoBug
      \* The holder would have let go of it: the step is another job's.
      <4>1. lock \in Bug \ {b}
        BY <2>2, <3>2 DEF FreeInv, LockHeld
      <4> QED
        BY <2>1, <3>2, <4>1 DEF FreeInv, LockHeld
    <3>3. CASE lock' = NoBug
      BY <3>3 DEF LockHeld
    <3>4. CASE lock = NoBug /\ lock' = b
      BY <2>2, <3>4, ConstantsAssumption DEF LockHeld
    <3> QED
      BY <3>1, <3>2, <3>3, <3>4
  <2> QED
    BY <2>3, <2>4 DEF FreeInv
<1>2. CASE \E s \in Selections, r \in Retries : Start(s, r)
  <2>1. \A b \in Bug : pc'[b] \in {"off", "queued"}
    BY <1>2 DEF Start
  <2>2. lock' = lock /\ proc # "running"
    BY <1>2 DEF Start
  <2>3. lock = NoBug
    BY <2>2 DEF FreeInv, LockHeld, HoldsInv, ProcInv, Settled
  <2> QED
    BY <2>1, <2>2, <2>3 DEF FreeInv, LockHeld, CheckoutHasWork, AtCheckout
<1>3. CASE Kill
  BY <1>3 DEF Kill, All, FreeInv, LockHeld, CheckoutHasWork, AtCheckout
<1>4. CASE Exit \/ UNCHANGED vars
  BY <1>4 DEF Exit, vars, FreeInv, LockHeld, CheckoutHasWork
<1> QED
  BY <1>1, <1>2, <1>3, <1>4 DEF Next

\* While a pass runs, it can exit or some job can go on: the holder of the lock,
\* an active job when there is none, or a queued one when no worker is busy.
THEOREM NobodyWaitsForever == ASSUME StagesEnd PROVE Spec => []SomeJobCanStep
<1>1. Init => FreeInv
  BY DEF Init, All, FreeInv, LockHeld, CheckoutHasWork, AtCheckout
<1>2. ASSUME IInv, FreeInv PROVE SomeJobCanStep
  <2> SUFFICES ASSUME NEW a \in Bug, pc[a] \notin Settled PROVE \E b \in Bug : CanStep(b)
    BY DEF SomeJobCanStep
  <2>1. CASE lock # NoBug
    <3>1. lock \in Bug /\ pc[lock] \in {"rowWrite", "prowWrite"}
      BY <1>2, <2>1 DEF FreeInv, LockHeld
    <3> QED
      BY <3>1 DEF CanStep, Waits, Settled
  <2>2. CASE lock = NoBug /\ Active # {}
    <3>1. PICK b \in Bug : pc[b] \notin Settled \cup {"queued"}
      BY <2>2 DEF Active
    <3>2. pc[b] = "failAll" => todo[b] # {}
      BY <1>2 DEF FreeInv, CheckoutHasWork, AtCheckout
    <3> QED
      BY <1>2, <2>2, <3>1, <3>2 DEF CanStep, Waits, StagesEnd
  <2>3. CASE Active = {}
    <3>1. pc[a] = "queued"
      BY <2>3 DEF Active
    <3>2. ~(Cardinality(Active) >= Workers)
      BY <2>3, FS_EmptySet, ConstantsAssumption
    <3> QED
      BY <3>1, <3>2 DEF CanStep, Waits, Settled
  <2> QED
    BY <2>1, <2>2, <2>3
<1> QED
  BY <1>1, <1>2, FreeStep, Invariance, HoldingInvariance, PTL DEF Spec
=============================================================================
