------------------------------ MODULE RunFull ------------------------------
(***************************************************************************)
(* The full-run orchestrator, experiment_v2/src/run_full.py, with the      *)
(* parts of d4j.py it drives: the bug checkouts and the two status CSVs.   *)
(*                                                                         *)
(* A pass of the program queues one job per bug in a thread pool.  A job   *)
(* makes sure the bug's buggy and fixed trees are checked out, then runs   *)
(* its pending patches one after the other through the stages apply,       *)
(* fingerprint, semantic, counterexample, memorization, stage2b, and       *)
(* writes one checkpoint per patch.  A billing error in any arm stops the  *)
(* pass.  The process can be killed at any point and started again; only   *)
(* the files survive.                                                      *)
(***************************************************************************)
EXTENDS Integers, FiniteSets

CONSTANTS
  Patch,       \* the patches of the manifest with included_primary true
  Bug,         \* the Defects4J bugs they belong to
  BugOf,       \* the bug of each patch
  Workers,     \* --workers
  Selections,  \* the sets of patches a pass may be restricted to by --only
  Retries,     \* the values --retry-errors may take
  InitDisks,   \* the files a first pass may find (see DiskType)
  ApplyOut,    \* outcomes of the stages, subsets of the sets below
  AuxOut,
  SemOut,
  ArmOut,
  MaxStarts,   \* bound: passes started in one behaviour
  MaxRaises,   \* bound: exceptions that escape a job in one behaviour
  NoPatch,     \* no patch is being worked on
  NoBug        \* the lock is free

Term     == {"none", "apply_patch", "checkout_bug"}
SemRes   == {"none", "null", "score", "billing"}
ArmRes   == {"none", "error", "ok", "billing"}

\* A checkpoint file: missing, unreadable, or the JSON log of a patch, whose
\* stages are abstracted to whether one of them raised.
CkptType == [kind : {"none", "torn", "log"}, term : Term, raised : BOOLEAN,
             sem : SemRes, cex : ArmRes, memo : ArmRes, complete : BOOLEAN]

TreeState == {"absent", "partial", "full"}
RowState  == {"none", "available", "unavailable"}
PRowState == {"none", "applies", "rejected"}

DiskType == [ckpt : [Patch -> CkptType], row : [Bug -> RowState], prow : [Patch -> PRowState],
             buggy : [Bug -> TreeState], fixed : [Bug -> TreeState]]

ASSUME ConstantsAssumption ==
  /\ IsFiniteSet(Patch)
  /\ BugOf \in [Patch -> Bug]
  /\ Workers \in Nat \ {0}
  /\ Selections \subseteq SUBSET Patch
  /\ Retries \subseteq BOOLEAN
  /\ InitDisks \subseteq DiskType
  /\ ApplyOut \subseteq {"raised", "rejected", "applied"}
  /\ AuxOut \subseteq {"raised", "ok"}
  /\ SemOut \subseteq {"raised", "null", "score", "billing"}
  /\ ArmOut \subseteq {"raised", "error", "ok", "billing"}
  /\ MaxStarts \in Nat /\ MaxRaises \in Nat
  /\ NoPatch \notin Patch /\ NoBug \notin Bug

VARIABLES
  \* files: they survive a kill
  ckpt,    \* results/full_run/checkpoints/<patch_id>.json
  row,     \* d4j_status.csv: are buggy and fixed recorded available?
  prow,    \* patch_d4j_status.csv: patch_applies
  buggy,   \* workspaces/buggy/<bug>
  fixed,   \* workspaces/fixed_oracle/<bug>
  \* the pass
  proc,    \* "down", "running" or "exited"
  retry,   \* --retry-errors
  sel,     \* the selected patches
  abort,   \* BILLING_ABORT
  lock,    \* the job holding STATUS_LOCK
  done, failed,  \* _progress
  \* the job of each bug
  pc,
  todo,    \* to_do, without the patches already taken
  cur,     \* patch_id
  log,     \* the log of the patch being run
  result,  \* the status about to be recorded in a CSV
  rsnap,   \* d4j_status.csv as read by the job that rewrites it
  psnap,   \* patch_d4j_status.csv, likewise
  \* bounds
  starts, raises

disk  == <<ckpt, row, prow, buggy, fixed>>
files == <<row, prow, buggy, fixed>>
pass  == <<proc, retry, sel, starts, raises>>
count == <<done, failed>>
csv   == <<row, prow, rsnap, psnap, lock>>
vars  == <<disk, pass, count, abort, lock, pc, todo, cur, log, result, rsnap, psnap>>

-----------------------------------------------------------------------------
NoLog  == [kind |-> "none", term |-> "none", raised |-> FALSE, sem |-> "none",
           cex |-> "none", memo |-> "none", complete |-> FALSE]
NewLog == [NoLog EXCEPT !.kind = "log"]

HasBilling(c) == "billing" \in {c.sem, c.cex, c.memo}
ArmsReal(c)   == c.sem = "score" /\ c.cex = "ok" /\ c.memo = "ok"

\* Mutant of IsDone: the stored flag is trusted, as before DEVIATIONS.md #15.
IsDoneByFlag(c) == c.kind = "log" /\ (c.term # "none" \/ c.complete)

\* is_done and _checkpoint_is_done: re-derived from the arms, never from the
\* stored complete flag; a missing or unreadable file is not done.
IsDone(c) == /\ c.kind = "log"
             /\ c.term # "none" \/ (ArmsReal(c) /\ ~c.raised)

\* _has_stage_error: an unreadable file counts as an error.
HasStageError(c) == c.kind = "torn" \/ (c.kind = "log" /\ c.raised)

\* The patches a pass works on.
IsPending(c, r) == ~IsDone(c) \/ (r /\ HasStageError(c))

PatchesOf(b) == {p \in sel : BugOf[p] = b}
Settled      == {"off", "finished", "raised"}
Active       == {b \in Bug : pc[b] \notin Settled \cup {"queued"}}

Goto(b, l) == pc' = [pc EXCEPT ![b] = l]

-----------------------------------------------------------------------------
NoRows  == [b \in Bug |-> "none"]
NoPRows == [p \in Patch |-> "none"]
All(v)  == [b \in Bug |-> v]

Init ==
  /\ \E d \in InitDisks : /\ ckpt = d.ckpt
                          /\ row = d.row /\ prow = d.prow
                          /\ buggy = d.buggy /\ fixed = d.fixed
  /\ proc = "down" /\ retry = FALSE /\ sel = {}
  /\ abort = FALSE /\ lock = NoBug
  /\ done = 0 /\ failed = 0
  /\ starts = 0 /\ raises = 0
  /\ pc = All("off") /\ todo = All({}) /\ cur = All(NoPatch) /\ log = All(NoLog)
  /\ result = All("none") /\ rsnap = All(NoRows) /\ psnap = All(NoPRows)

\* A new process, or none: the local variables of its jobs are gone.
ForgetJobs ==
  /\ todo' = All({}) /\ cur' = All(NoPatch) /\ log' = All(NoLog)
  /\ result' = All("none") /\ rsnap' = All(NoRows) /\ psnap' = All(NoPRows)

\* Mutant of Start: a patch that will be redone is counted as already done.
StartCountingRedone(s, r) ==
  /\ proc # "running" /\ starts < MaxStarts
  /\ proc' = "running" /\ retry' = r /\ sel' = s
  /\ starts' = starts + 1
  /\ abort' = FALSE
  /\ done' = Cardinality({p \in s : IsDone(ckpt[p])})
  /\ failed' = 0
  /\ pc' = [b \in Bug |-> IF \E p \in s : BugOf[p] = b THEN "queued" ELSE "off"]
  /\ ForgetJobs
  /\ UNCHANGED <<disk, lock, raises>>

\* run: count what is already done and queue one job per bug.  A pass whose
\* preflight balance check fails exits before it changes anything.
Start(s, r) ==
  /\ proc # "running" /\ starts < MaxStarts
  /\ proc' = "running" /\ retry' = r /\ sel' = s
  /\ starts' = starts + 1
  /\ abort' = FALSE
  /\ done' = Cardinality({p \in s : ~IsPending(ckpt[p], r)})
  /\ failed' = 0
  /\ pc' = [b \in Bug |-> IF \E p \in s : BugOf[p] = b THEN "queued" ELSE "off"]
  /\ ForgetJobs
  /\ UNCHANGED <<disk, lock, raises>>

\* A worker takes the job: process_bug_group up to its early return.
Begin(b) ==
  /\ pc[b] = "queued" /\ Cardinality(Active) < Workers
  /\ LET pending == {p \in PatchesOf(b) : IsPending(ckpt[p], retry)} IN
       IF abort \/ pending = {}
       THEN Goto(b, "finished") /\ UNCHANGED todo
       ELSE Goto(b, "ensure") /\ todo' = [todo EXCEPT ![b] = pending]
  /\ UNCHANGED <<disk, pass, count, abort, lock, cur, log, result, rsnap, psnap>>

-----------------------------------------------------------------------------
\* ensure_bug_checked_out: reuse the trees, or remove the buggy tree and
\* start its checkout.
Reuse(b) ==
  /\ pc[b] = "ensure"
  /\ row[b] = "available" /\ buggy[b] # "absent"
  /\ Goto(b, "next")
  /\ UNCHANGED <<disk, pass, count, abort, lock, todo, cur, log, result, rsnap, psnap>>

StartBuggy(b) ==
  /\ pc[b] = "ensure"
  /\ ~(row[b] = "available" /\ buggy[b] # "absent")
  /\ buggy' = [buggy EXCEPT ![b] = "partial"]
  /\ Goto(b, "coBuggy")
  /\ UNCHANGED <<ckpt, row, prow, fixed, pass, count, abort, lock, todo, cur, log, result, rsnap, psnap>>

\* process_bug up to the fixed checkout: a failed checkout leaves what it had
\* written, and a buggy tree that does not compile ends the bug's processing.
EndBuggy(b) ==
  /\ pc[b] = "coBuggy"
  /\ \/ /\ Goto(b, "rowLock")
        /\ result' = [result EXCEPT ![b] = "unavailable"]
        /\ UNCHANGED buggy
     \/ /\ buggy' = [buggy EXCEPT ![b] = "full"]
        /\ \/ Goto(b, "startFixed") /\ UNCHANGED result
           \/ Goto(b, "rowLock") /\ result' = [result EXCEPT ![b] = "unavailable"]
  /\ UNCHANGED <<ckpt, row, prow, fixed, pass, count, abort, lock, todo, cur, log, rsnap, psnap>>

StartFixed(b) ==
  /\ pc[b] = "startFixed"
  /\ fixed' = [fixed EXCEPT ![b] = "partial"]
  /\ Goto(b, "coFixed")
  /\ UNCHANGED <<ckpt, row, prow, buggy, pass, count, abort, lock, todo, cur, log, result, rsnap, psnap>>

\* Mutant of EndFixed: the exit code of the fixed checkout is not looked at.
EndFixedUnchecked(b) ==
  /\ pc[b] = "coFixed"
  /\ fixed' = [fixed EXCEPT ![b] = "full"] \/ UNCHANGED fixed
  /\ result' = [result EXCEPT ![b] = "available"]
  /\ Goto(b, "rowLock")
  /\ UNCHANGED <<ckpt, row, prow, buggy, pass, count, abort, lock, todo, cur, log, rsnap, psnap>>

\* The fixed tree counts as available once checked out, compiled or not.
EndFixed(b) ==
  /\ pc[b] = "coFixed"
  /\ \/ /\ fixed' = [fixed EXCEPT ![b] = "full"]
        /\ result' = [result EXCEPT ![b] = "available"]
     \/ /\ result' = [result EXCEPT ![b] = "unavailable"]
        /\ UNCHANGED fixed
  /\ Goto(b, "rowLock")
  /\ UNCHANGED <<ckpt, row, prow, buggy, pass, count, abort, lock, todo, cur, log, rsnap, psnap>>

\* Mutant of ReadRows: the CSV is read before the lock is taken.
ReadRowsUnlocked(b) ==
  /\ pc[b] = "rowLock"
  /\ lock' = b
  /\ rsnap' = [rsnap EXCEPT ![b] = row]
  /\ Goto(b, "rowWrite")
  /\ UNCHANGED <<disk, pass, count, abort, todo, cur, log, result, psnap>>

\* _record_bug_status: read the CSV under the lock, then replace the file.
ReadRows(b) ==
  /\ pc[b] = "rowLock" /\ lock = NoBug
  /\ lock' = b
  /\ rsnap' = [rsnap EXCEPT ![b] = row]
  /\ Goto(b, "rowWrite")
  /\ UNCHANGED <<disk, pass, count, abort, todo, cur, log, result, psnap>>

\* Mutants of ReplaceRows: the job goes on without its trees; the lock is kept.
ReplaceRowsAndGoOn(b) ==
  /\ pc[b] = "rowWrite"
  /\ row' = [rsnap[b] EXCEPT ![b] = result[b]]
  /\ lock' = NoBug
  /\ rsnap' = [rsnap EXCEPT ![b] = NoRows]
  /\ Goto(b, "next")
  /\ result' = [result EXCEPT ![b] = "none"]
  /\ UNCHANGED <<ckpt, prow, buggy, fixed, pass, count, abort, todo, cur, log, psnap>>

ReplaceRowsAndKeepLock(b) ==
  /\ pc[b] = "rowWrite"
  /\ row' = [rsnap[b] EXCEPT ![b] = result[b]]
  /\ rsnap' = [rsnap EXCEPT ![b] = NoRows]
  /\ Goto(b, IF result[b] = "available" THEN "next" ELSE "failAll")
  /\ result' = [result EXCEPT ![b] = "none"]
  /\ UNCHANGED <<ckpt, prow, buggy, fixed, pass, count, abort, lock, todo, cur, log, psnap>>

ReplaceRows(b) ==
  /\ pc[b] = "rowWrite"
  /\ row' = [rsnap[b] EXCEPT ![b] = result[b]]
  /\ lock' = NoBug
  /\ rsnap' = [rsnap EXCEPT ![b] = NoRows]
  /\ Goto(b, IF result[b] = "available" THEN "next" ELSE "failAll")
  /\ result' = [result EXCEPT ![b] = "none"]
  /\ UNCHANGED <<ckpt, prow, buggy, fixed, pass, count, abort, todo, cur, log, psnap>>

\* Without its trees a bug fails all its pending patches.
FailCheckout(b) ==
  /\ pc[b] = "failAll"
  /\ \E p \in todo[b] :
       /\ todo' = [todo EXCEPT ![b] = @ \ {p}]
       /\ cur' = [cur EXCEPT ![b] = p]
       /\ log' = [log EXCEPT ![b] = [NewLog EXCEPT !.term = "checkout_bug"]]
  /\ Goto(b, "write")
  /\ UNCHANGED <<disk, pass, count, abort, lock, result, rsnap, psnap>>

-----------------------------------------------------------------------------
\* The next patch of the job, unless another job saw a billing error.
NextPatch(b) ==
  /\ pc[b] = "next"
  /\ IF abort \/ todo[b] = {}
     THEN Goto(b, "finished") /\ UNCHANGED <<todo, cur, log>>
     ELSE \E p \in todo[b] :
            /\ todo' = [todo EXCEPT ![b] = @ \ {p}]
            /\ cur' = [cur EXCEPT ![b] = p]
            /\ log' = [log EXCEPT ![b] = NewLog]
            /\ Goto(b, "apply")
  /\ UNCHANGED <<disk, pass, count, abort, lock, result, rsnap, psnap>>

\* Mutant of Apply: only an applied patch is recorded in the CSV.
ApplyRecordingSuccess(b) ==
  /\ pc[b] = "apply"
  /\ \E o \in ApplyOut :
       IF o # "applied"
       THEN /\ log' = [log EXCEPT ![b].term = "apply_patch", ![b].raised = (o = "raised")]
            /\ Goto(b, "write") /\ UNCHANGED result
       ELSE /\ result' = [result EXCEPT ![b] = "applies"]
            /\ Goto(b, "prowLock") /\ UNCHANGED log
  /\ UNCHANGED <<disk, pass, count, abort, lock, todo, cur, rsnap, psnap>>

\* apply_candidate, inside the stage apply_patch.  A stage that raises is
\* recorded and the patch ends as a terminal failure.
Apply(b) ==
  /\ pc[b] = "apply"
  /\ \E o \in ApplyOut :
       IF o = "raised"
       THEN /\ log' = [log EXCEPT ![b].term = "apply_patch", ![b].raised = TRUE]
            /\ Goto(b, "write") /\ UNCHANGED result
       ELSE /\ result' = [result EXCEPT ![b] = IF o = "applied" THEN "applies" ELSE "rejected"]
            /\ Goto(b, "prowLock") /\ UNCHANGED log
  /\ UNCHANGED <<disk, pass, count, abort, lock, todo, cur, rsnap, psnap>>

\* _record_patch_status, under the same lock.
ReadPatchRows(b) ==
  /\ pc[b] = "prowLock" /\ lock = NoBug
  /\ lock' = b
  /\ psnap' = [psnap EXCEPT ![b] = prow]
  /\ Goto(b, "prowWrite")
  /\ UNCHANGED <<disk, pass, count, abort, todo, cur, log, result, rsnap>>

ReplacePatchRows(b) ==
  /\ pc[b] = "prowWrite"
  /\ lock' = NoBug
  /\ psnap' = [psnap EXCEPT ![b] = NoPRows]
  /\ result' = [result EXCEPT ![b] = "none"]
  /\ prow' = [psnap[b] EXCEPT ![cur[b]] = result[b]]
  /\ IF result[b] = "rejected"
     THEN Goto(b, "write") /\ log' = [log EXCEPT ![b].term = "apply_patch"]
     ELSE Goto(b, "fingerprint") /\ UNCHANGED log
  /\ UNCHANGED <<ckpt, row, buggy, fixed, pass, count, abort, todo, cur, rsnap>>

-----------------------------------------------------------------------------
\* A stage raised: _stage records it and the pipeline goes on.
Raised(b, next) ==
  /\ log' = [log EXCEPT ![b].raised = TRUE]
  /\ Goto(b, next) /\ UNCHANGED abort

\* Mutant of StopOnBilling: the aborted patch is recorded as a failure.
StopOnBillingAsFailure(b) ==
  /\ abort' = TRUE
  /\ log' = [log EXCEPT ![b].term = "apply_patch"]
  /\ Goto(b, "write")

\* BillingAbort: set the event and leave the job without a checkpoint.
StopOnBilling(b) ==
  /\ abort' = TRUE
  /\ Goto(b, "finished") /\ UNCHANGED log

Fingerprint(b) ==
  /\ pc[b] = "fingerprint"
  /\ \E o \in AuxOut :
       IF o = "raised" THEN Raised(b, "semantic")
       ELSE Goto(b, "semantic") /\ UNCHANGED <<log, abort>>
  /\ UNCHANGED <<disk, pass, count, lock, todo, cur, result, rsnap, psnap>>

\* Mutant of Semantic: a billing error is swallowed into the result.
SemanticSwallowingBilling(b) ==
  /\ pc[b] = "semantic"
  /\ \E o \in SemOut :
       IF o = "raised" THEN Raised(b, "cex")
       ELSE log' = [log EXCEPT ![b].sem = o] /\ Goto(b, "cex") /\ UNCHANGED abort
  /\ UNCHANGED <<disk, pass, count, lock, todo, cur, result, rsnap, psnap>>

Semantic(b) ==
  /\ pc[b] = "semantic"
  /\ \E o \in SemOut :
       CASE o = "raised"  -> Raised(b, "cex")
         [] o = "billing" -> StopOnBilling(b)
         [] OTHER         -> /\ log' = [log EXCEPT ![b].sem = o]
                             /\ Goto(b, "cex") /\ UNCHANGED abort
  /\ UNCHANGED <<disk, pass, count, lock, todo, cur, result, rsnap, psnap>>

Counterexample(b) ==
  /\ pc[b] = "cex"
  /\ \E o \in ArmOut :
       CASE o = "raised"  -> Raised(b, "memo")
         [] o = "billing" -> StopOnBilling(b)
         [] OTHER         -> /\ log' = [log EXCEPT ![b].cex = o]
                             /\ Goto(b, "memo") /\ UNCHANGED abort
  /\ UNCHANGED <<disk, pass, count, lock, todo, cur, result, rsnap, psnap>>

Memorization(b) ==
  /\ pc[b] = "memo"
  /\ \E o \in ArmOut :
       CASE o = "raised"  -> Raised(b, "stage2b")
         [] o = "billing" -> StopOnBilling(b)
         [] OTHER         -> /\ log' = [log EXCEPT ![b].memo = o]
                             /\ Goto(b, "stage2b") /\ UNCHANGED abort
  /\ UNCHANGED <<disk, pass, count, lock, todo, cur, result, rsnap, psnap>>

\* Stage 2B, then the complete flag.
Stage2b(b) ==
  /\ pc[b] = "stage2b"
  /\ \E o \in AuxOut :
       LET bad == log[b].raised \/ o = "raised" IN
         log' = [log EXCEPT ![b].raised = bad,
                            ![b].complete = ~bad /\ ArmsReal(log[b])]
  /\ Goto(b, "write")
  /\ UNCHANGED <<disk, pass, count, abort, lock, todo, cur, result, rsnap, psnap>>

\* _atomic_write_json of the checkpoint: os.replace is the step that counts.
WriteCheckpoint(b) ==
  /\ pc[b] = "write"
  /\ ckpt' = [ckpt EXCEPT ![cur[b]] = log[b]]
  /\ Goto(b, "bump")
  /\ UNCHANGED <<files, pass, count, abort, lock, todo, cur, log, result, rsnap, psnap>>

Bump(b) ==
  /\ pc[b] = "bump"
  /\ IF log[b].complete THEN done' = done + 1 /\ UNCHANGED failed
                        ELSE failed' = failed + 1 /\ UNCHANGED done
  /\ Goto(b, IF log[b].term # "checkout_bug" THEN "next"
             ELSE IF todo[b] # {} THEN "failAll" ELSE "finished")
  /\ cur' = [cur EXCEPT ![b] = NoPatch]
  /\ log' = [log EXCEPT ![b] = NoLog]
  /\ UNCHANGED <<disk, pass, abort, lock, todo, result, rsnap, psnap>>

-----------------------------------------------------------------------------
\* An OSError while a file is written or a tree removed.  Inside the stage
\* apply_patch it is a raised stage; anywhere else it leaves the job, whose
\* future carries it (the detail file of an arm is written before the arm's
\* billing check).  Either way the with statement releases the lock.
RaiseInStage(b) ==
  /\ raises < MaxRaises /\ pc[b] = "prowWrite"
  /\ raises' = raises + 1
  /\ lock' = NoBug
  /\ psnap' = [psnap EXCEPT ![b] = NoPRows]
  /\ result' = [result EXCEPT ![b] = "none"]
  /\ log' = [log EXCEPT ![b].term = "apply_patch", ![b].raised = TRUE]
  /\ Goto(b, "write")
  /\ UNCHANGED <<disk, proc, retry, sel, starts, count, abort, todo, cur, rsnap>>

RaiseInJob(b) ==
  /\ raises < MaxRaises
  /\ pc[b] \in {"coBuggy", "startFixed", "coFixed", "rowWrite", "semantic", "cex", "stage2b", "write"}
  /\ raises' = raises + 1
  /\ lock' = IF pc[b] = "rowWrite" THEN NoBug ELSE lock
  /\ rsnap' = [rsnap EXCEPT ![b] = NoRows]
  /\ Goto(b, "raised")
  /\ UNCHANGED <<disk, proc, retry, sel, starts, count, abort, todo, cur, log, result, psnap>>

\* Every future is complete: report, and exit with code 3 after an abort.
Exit ==
  /\ proc = "running"
  /\ \A b \in Bug : pc[b] \in Settled
  /\ proc' = "exited"
  /\ UNCHANGED <<disk, retry, sel, starts, raises, count, abort, lock, pc, todo, cur, log, result, rsnap, psnap>>

\* docker kill, reboot: the files stay as they are, temporary files are never
\* read again, everything else is gone.
Kill ==
  /\ proc = "running"
  /\ proc' = "down"
  /\ abort' = FALSE /\ lock' = NoBug
  /\ done' = 0 /\ failed' = 0
  /\ pc' = All("off") /\ ForgetJobs
  /\ UNCHANGED <<disk, retry, sel, starts, raises>>

JobStep(b) ==
  \/ Begin(b) \/ Reuse(b) \/ StartBuggy(b) \/ EndBuggy(b) \/ StartFixed(b) \/ EndFixed(b)
  \/ ReadRows(b) \/ ReplaceRows(b) \/ FailCheckout(b)
  \/ NextPatch(b) \/ Apply(b) \/ ReadPatchRows(b) \/ ReplacePatchRows(b)
  \/ Fingerprint(b) \/ Semantic(b) \/ Counterexample(b) \/ Memorization(b) \/ Stage2b(b)
  \/ WriteCheckpoint(b) \/ Bump(b)

Next ==
  \/ \E s \in Selections, r \in Retries : Start(s, r)
  \/ \E b \in Bug : JobStep(b) \/ RaiseInStage(b) \/ RaiseInJob(b)
  \/ Exit
  \/ Kill

\* The pool runs every job it accepted and every stage ends (each subprocess
\* has a timeout, each API call a retry limit).  Nobody is obliged to start a
\* pass, and nothing obliges the process to be killed or a write to fail.
Fairness == WF_vars(Exit) /\ \A b \in Bug : WF_vars(JobStep(b))

Spec     == Init /\ [][Next]_vars
FairSpec == Spec /\ Fairness

-----------------------------------------------------------------------------
Labels == {"off", "queued", "ensure", "coBuggy", "startFixed", "coFixed", "rowLock", "rowWrite",
           "failAll", "next", "apply", "prowLock", "prowWrite", "fingerprint", "semantic", "cex",
           "memo", "stage2b", "write", "bump", "finished", "raised"}

\* The labels at which a job has a patch in hand, and those of its pipeline.
InHand   == {"apply", "prowLock", "prowWrite", "fingerprint", "semantic", "cex", "memo",
             "stage2b", "write", "bump"}
Pipeline == InHand \ {"write", "bump"}

\* Every variable stays in its type.
TypeOK ==
  /\ ckpt \in [Patch -> CkptType]
  /\ row \in [Bug -> RowState] /\ prow \in [Patch -> PRowState]
  /\ buggy \in [Bug -> TreeState] /\ fixed \in [Bug -> TreeState]
  /\ proc \in {"down", "running", "exited"}
  /\ retry \in BOOLEAN /\ sel \subseteq Patch
  /\ abort \in BOOLEAN /\ lock \in Bug \cup {NoBug}
  /\ done \in Nat /\ failed \in Nat
  /\ pc \in [Bug -> Labels]
  /\ todo \in [Bug -> SUBSET Patch]
  /\ cur \in [Bug -> Patch \cup {NoPatch}]
  /\ log \in [Bug -> CkptType]
  /\ result \in [Bug -> RowState \cup PRowState]
  /\ rsnap \in [Bug -> [Bug -> RowState]]
  /\ psnap \in [Bug -> [Patch -> PRowState]]
  /\ starts \in 0..MaxStarts /\ raises \in 0..MaxRaises

(***************************************************************************)
(* What the checkpoints promise (module CheckpointLedger): each write      *)
(* replaces a pending result by an honest one, whatever is killed when.    *)
(***************************************************************************)
Honest(c) ==
  /\ c.kind = "log" /\ ~HasBilling(c)
  /\ c.complete <=> (c.term = "none" /\ ArmsReal(c) /\ ~c.raised)

Class(c) ==
  IF c.kind = "none" THEN "none"
  ELSE IF ~Honest(c) THEN "corrupt"
  ELSE IF c.term # "none" THEN (IF c.raised THEN "terminalError" ELSE "terminal")
  ELSE IF c.complete THEN "real" ELSE "incomplete"

Ledger == INSTANCE CheckpointLedger WITH ledger <- [p \in Patch |-> Class(ckpt[p])], redo <- retry

\* The checkpoint files implement the ledger (docstring of run_full.py, lines
\* 13-15, and DEVIATIONS.md #15): no billing error is ever recorded, complete
\* is what the arms say, and a settled patch is left alone by every later pass.
LedgerSpec == Ledger!Spec

-----------------------------------------------------------------------------
\* STATUS_LOCK serializes the rewrites of the status CSVs: a row changes only
\* by the job it belongs to, never because another job writes back what it
\* read before.
RowsOnlyByOwner ==
  [][/\ \A b \in Bug : row'[b] # row[b] => pc[b] = "rowWrite"
     /\ \A p \in Patch : prow'[p] # prow[p] =>
          pc[BugOf[p]] = "prowWrite" /\ cur[BugOf[p]] = p]_vars

\* A job runs its patches only while d4j_status.csv on disk says that both
\* trees of its bug are available (the arms read the row: trigger_tests_for,
\* build_request, build_cex_request).
RecordedBeforeUse ==
  \A b \in Bug : pc[b] \in Pipeline \cup {"next"} => row[b] = "available"

\* A checkpoint that went past the stage apply_patch has its patch recorded as
\* applied or rejected in patch_d4j_status.csv, across kills.
CheckpointHasRow ==
  \A p \in Patch : LET c == ckpt[p] IN
    c.kind = "log" /\ (c.term = "none" \/ (c.term = "apply_patch" /\ ~c.raised)) => prow[p] # "none"

\* A BillingAbort loses no work: while it is set some selected patch is still
\* pending, so the same command takes it up again (run_full.py, lines 65-68).
AbortedIsRedone == abort => \E p \in sel : IsPending(ckpt[p], retry)

\* Every selected patch is counted once: the progress counters never exceed
\* the total, and add up to it when a pass ends with neither an abort nor an
\* exception out of a job.
CleanExit == proc = "exited" /\ ~abort /\ \A b \in Bug : pc[b] # "raised"
ProgressAddsUp ==
  /\ proc # "down" => done + failed <= Cardinality(sel)
  /\ CleanExit => done + failed = Cardinality(sel)

\* A pass that ends cleanly leaves an honest checkpoint for every selected
\* patch, whatever the files held before: the checkpoints of the first run,
\* complete although their arms had failed, are rerun (lines 96-101).
CleanExitCovers == CleanExit => \A p \in sel : Honest(ckpt[p])

\* Every pass ends: no job waits for the lock or the pool forever.
PassEnds == proc = "running" ~> proc # "running"

-----------------------------------------------------------------------------
\* A job runs its patches on complete trees only: "Reuse an existing checkout
\* ... when buggy+fixed are both present" (lines 157-158).
TreesAreWhole ==
  \A b \in Bug : pc[b] \in Pipeline => buggy[b] = "full" /\ fixed[b] = "full"
=============================================================================
