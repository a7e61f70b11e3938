----------------------------- MODULE MCRunFull -----------------------------
(***************************************************************************)
(* Instances of RunFull for TLC: two bugs, the first with two patches.     *)
(***************************************************************************)
EXTENDS RunFull, TLC

CONSTANTS p1, p2, p3, b1, b2, b3

MCBugOf    == p1 :> b1 @@ p2 :> b1 @@ p3 :> b2
OneBugOf   == p1 :> b1 @@ p2 :> b1
AllPatches == {Patch}
AnyPatches == SUBSET Patch \ {{}}
Both       == BOOLEAN

\* Files that hold nothing yet.
Fresh == [ckpt  |-> [p \in Patch |-> NoLog],
          row   |-> [b \in Bug |-> "none"], prow |-> [p \in Patch |-> "none"],
          buggy |-> [b \in Bug |-> "absent"], fixed |-> [b \in Bug |-> "absent"]]

\* The checkpoints of the first run (DEVIATIONS.md #15): complete, with arms
\* that had failed on billing; their patches had been applied in full trees.
FirstRunLog == [NewLog EXCEPT !.sem = "billing", !.cex = "billing", !.memo = "billing",
                              !.complete = TRUE]
Checked == [Fresh EXCEPT !.row   = [b \in Bug |-> "available"],
                         !.buggy = [b \in Bug |-> "full"], !.fixed = [b \in Bug |-> "full"]]
FirstRun == [Checked EXCEPT !.ckpt = [p \in Patch |-> FirstRunLog],
                            !.prow = [p \in Patch |-> "applies"]]

\* A clone of the repository: the status CSVs are committed, the workspaces
\* are not (experiment_v2/.gitignore).
Cloned == [Fresh EXCEPT !.row = [b \in Bug |-> "available"]]

FirstRunDisks == {Fresh, FirstRun}
ClonedDisk    == {Cloned}
=============================================================================
