-------------------------- MODULE CheckpointLedger --------------------------
(***************************************************************************)
(* What the checkpoint directory of the full run promises its readers: a   *)
(* durable ledger with one result per patch.  A result is only ever        *)
(* replaced while it is pending, in one step, and by an honest result: one *)
(* that no billing error produced and whose complete flag is what its arms *)
(* say.  Kills and restarts do not show.                                   *)
(***************************************************************************)
CONSTANTS Patch

VARIABLES
  ledger,  \* the result of each patch
  redo     \* does the current pass redo terminal results whose stage raised?

Honest  == {"incomplete", "terminal", "terminalError", "real"}
Results == Honest \cup {"none", "corrupt"}

Pending(p) ==
  \/ ledger[p] \in {"none", "corrupt", "incomplete"}
  \/ redo /\ ledger[p] = "terminalError"

Init == ledger \in [Patch -> Results] /\ redo = FALSE

NewPass == redo' \in BOOLEAN /\ UNCHANGED ledger

Record(p) ==
  /\ Pending(p)
  /\ \E r \in Honest : ledger' = [ledger EXCEPT ![p] = r]
  /\ UNCHANGED redo

Next == NewPass \/ \E p \in Patch : Record(p)

Spec == Init /\ [][Next]_<<ledger, redo>>
=============================================================================
