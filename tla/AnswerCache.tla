----------------------------- MODULE AnswerCache -----------------------------
(***************************************************************************)
(* What the log of the model calls promises who pays for them: a question  *)
(* is asked by one worker at a time, never again once it is settled, and   *)
(* stays settled.  A question that is asked may also come back unsettled:  *)
(* the call failed, or the program was killed.                             *)
(***************************************************************************)
EXTENDS Integers

CONSTANTS Job

VARIABLES
  asking,  \* how many workers are asking each question
  settled  \* the questions whose answer is on record

Init == asking = [j \in Job |-> 0] /\ settled = {}

Ask(j) ==
  /\ asking[j] = 0 /\ j \notin settled
  /\ asking' = [asking EXCEPT ![j] = 1] /\ UNCHANGED settled

Settle(j) ==
  /\ asking[j] = 1 /\ settled' = settled \cup {j}
  /\ asking' = [asking EXCEPT ![j] = 0]

GiveUp(j) ==
  /\ asking[j] = 1 /\ asking' = [asking EXCEPT ![j] = 0] /\ UNCHANGED settled

\* It dies with the program, perhaps just as one of the answers is on record.
Die ==
  /\ asking' = [j \in Job |-> 0]
  /\ UNCHANGED settled \/ \E j \in Job : asking[j] = 1 /\ settled' = settled \cup {j}

Next == Die \/ \E j \in Job : Ask(j) \/ Settle(j) \/ GiveUp(j)

Spec == Init /\ [][Next]_<<asking, settled>>
=============================================================================
