---------------------------- MODULE ContextBudget ----------------------------
(***************************************************************************)
(* fit_to_budget of context_budget.py: the items of a prompt's context are *)
(* visited from the lowest priority to the highest, the longest first, and *)
(* dropped until the estimate fits; changed methods and the candidate diff *)
(* are never dropped.  The items, their estimates, the budget and the      *)
(* overhead of the rest of the prompt are arbitrary.                       *)
(***************************************************************************)
EXTENDS Integers, Sequences, FiniteSets, Functions

CONSTANTS
  Item,
  Priority,   \* the priorities that occur, of 1 (highest) to 8
  Tokens,     \* bound: estimates of an item, at least 1
  Budget,     \* bound: budgets and overheads
  Overhead

ASSUME BudgetAssumption ==
  /\ IsFiniteSet(Item)
  /\ Priority \subseteq 1..8 /\ Tokens \subseteq Nat \ {0}
  /\ Budget \subseteq Nat /\ Overhead \subseteq Nat

VARIABLES
  priority, tokens, budget, overhead,  \* the arguments
  pc,       \* "loop" or "done"
  todo,     \* the items not visited yet
  kept, removed, total,
  over      \* over_budget

input == <<priority, tokens, budget, overhead>>
vars  == <<input, pc, todo, kept, removed, total, over>>

Mandatory == {i \in Item : priority[i] <= 2}

\* estimate_tokens is at least one, also of an empty text.
Init ==
  /\ priority \in [Item -> Priority] /\ tokens \in [Item -> Tokens]
  /\ budget \in Budget /\ overhead \in Overhead
  /\ pc = "loop" /\ todo = Item /\ kept = Item /\ removed = <<>>
  /\ total = SumFunctionOnSet(tokens, Item) + overhead /\ over = FALSE

\* Mutant of Before: the most important first.
BeforeUpwards(i, j) ==
  priority[i] < priority[j] \/ (priority[i] = priority[j] /\ tokens[i] > tokens[j])

\* The sort key: the lowest priority, and then the longest, first.
Before(i, j) ==
  priority[i] > priority[j] \/ (priority[i] = priority[j] /\ tokens[i] > tokens[j])

\* The item whose turn it is; sorted leaves equal ones in any order here.
Turn(i) == i \in todo /\ \A j \in todo : ~Before(j, i)

\* Mutants of Visit: what is mandatory is dropped as well; an item more than
\* needed.
VisitAll(i) ==
  /\ pc = "loop" /\ total > budget /\ Turn(i) /\ todo' = todo \ {i}
  /\ kept' = kept \ {i} /\ removed' = Append(removed, i) /\ total' = total - tokens[i]
  /\ UNCHANGED <<input, pc, over>>

VisitAtBudget(i) ==
  /\ pc = "loop" /\ total >= budget /\ Turn(i) /\ todo' = todo \ {i}
  /\ IF i \in Mandatory THEN UNCHANGED <<kept, removed, total>>
     ELSE kept' = kept \ {i} /\ removed' = Append(removed, i) /\ total' = total - tokens[i]
  /\ UNCHANGED <<input, pc, over>>

\* One round of the loop.
Visit(i) ==
  /\ pc = "loop" /\ total > budget /\ Turn(i) /\ todo' = todo \ {i}
  /\ IF i \in Mandatory THEN UNCHANGED <<kept, removed, total>>
     ELSE kept' = kept \ {i} /\ removed' = Append(removed, i) /\ total' = total - tokens[i]
  /\ UNCHANGED <<input, pc, over>>

\* The loop ends, early or with the last item.
Finish ==
  /\ pc = "loop" /\ (total <= budget \/ todo = {})
  /\ pc' = "done" /\ over' = (total > budget)
  /\ UNCHANGED <<input, todo, kept, removed, total>>

Next == Finish \/ \E i \in Item : Visit(i)

Spec == Init /\ [][Next]_vars

-----------------------------------------------------------------------------
Last(s) == s[Len(s)]

\* Nothing mandatory is dropped, and a result over budget has nothing else left
\* (docstring of context_budget: mandatory items alone exceed the budget, kept
\* whole); over_budget tells the truth about the estimate.
OverOnlyByMandatory ==
  /\ Mandatory \subseteq kept
  /\ pc = "done" => over = (total > budget) /\ (over => kept = Mandatory)

\* What is dropped is less important, or as important and no shorter, than what
\* could have been dropped and was kept.
DroppedInOrder ==
  \A n \in DOMAIN removed, k \in kept \ Mandatory :
    \/ priority[removed[n]] > priority[k]
    \/ priority[removed[n]] = priority[k] /\ tokens[removed[n]] >= tokens[k]

\* The last item dropped was needed: with it the estimate is over the budget.
NothingNeedless ==
  removed # <<>> => total + tokens[Last(removed)] > budget
=============================================================================
