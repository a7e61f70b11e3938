--------------------------- MODULE PromptGuardProofs ---------------------------
(***************************************************************************)
(* First sums over finite sets: by a smallest set that breaks it, a sum is *)
(* a number, and whichever element is taken out first, the rest adds up to *)
(* the rest.                                                               *)
(*                                                                         *)
(* Then what fit_to_budget drops, for any items, estimates and budget: the *)
(* running total is the sum of what is kept, so what is said of the total  *)
(* is said of the context that is returned.                                *)
(*                                                                         *)
(* Then what leaves in a request, for any files, items, budget and         *)
(* carriers of the secret.  The invariant says of every stage what has     *)
(* been decided by then: the text that was judged is the text that is sent,*)
(* and its items are what the finished loop has kept.                      *)
(***************************************************************************)
EXTENDS PromptGuard, FiniteSetTheorems, TLAPS

\* A smallest set of a nonempty family of finite sets.
LEMMA Smallest ==
  ASSUME NEW S, IsFiniteSet(S), NEW F \in SUBSET SUBSET S, F # {}
  PROVE  \E T \in F : \A U \in F : U \subseteq T => U = T
<1>1. IsWellFoundedOn(StrictSubsetOrdering(S), FiniteSubsetsOf(S))
  BY FS_StrictSubsetOrderingWellFounded
<1>2. FiniteSubsetsOf(S) = SUBSET S
  BY FS_FiniteSubsetsOfFinite
<1>3. \E T \in F : \A U \in F : <<U, T>> \notin StrictSubsetOrdering(S)
  BY <1>1, <1>2, WFMin
<1> QED
  BY <1>3 DEF StrictSubsetOrdering

\* g gives every subset of S its sum of f, as the fold of the library does.
SumsUp(g, f, S) ==
  g = [s \in SUBSET S |->
         IF s = {} THEN 0
         ELSE LET x == CHOOSE x \in s : TRUE IN f[x] + g[s \ {x}]]

\* The library's fold, unfolded.
LEMMA SumDef ==
  ASSUME NEW f, NEW S
  PROVE  SumFunctionOnSet(f, S) = (CHOOSE g : SumsUp(g, f, S))[S]
  BY DEF SumFunctionOnSet, FoldFunctionOnSet, MapThenFoldSet, SumsUp

\* Two such functions agree on a finite set: a smallest one where they differ
\* has its first element in common.
LEMMA SumUnique ==
  ASSUME NEW f, NEW S, NEW T, NEW U, IsFiniteSet(U), U \subseteq S, U \subseteq T,
         NEW g, SumsUp(g, f, S), NEW h, SumsUp(h, f, T)
  PROVE  g[U] = h[U]
<1> DEFINE Bad == {s \in SUBSET U : g[s] # h[s]}
<1>1. SUFFICES ASSUME Bad # {} PROVE FALSE
  OBVIOUS
<1>2. PICK s \in Bad : \A t \in Bad : t \subseteq s => t = s
  <2>1. Bad \in SUBSET SUBSET U
    OBVIOUS
  <2> HIDE DEF Bad
  <2> QED
    BY <1>1, <2>1, Smallest
<1>3. s \in SUBSET S /\ s \in SUBSET T
  OBVIOUS
<1>4. CASE s = {}
  BY <1>3, <1>4 DEF SumsUp
<1>5. CASE s # {}
  <2> DEFINE x == CHOOSE x \in s : TRUE
  <2>1. x \in s
    BY <1>5
  <2>2. g[s] = f[x] + g[s \ {x}] /\ h[s] = f[x] + h[s \ {x}]
    BY <1>3, <1>5 DEF SumsUp
  <2>3. g[s \ {x}] = h[s \ {x}]
    BY <1>2, <2>1
  <2> QED
    BY <2>2, <2>3
<1> QED
  BY <1>4, <1>5

\* Every finite set has one, glued together from those of its subsets.
LEMMA SumExists ==
  ASSUME NEW f, NEW S, IsFiniteSet(S)
  PROVE  \E g : SumsUp(g, f, S)
<1> DEFINE Bad == {T \in SUBSET S : ~\E g : SumsUp(g, f, T)}
<1>1. SUFFICES ASSUME Bad # {} PROVE FALSE
  OBVIOUS
<1>2. PICK T \in Bad : \A U \in Bad : U \subseteq T => U = T
  <2>1. Bad \in SUBSET SUBSET S
    OBVIOUS
  <2> HIDE DEF Bad
  <2> QED
    BY <1>1, <2>1, Smallest
<1>3. \A U \in SUBSET T : U # T => \E g : SumsUp(g, f, U)
  BY <1>2
<1> DEFINE part(U) == CHOOSE g : SumsUp(g, f, U)
           val(U) == part(U)[U]
           step(U) == LET x == CHOOSE x \in U : TRUE IN f[x] + val(U \ {x})
           g == [U \in SUBSET T |-> IF U = {} THEN 0 ELSE step(U)]
<1>4. \A U \in SUBSET T : U # T => SumsUp(part(U), f, U)
  BY <1>3
<1>5. ASSUME NEW U \in SUBSET T, U # T PROVE val(U) = g[U]
  <2>1. SumsUp(part(U), f, U)
    BY <1>4, <1>5
  <2>2. CASE U = {}
    BY <2>1, <2>2 DEF SumsUp
  <2>3. CASE U # {}
    <3> DEFINE x == CHOOSE x \in U : TRUE
    <3>1. x \in U
      BY <2>3
    <3>2. U \ {x} \in SUBSET U /\ U \ {x} \in SUBSET T /\ U \ {x} # T /\ IsFiniteSet(U \ {x})
      BY <3>1, FS_Subset
    <3>3. part(U)[U] = f[x] + part(U)[U \ {x}]
      <4> HIDE DEF part
      <4> QED  BY <2>1, <2>3 DEF SumsUp
    <3>4. part(U)[U \ {x}] = part(U \ {x})[U \ {x}]
      <4>1. SumsUp(part(U \ {x}), f, U \ {x})
        BY <1>4, <3>2
      <4> HIDE DEF part, x
      <4> QED  BY <2>1, <3>2, <4>1, SumUnique
    <3> QED
      BY <2>3, <3>3, <3>4
  <2> QED
    BY <2>2, <2>3
<1>6. SumsUp(g, f, T)
  <2>1. \A U \in SUBSET T : U # {} => step(U) = LET x == CHOOSE x \in U : TRUE IN f[x] + g[U \ {x}]
    <3> SUFFICES ASSUME NEW U \in SUBSET T, U # {}
                 PROVE  step(U) = LET x == CHOOSE x \in U : TRUE IN f[x] + g[U \ {x}]
      OBVIOUS
    <3> DEFINE x == CHOOSE x \in U : TRUE
    <3>1. x \in U /\ U \ {x} \in SUBSET T /\ U \ {x} # T
      OBVIOUS
    <3>2. val(U \ {x}) = g[U \ {x}]
      BY <1>5, <3>1
    <3> QED
      BY <3>2
  <2> HIDE DEF step
  <2>2. g = [U \in SUBSET T |-> IF U = {} THEN 0
                                ELSE LET x == CHOOSE x \in U : TRUE IN f[x] + g[U \ {x}]]
    BY <2>1
  <2> HIDE DEF g
  <2> QED
    BY <2>2 DEF SumsUp
<1> QED
  BY <1>2, <1>6

\* A sum is zero, or some element's share and the sum of the others.
LEMMA SumStep ==
  ASSUME NEW f, NEW S, IsFiniteSet(S)
  PROVE  /\ SumFunctionOnSet(f, {}) = 0
         /\ S # {} => \E x \in S : SumFunctionOnSet(f, S) = f[x] + SumFunctionOnSet(f, S \ {x})
<1> DEFINE g(T) == CHOOSE g : SumsUp(g, f, T)
<1>1. \A T : IsFiniteSet(T) => SumsUp(g(T), f, T)
  BY SumExists
<1>2. \A T : SumFunctionOnSet(f, T) = g(T)[T]
  BY SumDef
<1> HIDE DEF g
<1>3. SumFunctionOnSet(f, {}) = 0
  BY <1>1, <1>2, FS_EmptySet DEF SumsUp
<1>4. ASSUME S # {} PROVE \E x \in S : SumFunctionOnSet(f, S) = f[x] + SumFunctionOnSet(f, S \ {x})
  <2> DEFINE x == CHOOSE x \in S : TRUE
  <2>1. x \in S /\ IsFiniteSet(S \ {x}) /\ S \ {x} \subseteq S
    BY <1>4, FS_Subset
  <2>2. g(S)[S] = f[x] + g(S)[S \ {x}]
    BY <1>1, <1>4 DEF SumsUp
  <2>3. g(S)[S \ {x}] = g(S \ {x})[S \ {x}]
    <3>1. SumsUp(g(S), f, S) /\ SumsUp(g(S \ {x}), f, S \ {x})
      BY <1>1, <2>1
    <3> HIDE DEF x
    <3> QED  BY <2>1, <3>1, SumUnique
  <2> QED
    BY <1>2, <2>1, <2>2, <2>3
<1> QED
  BY <1>3, <1>4

\* A sum of numbers is a number.
LEMMA SumType ==
  ASSUME NEW f, NEW S, IsFiniteSet(S), \A x \in S : f[x] \in Int
  PROVE  SumFunctionOnSet(f, S) \in Int
<1> DEFINE Bad == {T \in SUBSET S : SumFunctionOnSet(f, T) \notin Int}
<1>1. SUFFICES ASSUME Bad # {} PROVE FALSE
  OBVIOUS
<1>2. PICK T \in Bad : \A U \in Bad : U \subseteq T => U = T
  <2>1. Bad \in SUBSET SUBSET S
    OBVIOUS
  <2> HIDE DEF Bad
  <2> QED
    BY <1>1, <2>1, Smallest
<1>3. IsFiniteSet(T)
  BY FS_Subset
<1>4. T # {}
  <2>1. SumFunctionOnSet(f, {}) = 0
    BY SumStep
  <2>2. SumFunctionOnSet(f, T) \notin Int
    BY <1>2
  <2> HIDE DEF Bad
  <2> QED
    BY <2>1, <2>2
<1>5. PICK x \in T : SumFunctionOnSet(f, T) = f[x] + SumFunctionOnSet(f, T \ {x})
  BY <1>3, <1>4, SumStep
<1> QED
  BY <1>2, <1>5

\* Whichever element is taken out, the rest adds up to the rest.
LEMMA SumRemove ==
  ASSUME NEW f, NEW S, IsFiniteSet(S), \A x \in S : f[x] \in Int, NEW y \in S
  PROVE  SumFunctionOnSet(f, S) = f[y] + SumFunctionOnSet(f, S \ {y})
<1> DEFINE Sum(T) == SumFunctionOnSet(f, T)
           Fails(T, z) == z \in T /\ Sum(T) # f[z] + Sum(T \ {z})
           Bad == {T \in SUBSET S : \E z \in S : Fails(T, z)}
<1>1. SUFFICES ASSUME Bad # {} PROVE FALSE
  OBVIOUS
<1>2. PICK T \in Bad : \A U \in Bad : U \subseteq T => U = T
  <2>1. Bad \in SUBSET SUBSET S
    OBVIOUS
  <2> HIDE DEF Bad
  <2> QED
    BY <1>1, <2>1, Smallest
<1>3. PICK z \in T : Sum(T) # f[z] + Sum(T \ {z})
  BY <1>2
<1>4. \A U \in SUBSET T : IsFiniteSet(U) /\ Sum(U) \in Int
  BY SumType, FS_Subset
<1>5. PICK x \in T : Sum(T) = f[x] + Sum(T \ {x})
  <2>1. IsFiniteSet(T) /\ T # {}
    BY <1>3, <1>4
  <2> QED
    BY <2>1, SumStep
<1>6. x # z /\ f[x] \in Int /\ f[z] \in Int
  BY <1>3, <1>5
<1> DEFINE R == (T \ {x}) \ {z}
<1>7. Sum(T \ {x}) = f[z] + Sum(R)
  <2>1. T \ {x} \in SUBSET S /\ T \ {x} \notin Bad /\ z \in T \ {x}
    BY <1>2, <1>6
  <2> QED
    BY <2>1
<1>8. Sum(T \ {z}) = f[x] + Sum(R)
  <2>1. T \ {z} \in SUBSET S /\ T \ {z} \notin Bad /\ x \in T \ {z} /\ (T \ {z}) \ {x} = R
    BY <1>2, <1>6
  <2>2. Sum(T \ {z}) = f[x] + Sum((T \ {z}) \ {x})
    BY <2>1
  <2> QED
    BY <2>1, <2>2
<1>9. Sum(R) \in Int
  BY <1>4
<1> HIDE DEF Sum, R, Bad, Fails
<1> QED
  BY <1>3, <1>5, <1>6, <1>7, <1>8, <1>9

-----------------------------------------------------------------------------
\* The types the arguments below need.
ArgsOK ==
  /\ budget \in Budget /\ overhead \in Overhead /\ total \in Int
  /\ priority \in [Item -> Priority] /\ tokens \in [Item -> Tokens]
  /\ todo \subseteq Item /\ kept \subseteq Item /\ removed \in Seq(Item)

\* Nothing mandatory is dropped; what else is kept is what has not been visited.
VisitedIsDropped == Mandatory \subseteq kept /\ kept \ Mandatory \subseteq todo /\ todo \subseteq kept

\* What is dropped is not kept.
DroppedLeft == \A n \in DOMAIN removed : removed[n] \notin kept

\* No item that waits for its turn comes before one that was dropped.
DroppedFirst == \A n \in DOMAIN removed : \A k \in todo : ~Before(k, removed[n])

\* The loop ends over the budget only when it has visited everything.
EndsExhausted == pc = "done" => over = (total > budget) /\ (over => todo = {})

\* What the context and the rest of the prompt add up to.
Size(items) == SumFunctionOnSet(tokens, items) + overhead

\* The running total is the size of what is kept.
TotalIsSize == total = Size(kept)

IInv ==
  /\ ArgsOK /\ VisitedIsDropped /\ DroppedLeft /\ DroppedFirst
  /\ EndsExhausted /\ NothingNeedless /\ TotalIsSize

\* Priorities, estimates and the budget are numbers.
LEMMA Numbers ==
  ASSUME ArgsOK
  PROVE  /\ budget \in Int /\ overhead \in Int
         /\ \A i \in Item : priority[i] \in Int /\ tokens[i] \in Int
<1>1. Priority \subseteq Int /\ Tokens \subseteq Int /\ Budget \subseteq Int /\ Overhead \subseteq Int
  BY BudgetAssumption
<1> QED
  BY <1>1 DEF ArgsOK

\* What is dropped last leaves the items before it in their places.
LEMMA DroppedLast ==
  ASSUME ArgsOK, NEW i \in Item
  PROVE  /\ Append(removed, i) \in Seq(Item)
         /\ \A n \in DOMAIN Append(removed, i) :
              \/ n \in DOMAIN removed /\ Append(removed, i)[n] = removed[n]
              \/ n \notin DOMAIN removed /\ Append(removed, i)[n] = i
         /\ Append(removed, i) # <<>> /\ Last(Append(removed, i)) = i
  BY DEF ArgsOK, Last

\* The loop starts with every item kept and none visited.
LEMMA InitInv == Init => IInv
<1> SUFFICES ASSUME Init PROVE IInv
  OBVIOUS
<1>1. ArgsOK
  <2>1. /\ overhead \in Int /\ \A i \in Item : tokens[i] \in Int
    <3>1. Tokens \subseteq Int /\ Overhead \subseteq Int
      BY BudgetAssumption
    <3> QED
      BY <3>1 DEF Init
  <2>2. SumFunctionOnSet(tokens, Item) \in Int
    BY <2>1, SumType, BudgetAssumption
  <2>3. total \in Int
    BY <2>1, <2>2 DEF Init
  <2> QED
    BY <2>3 DEF Init, ArgsOK
<1>2. VisitedIsDropped
  BY DEF Init, VisitedIsDropped, Mandatory
<1>3. DroppedFirst
  BY DEF Init, DroppedFirst
<1>4. EndsExhausted
  BY DEF Init, EndsExhausted
<1>5. NothingNeedless
  BY DEF Init, NothingNeedless
<1>6. TotalIsSize
  BY DEF Init, TotalIsSize, Size
<1>7. DroppedLeft
  BY DEF Init, DroppedLeft
<1> QED
  BY <1>1, <1>2, <1>3, <1>4, <1>5, <1>6, <1>7 DEF IInv

\* One round keeps the invariant, whether its item is dropped or not.
LEMMA VisitInv ==
  ASSUME IInv, NEW i \in Item, Visit(i)
  PROVE  IInv'
<1>1. ArgsOK /\ VisitedIsDropped /\ DroppedFirst /\ NothingNeedless /\ TotalIsSize /\ DroppedLeft
  BY DEF IInv
<1>2. /\ Turn(i) /\ todo' = todo \ {i} /\ pc = "loop" /\ pc' = pc
      /\ priority' = priority /\ tokens' = tokens /\ budget' = budget /\ overhead' = overhead
      /\ total > budget
  BY DEF Visit, input
<1>3. Mandatory' = Mandatory
  BY <1>2 DEF Mandatory
<1>4. \A a, b : Before(a, b)' = Before(a, b)
  BY <1>2 DEF Before
<1>5. \/ i \in Mandatory /\ kept' = kept /\ removed' = removed /\ total' = total
      \/ /\ i \notin Mandatory /\ kept' = kept \ {i}
         /\ removed' = Append(removed, i) /\ total' = total - tokens[i]
  BY DEF Visit
<1>6. ArgsOK'
  <2>1. total' \in Int
    BY <1>1, <1>5, Numbers DEF ArgsOK
  <2>2. removed' \in Seq(Item)
    BY <1>1, <1>5, DroppedLast DEF ArgsOK
  <2> QED
    BY <1>1, <1>2, <1>5, <2>1, <2>2 DEF ArgsOK
<1>7. VisitedIsDropped'
  BY <1>1, <1>2, <1>3, <1>5 DEF VisitedIsDropped
<1>8. DroppedFirst'
  <2>1. \A n \in DOMAIN removed : \A k \in todo' : ~Before(k, removed[n])
    BY <1>1, <1>2 DEF DroppedFirst
  <2>2. \A k \in todo' : ~Before(k, i)
    BY <1>2 DEF Turn
  <2>3. \A n \in DOMAIN removed' : \A k \in todo' : ~Before(k, removed'[n])
    BY <1>1, <1>5, <2>1, <2>2, DroppedLast
  <2> QED
    BY <1>2, <2>3 DEF DroppedFirst, Before
<1>9. EndsExhausted'
  BY <1>2 DEF EndsExhausted
<1>10. NothingNeedless'
  <2>1. CASE i \in Mandatory
    BY <1>1, <1>2, <1>5, <2>1 DEF NothingNeedless, Last
  <2>2. CASE i \notin Mandatory
    <3>1. Last(removed)' = i
      BY <1>1, <1>5, <2>2, DroppedLast DEF Last
    <3>2. total' + tokens[i] > budget
      BY <1>1, <1>2, <1>5, <2>2, Numbers DEF ArgsOK
    <3> QED
      BY <1>2, <3>1, <3>2 DEF NothingNeedless
  <2> QED
    BY <2>1, <2>2
<1>11. TotalIsSize'
  <2>1. CASE i \in Mandatory
    BY <1>1, <1>2, <1>5, <2>1 DEF TotalIsSize, Size
  <2>2. CASE i \notin Mandatory
    \* What has not been visited and can be dropped is still kept.
    <3>1. i \in kept /\ kept \subseteq Item /\ IsFiniteSet(kept) /\ IsFiniteSet(kept \ {i})
      BY <1>1, <1>2, BudgetAssumption, FS_Subset DEF ArgsOK, Turn, VisitedIsDropped
    <3>2. \A j \in Item : tokens[j] \in Int
      BY <1>1, Numbers
    <3>3. SumFunctionOnSet(tokens, kept) = tokens[i] + SumFunctionOnSet(tokens, kept \ {i})
      BY <3>1, <3>2, SumRemove
    <3>4. SumFunctionOnSet(tokens, kept \ {i}) \in Int
      BY <3>1, <3>2, SumType
    <3>5. overhead \in Int /\ tokens[i] \in Int
      BY <1>1, Numbers
    <3>6. total = SumFunctionOnSet(tokens, kept) + overhead
      BY <1>1 DEF TotalIsSize, Size
    <3>7. total - tokens[i] = SumFunctionOnSet(tokens, kept \ {i}) + overhead
      BY <3>3, <3>4, <3>5, <3>6
    <3>8. /\ kept' = kept \ {i} /\ total' = total - tokens[i]
          /\ tokens' = tokens /\ overhead' = overhead
      BY <1>2, <1>5, <2>2
    <3> QED
      BY <3>7, <3>8 DEF TotalIsSize, Size
  <2> QED
    BY <2>1, <2>2
<1>12. DroppedLeft'
  BY <1>1, <1>5, DroppedLast DEF DroppedLeft
<1> QED
  BY <1>6, <1>7, <1>8, <1>9, <1>10, <1>11, <1>12 DEF IInv

\* The end of the loop keeps the invariant.
LEMMA FinishInv ==
  ASSUME IInv, Finish
  PROVE  IInv'
<1>1. /\ UNCHANGED <<priority, tokens, budget, overhead, todo, kept, removed, total>>
      /\ over' = (total > budget) /\ (total <= budget \/ todo = {})
  BY DEF Finish, input
<1>2. EndsExhausted'
  <2>1. total \in Int /\ budget \in Int
    BY Numbers DEF IInv, ArgsOK
  <2>2. over' = (total' > budget')
    BY <1>1, Zenon
  <2>3. total' > budget' => todo' = {}
    BY <1>1, <2>1
  <2> QED
    BY <2>2, <2>3, Zenon DEF EndsExhausted
<1>3. (ArgsOK /\ VisitedIsDropped /\ DroppedLeft /\ DroppedFirst /\ NothingNeedless /\ TotalIsSize)'
  BY <1>1 DEF IInv, ArgsOK, VisitedIsDropped, DroppedLeft, DroppedFirst, NothingNeedless,
     TotalIsSize, Size, Mandatory, Before, Last
<1> QED
  BY <1>2, <1>3 DEF IInv

\* The invariant holds throughout.
LEMMA Invariance == Spec => []IInv
<1>1. IInv /\ [Next]_vars => IInv'
  <2> SUFFICES ASSUME IInv, [Next]_vars PROVE IInv'
    OBVIOUS
  <2>1. CASE Finish
    BY <2>1, FinishInv
  <2>2. ASSUME NEW i \in Item, Visit(i) PROVE IInv'
    BY <2>2, VisitInv
  <2>3. CASE UNCHANGED vars
    BY <2>3 DEF vars, input, IInv, ArgsOK, VisitedIsDropped, DroppedLeft, DroppedFirst, EndsExhausted,
       NothingNeedless, TotalIsSize, Size, Mandatory, Before, Last
  <2> QED
    BY <2>1, <2>2, <2>3 DEF Next
<1> QED
  BY InitInv, <1>1, PTL DEF Spec

-----------------------------------------------------------------------------
\* Whatever the items and the budget, no changed method and no candidate diff is
\* dropped, and only these can leave fit_to_budget over the budget.
THEOREM OnlyMandatoryIsOver == Spec => []OverOnlyByMandatory
<1>1. IInv => OverOnlyByMandatory
  BY DEF IInv, VisitedIsDropped, EndsExhausted, OverOnlyByMandatory
<1> QED
  BY Invariance, <1>1, PTL

\* Whatever is dropped is no more important than what could be and is kept.
THEOREM DropsInOrder == Spec => []DroppedInOrder
<1>1. IInv => DroppedInOrder
  <2> SUFFICES ASSUME IInv, NEW n \in DOMAIN removed, NEW k \in kept \ Mandatory
               PROVE  \/ priority[removed[n]] > priority[k]
                      \/ priority[removed[n]] = priority[k] /\ tokens[removed[n]] >= tokens[k]
    BY DEF DroppedInOrder
  <2>1. ~Before(k, removed[n])
    BY DEF IInv, VisitedIsDropped, DroppedFirst
  <2>2. k \in Item /\ removed[n] \in Item
    BY DEF IInv, ArgsOK
  <2>3. /\ priority[k] \in Int /\ priority[removed[n]] \in Int
        /\ tokens[k] \in Int /\ tokens[removed[n]] \in Int
    BY <2>2, Numbers DEF IInv
  <2> QED
    BY <2>1, <2>3 DEF Before
<1> QED
  BY Invariance, <1>1, PTL

\* The last item dropped did not fit, for any estimates.
THEOREM DropsWhatItMust == Spec => []NothingNeedless
<1>1. IInv => NothingNeedless
  BY DEF IInv
<1> QED
  BY Invariance, <1>1, PTL

\* The estimate fit_to_budget counts down is that of what it returns: over_budget
\* says whether the context that is kept fits, and the last item dropped would
\* not have fitted beside it.
EstimateIsOfTheRest ==
  /\ total = Size(kept)
  /\ pc = "done" => over = (Size(kept) > budget)
  /\ removed # <<>> => Size(kept \cup {Last(removed)}) > budget

\* For any items and estimates, whatever order equal ones are dropped in
\* (context_budget.py:65).
THEOREM EstimateHolds == Spec => []EstimateIsOfTheRest
<1>1. ASSUME IInv PROVE EstimateIsOfTheRest
  <2>1. total = Size(kept)
    BY <1>1 DEF IInv, TotalIsSize
  <2>2. ASSUME removed # <<>> PROVE Size(kept \cup {Last(removed)}) > budget
    <3> DEFINE i == Last(removed)
    <3>1. i \in Item
      BY <1>1, <2>2 DEF IInv, ArgsOK, Last
    <3>2. i \notin kept
      BY <1>1, <2>2 DEF IInv, DroppedLeft, Last
    <3>3. kept \cup {i} \subseteq Item /\ IsFiniteSet(kept \cup {i}) /\ (kept \cup {i}) \ {i} = kept
      BY <1>1, <3>1, <3>2, BudgetAssumption, FS_Subset DEF IInv, ArgsOK
    <3>4. \A j \in Item : tokens[j] \in Int
      BY <1>1, Numbers DEF IInv
    <3> HIDE DEF i
    <3>5. SumFunctionOnSet(tokens, kept \cup {i}) = tokens[i] + SumFunctionOnSet(tokens, kept)
      BY <3>3, <3>4, SumRemove
    <3>6. SumFunctionOnSet(tokens, kept) \in Int /\ tokens[i] \in Int /\ overhead \in Int
      BY <1>1, <3>1, <3>3, <3>4, BudgetAssumption, FS_Subset, SumType, Numbers DEF IInv, ArgsOK
    <3>7. total + tokens[i] > budget
      BY <1>1, <2>2 DEF IInv, NothingNeedless, i
    <3> QED
      BY <2>1, <3>5, <3>6, <3>7 DEF Size, i
  <2> QED
    BY <1>1, <2>1, <2>2 DEF IInv, EndsExhausted, EstimateIsOfTheRest
<1> QED
  BY Invariance, <1>1, PTL

-----------------------------------------------------------------------------
\* What never changes.
WorldOK ==
  /\ kind \in {"metadata", "tool", "line", "trivial"} /\ tree \in {"buggy", "fixed"}
  /\ inFixed \subseteq File

\* Items are given only from a tree that is not the fixed one.
GivenFromBuggy == given => ~InFixedOracle

\* A fingerprint with every file is that of all touched files.
FingerprintOfAll == whole => hashed = Hashed(File)

\* The judged text is the fields, and the stage is the guard's verdict on it.
Judged ==
  /\ stage \in {"ready", "sent", "refused"} => parts = Fields(purpose)
  /\ stage \in {"ready", "sent"} => ~FindLeaks(parts)
  /\ stage = "refused" => FindLeaks(parts) /\ logged

\* Items that were given have been fitted before the text is judged.
Fitted == stage \in {"guard", "ready", "sent", "refused"} /\ given => pc = "done"

GuardInv == WorldOK /\ GivenFromBuggy /\ FingerprintOfAll /\ Judged /\ Fitted

-----------------------------------------------------------------------------
\* The initial states satisfy the invariant.
LEMMA GuardInitInv == ASSUME GuardInit PROVE GuardInv
  BY DEF GuardInit, Line, GuardInv, WorldOK, GivenFromBuggy, FingerprintOfAll, Judged, Fitted

\* Steps that leave the world, the fingerprint and the verdict alone.
LEMMA StepBeforeGuard ==
  ASSUME GuardInv, UNCHANGED <<world, hashed, whole, parts, logged>>,
         stage' \notin {"ready", "sent", "refused"},
         given' => ~InFixedOracle,
         stage' = "guard" /\ given' => pc' = "done"
  PROVE  GuardInv'
<1>1. UNCHANGED <<kind, tree, inFixed, inBuggy, carriers>>
  BY DEF world
<1> QED
  BY <1>1 DEF GuardInv, WorldOK, GivenFromBuggy, FingerprintOfAll, Judged, Fitted, InFixedOracle, Hashed

\* Every step preserves the invariant.
LEMMA GuardNextInv == ASSUME GuardInv, [GuardNext]_guardVars PROVE GuardInv'
<1>1. CASE Fingerprint
  <2>1. UNCHANGED <<kind, tree, inFixed, inBuggy, carriers, given, parts, logged>>
    BY <1>1 DEF Fingerprint, world
  <2>2. FingerprintOfAll'
    BY <1>1, <2>1 DEF Fingerprint, FingerprintOfAll, GuardInv, Hashed
  <2> QED
    BY <1>1, <2>1, <2>2 DEF Fingerprint, GuardInv, WorldOK, GivenFromBuggy, Judged, Fitted, InFixedOracle
<1>2. CASE Extract
  BY <1>2, StepBeforeGuard DEF Extract
<1>3. CASE NoContext
  BY <1>3, StepBeforeGuard DEF NoContext, GuardInv, GivenFromBuggy
<1>4. CASE NoTriggerTest
  BY <1>4, StepBeforeGuard DEF NoTriggerTest, GuardInv, GivenFromBuggy
<1>5. CASE CheckPaths
  BY <1>5, StepBeforeGuard DEF CheckPaths, GuardInv, GivenFromBuggy
<1>6. CASE FitToBudget
  BY <1>6, StepBeforeGuard DEF FitToBudget, GuardInv, GivenFromBuggy
<1>7. CASE CheckRequest
  <2>1. /\ UNCHANGED <<kind, tree, inFixed, inBuggy, carriers, purpose, kept, pc, given, hashed, whole>>
        /\ stage = "guard"
        /\ parts' = Fields(purpose) /\ logged' = FindLeaks(Fields(purpose))
        /\ stage' = IF FindLeaks(Fields(purpose)) THEN "refused" ELSE "ready"
    BY <1>7 DEF CheckRequest, world, vars
  <2>2. Fields(purpose)' = Fields(purpose)
    BY <2>1 DEF Fields
  <2>3. FindLeaks(parts)' = FindLeaks(Fields(purpose))
    BY <2>1 DEF FindLeaks
  <2>4. Judged'
    BY <2>1, <2>2, <2>3 DEF Judged
  <2> QED
    BY <2>1, <2>4 DEF GuardInv, WorldOK, GivenFromBuggy, FingerprintOfAll, Fitted, InFixedOracle, Hashed
<1>8. CASE Send
  <2>1. UNCHANGED <<kind, tree, inFixed, inBuggy, carriers, purpose, kept, pc, given, hashed, whole,
                    parts, logged>> /\ stage = "ready"
    BY <1>8 DEF Send, world, vars
  <2>2. Judged'
    BY <1>8, <2>1 DEF Send, GuardInv, Judged, Fields, FindLeaks
  <2> QED
    BY <2>1, <2>2 DEF GuardInv, WorldOK, GivenFromBuggy, FingerprintOfAll, Fitted, InFixedOracle, Hashed
<1>9. CASE UNCHANGED guardVars
  BY <1>9 DEF guardVars, world, vars, GuardInv, WorldOK, GivenFromBuggy, FingerprintOfAll, Judged,
              Fitted, InFixedOracle, Hashed, Fields, FindLeaks
<1> QED
  BY <1>1, <1>2, <1>3, <1>4, <1>5, <1>6, <1>7, <1>8, <1>9 DEF GuardNext

\* The invariant holds throughout.
THEOREM GuardInvariance == GuardSpec => []GuardInv
<1>1. GuardInit => GuardInv
  BY GuardInitInv
<1>2. GuardInv /\ [GuardNext]_guardVars => GuardInv'
  BY GuardNextInv
<1> QED
  BY <1>1, <1>2, PTL DEF GuardSpec

-----------------------------------------------------------------------------
\* The guard judges the text that is sent, and nothing else (leakage_guard.py:111).
THEOREM JudgesItsText == GuardSpec => []JudgedByItsText
<1>1. GuardInv => JudgedByItsText
  BY DEF GuardInv, WorldOK, Judged, FindLeaks, NamesIn, JudgedByItsText
<1> QED
  BY <1>1, GuardInvariance, PTL

\* With a whole fingerprint no line of the fix is sent that is not trivial and of
\* which only the fix has a copy (leakage_guard.py:50).
THEOREM FixNeverSent == GuardSpec => []FixLineNeverSent
<1>1. ASSUME GuardInv PROVE FixLineNeverSent
  <2> SUFFICES ASSUME stage = "sent", whole, kind = "line",
                      inFixed # {}, inBuggy = {}, "diff" \notin carriers
               PROVE  carriers \cap parts = {}
    BY DEF FixLineNeverSent
  <2>1. hashed
    BY <1>1 DEF GuardInv, WorldOK, FingerprintOfAll, Hashed
  <2> QED
    BY <1>1, <2>1 DEF GuardInv, Judged, FindLeaks
<1> QED
  BY <1>1, GuardInvariance, PTL

\* No context of the fixed tree is sent (workspaces.py:62).
THEOREM OracleStaysHome == GuardSpec => []OracleNeverSent
<1>1. ASSUME GuardInv PROVE OracleNeverSent
  <2> SUFFICES ASSUME stage = "sent", parts \cap Item # {} PROVE tree = "buggy"
    BY DEF OracleNeverSent
  <2>1. given
    BY <1>1, FileAssumption DEF GuardInv, Judged, Fields
  <2> QED
    BY <1>1, <2>1 DEF GuardInv, GivenFromBuggy, InFixedOracle, WorldOK
<1> QED
  BY <1>1, GuardInvariance, PTL

\* In a request the budget is fitted as fit_to_budget does it alone, so what is
\* proved of ContextBudget holds of every request (request_builders.py:80).
THEOREM RequestFitsBudget == GuardSpec => Spec
<1>1. GuardInit => Init
  BY DEF GuardInit
<1>2. [GuardNext]_guardVars => [Next]_vars
  BY DEF GuardNext, guardVars, Fingerprint, Extract, NoContext, NoTriggerTest, CheckPaths,
         FitToBudget, CheckRequest, Send
<1> QED
  BY <1>1, <1>2, PTL DEF GuardSpec, Spec

\* The context in a request that is sent has every mandatory item, and is within
\* the budget or is the mandatory items and marked as too long.
SentWithinBudget ==
  stage = "sent" /\ given =>
    LET items == parts \cap Item
    IN  /\ Mandatory \subseteq items
        /\ Size(items) <= budget \/ (over /\ items = Mandatory)

\* What is sent is what was fitted: neither the path checks before nor the guard
\* after the loop changes the items (request_builders.py:80).
THEOREM SendsWithinBudget == GuardSpec => []SentWithinBudget
<1>1. ASSUME GuardInv, IInv, OverOnlyByMandatory, EstimateIsOfTheRest
      PROVE  SentWithinBudget
  <2> SUFFICES ASSUME stage = "sent", given
               PROVE  /\ Mandatory \subseteq parts \cap Item
                      /\ Size(parts \cap Item) <= budget \/ (over /\ parts \cap Item = Mandatory)
    BY DEF SentWithinBudget
  <2>1. pc = "done" /\ parts = Fields(purpose)
    BY <1>1 DEF GuardInv, Fitted, Judged
  <2>2. parts \cap Item = kept
    BY <1>1, <2>1, FileAssumption DEF Fields, IInv, ArgsOK
  <2>3. Size(kept) \in Int /\ budget \in Int
    BY <1>1, Numbers DEF EstimateIsOfTheRest, IInv, ArgsOK
  <2>4. over = (Size(kept) > budget) /\ (over => kept = Mandatory)
    BY <1>1, <2>1 DEF EstimateIsOfTheRest, OverOnlyByMandatory
  <2>5. Mandatory \subseteq kept
    BY <1>1 DEF OverOnlyByMandatory
  <2>6. CASE over
    BY <2>2, <2>4, <2>5, <2>6
  <2>7. CASE ~over
    <3>1. ~(Size(kept) > budget)
      BY <2>4, <2>7, Zenon
    <3>2. Size(kept) <= budget
      BY <2>3, <3>1
    <3> QED
      BY <2>2, <2>5, <3>2
  <2> QED
    BY <2>6, <2>7
<1> QED
  BY <1>1, RequestFitsBudget, GuardInvariance, Invariance, OnlyMandatoryIsOver, EstimateHolds, PTL
=============================================================================
