------------------------- MODULE OracleRunnerProofs -------------------------
(***************************************************************************)
(* Proofs about OracleRunner, for any number of proposed tests and any     *)
(* mixture of what they may be.                                            *)
(***************************************************************************)
EXTENDS OracleRunner, FiniteSetTheorems, TLAPS

Judging     == {"fixed", "runFixed", "buggy", "runBuggy", "repeat", "candidate", "runCandidate"}
PastFixed   == Judging \ {"fixed"}
PastOracle  == PastFixed \ {"runFixed"}
PastBuggy   == PastOracle \ {"buggy"}
PastBug     == PastBuggy \ {"runBuggy"}

\* Each part of the inductive invariant: cur is an index while a test is
\* judged; what has been compiled and seen of it; what was concluded of those
\* before it.
CurInv == cur <= n + 1 /\ (pc \in Judging => cur \in 1..n)

SeenInv ==
  /\ pc \in Judging => test[cur].named
  /\ \A t \in Tree : cp[t] \in {t, "none"} /\ (pc \in Judging => seen[t] \subseteq Runs(t))
  /\ pc = "fixed" => seen["fixed"] = {}
  /\ pc \in Judging \ PastBug => seen["buggy"] = {}
  /\ pc \in Judging => seen["candidate"] = {}
  /\ pc \in PastFixed  => test[cur].does["fixed"] # {}
  /\ pc \in PastOracle => "PASS" \in seen["fixed"]
  /\ pc \in PastBuggy  => test[cur].does["buggy"] # {}
  /\ pc \in PastBug    => "FAIL" \in seen["buggy"]

RealInv ==
  \A i \in Test :
    /\ status[i] = "VALID_BUG_REVEALING" => "PASS" \in test[i].does["fixed"]
    /\ passed[i] = "yes" => "PASS" \in test[i].does["candidate"]

IInv == TypeOK /\ CurInv /\ SeenInv /\ RealInv

-----------------------------------------------------------------------------
LEMMA InitInv == Init => IInv
  <1>1. Init => TypeOK /\ CurInv
    BY StageAssumption DEF Init, TypeOK, CurInv, Judging, Unlinked, Unseen, Test, Status, Tree
  <1>2. Init => SeenInv /\ RealInv
    BY DEF Init, SeenInv, RealInv, Judging, PastFixed, PastOracle, PastBuggy, PastBug, Unlinked, Unseen
  <1> QED  BY <1>1, <1>2 DEF IInv

\* A verdict leaves the invariant, if one that counts is deserved.
LEMMA JudgeInv ==
  ASSUME IInv, pc \in Judging, NEW s \in Status, NEW p \in {"yes", "no", "missing"}, Judge(s, p),
         s = "VALID_BUG_REVEALING" => "PASS" \in test[cur].does["fixed"],
         p = "yes" => "PASS" \in test[cur].does["candidate"]
  PROVE  IInv'
  <1>1. cur \in Test /\ cur' = cur + 1 /\ cur <= n
    BY StageAssumption DEF IInv, TypeOK, CurInv, Test, Judge
  <1>2. TypeOK' /\ CurInv'
    BY <1>1, StageAssumption DEF IInv, TypeOK, CurInv, Test, Judge, Judging
  <1>3. SeenInv'
    BY DEF IInv, SeenInv, Judge, Judging, PastFixed, PastOracle, PastBuggy, PastBug
  <1>4. RealInv'
    BY <1>1 DEF IInv, RealInv, Judge, TypeOK
  <1> QED  BY <1>2, <1>3, <1>4 DEF IInv

LEMMA AskInv == ASSUME IInv, Ask \/ Finish PROVE IInv'
  <1>1. TypeOK' /\ CurInv'
    BY DEF IInv, TypeOK, CurInv, Ask, Finish, Judging
  <1>2. SeenInv' /\ RealInv'
    BY DEF IInv, SeenInv, RealInv, Ask, Finish, Judging, PastFixed, PastOracle, PastBuggy, PastBug
  <1> QED  BY <1>1, <1>2 DEF IInv

LEMMA BeginInv == ASSUME IInv, Begin PROVE IInv'
  <1>1. cur \in Test /\ cur \in 1..n
    BY StageAssumption DEF IInv, TypeOK, Test, Begin
  <1>2. TypeOK' /\ CurInv'
    BY <1>1, StageAssumption DEF IInv, TypeOK, CurInv, Begin, Judging, Unlinked, Unseen, Tree, Status, Test
  <1>3. SeenInv'
    <2>1. /\ \A t \in Tree : cp'[t] = "none" /\ seen'[t] = {}
          /\ seen'["fixed"] = {} /\ seen'["buggy"] = {} /\ seen'["candidate"] = {}
      BY DEF Begin, Unlinked, Unseen, Tree
    <2>2. pc' \in {"next", "fixed", "raised"} /\ (pc' = "fixed" => test'[cur'].named)
      BY DEF Begin
    <2> QED  BY <2>1, <2>2 DEF SeenInv, Judging, PastFixed, PastOracle, PastBuggy, PastBug, Runs
  <1>4. RealInv'
    BY <1>1 DEF IInv, RealInv, Begin, TypeOK
  <1> QED  BY <1>2, <1>3, <1>4 DEF IInv

\* Linking a tree in which nothing has run yet moves no outcome.
LEMMA LinkInv ==
  ASSUME IInv, NEW t \in Tree, Link(t), pc \in Judging, seen[t] = {}, UNCHANGED <<test, cur, seen>>
  PROVE  /\ cp' \in [Tree -> Tree \cup {"none"}]
         /\ \A u \in Tree : cp'[u] \in {u, "none"} /\ seen'[u] \subseteq Runs(u)'
  <1>1. cp' \in [Tree -> Tree \cup {"none"}] /\ \A u \in Tree : cp'[u] \in {u, "none"}
    BY DEF IInv, TypeOK, SeenInv, Link
  <1>2. \A u \in Tree : u # t => cp'[u] = cp[u]
    BY DEF IInv, TypeOK, Link
  <1>3. \A u \in Tree : u # t => Runs(u)' = Runs(u)
    BY <1>2 DEF Runs
  <1> QED  BY <1>1, <1>3 DEF IInv, SeenInv

LEMMA CompileInv ==
  ASSUME IInv, CompileFixed \/ CompileBuggy \/ CompileCandidate
  PROVE  IInv'
  <1>1. CASE CompileFixed
    <2>1. CASE ~Compiles("fixed") /\ Judge("INVALID_COMPILE", "missing")
      BY <1>1, <2>1, JudgeInv DEF CompileFixed, Judging, Status
    <2>2. CASE Compiles("fixed") /\ Link("fixed") /\ pc' = "runFixed"
      <3>1. UNCHANGED <<test, n, cur, seen, reps, status, passed>> /\ pc = "fixed"
        BY <1>1, <2>2, StageAssumption DEF CompileFixed, Judge, IInv, TypeOK, Test
      <3>2. /\ cp' \in [Tree -> Tree \cup {"none"}]
            /\ \A u \in Tree : cp'[u] \in {u, "none"} /\ seen'[u] \subseteq Runs(u)'
        BY <2>2, <3>1, LinkInv DEF IInv, SeenInv, Judging, Tree
      <3>3. TypeOK' /\ CurInv' /\ RealInv'
        BY <2>2, <3>1, <3>2 DEF IInv, TypeOK, CurInv, RealInv, Judging
      <3>4. SeenInv'
        BY <2>2, <3>1, <3>2 DEF IInv, SeenInv, Compiles, Judging, PastFixed, PastOracle, PastBuggy, PastBug
      <3> QED  BY <3>3, <3>4 DEF IInv
    <2> QED  BY <1>1, <2>1, <2>2 DEF CompileFixed
  <1>2. CASE CompileBuggy
    <2>1. CASE ~Compiles("buggy") /\ Judge("INVALID_ORACLE", "missing")
      BY <1>2, <2>1, JudgeInv DEF CompileBuggy, Judging, Status
    <2>2. CASE Compiles("buggy") /\ Link("buggy") /\ pc' = "runBuggy"
      <3>1. UNCHANGED <<test, n, cur, seen, reps, status, passed>> /\ pc = "buggy"
        BY <1>2, <2>2, StageAssumption DEF CompileBuggy, Judge, IInv, TypeOK, Test
      <3>2. /\ cp' \in [Tree -> Tree \cup {"none"}]
            /\ \A u \in Tree : cp'[u] \in {u, "none"} /\ seen'[u] \subseteq Runs(u)'
        BY <2>2, <3>1, LinkInv DEF IInv, SeenInv, Judging, PastFixed, PastOracle, PastBuggy, PastBug, Tree
      <3>3. TypeOK' /\ CurInv' /\ RealInv'
        BY <2>2, <3>1, <3>2 DEF IInv, TypeOK, CurInv, RealInv, Judging
      <3>4. SeenInv'
        BY <2>2, <3>1, <3>2 DEF IInv, SeenInv, Compiles, Judging, PastFixed, PastOracle, PastBuggy, PastBug
      <3> QED  BY <3>3, <3>4 DEF IInv
    <2> QED  BY <1>2, <2>1, <2>2 DEF CompileBuggy
  <1>3. CASE CompileCandidate
    <2>1. CASE ~Compiles("candidate") /\ Judge("VALID_BUG_REVEALING", "missing")
      <3>1. "PASS" \in test[cur].does["fixed"]
        BY <1>3 DEF CompileCandidate, IInv, SeenInv, Runs, Tree, Judging, PastFixed, PastOracle, PastBuggy, PastBug
      <3> QED  BY <1>3, <2>1, <3>1, JudgeInv DEF CompileCandidate, Judging, Status
    <2>2. CASE Compiles("candidate") /\ Link("candidate") /\ pc' = "runCandidate"
      <3>1. UNCHANGED <<test, n, cur, seen, reps, status, passed>> /\ pc = "candidate"
        BY <1>3, <2>2, StageAssumption DEF CompileCandidate, Judge, IInv, TypeOK, Test
      <3>2. /\ cp' \in [Tree -> Tree \cup {"none"}]
            /\ \A u \in Tree : cp'[u] \in {u, "none"} /\ seen'[u] \subseteq Runs(u)'
        BY <2>2, <3>1, LinkInv DEF IInv, SeenInv, Judging, Tree
      <3>3. TypeOK' /\ CurInv' /\ RealInv'
        BY <2>2, <3>1, <3>2 DEF IInv, TypeOK, CurInv, RealInv, Judging
      <3>4. SeenInv'
        BY <2>2, <3>1, <3>2 DEF IInv, SeenInv, Compiles, Judging, PastFixed, PastOracle, PastBuggy, PastBug
      <3> QED  BY <3>3, <3>4 DEF IInv
    <2> QED  BY <1>3, <2>1, <2>2 DEF CompileCandidate
  <1> QED  BY <1>1, <1>2, <1>3

\* What an execution shows, the test can do; a pass shows that it was run.
LEMMA RunsAreReal ==
  ASSUME IInv, NEW t \in Tree, "PASS" \in Runs(t)
  PROVE  "PASS" \in test[cur].does[t]
  BY DEF IInv, SeenInv, Runs

LEMMA RunsOutcome ==
  ASSUME IInv, pc \in Judging, NEW t \in Tree
  PROVE  Runs(t) \subseteq Outcome
  <1>1. cur \in Test /\ test[cur] \in NatureType
    BY StageAssumption DEF IInv, TypeOK, CurInv, Test
  <1> QED  BY <1>1 DEF IInv, SeenInv, Runs, NatureType, Outcome

\* The copies are executed as they were linked.
LEMMA SeeInv ==
  ASSUME IInv, pc \in Judging, UNCHANGED <<test, n, cur, cp, status, passed>>,
         NEW f \in SUBSET Runs("fixed"), NEW b \in SUBSET Runs("buggy"),
         seen' = [seen EXCEPT !["fixed"] = @ \cup f, !["buggy"] = @ \cup b]
  PROVE  /\ seen' \in [Tree -> SUBSET Outcome]
         /\ \A t \in Tree : seen[t] \subseteq seen'[t] /\ seen'[t] \subseteq Runs(t)'
         /\ seen'["candidate"] = seen["candidate"]
         /\ f \subseteq seen'["fixed"] /\ b \subseteq seen'["buggy"]
         /\ b = {} => seen'["buggy"] = seen["buggy"]
  <1>1. f \subseteq Outcome /\ b \subseteq Outcome
    BY RunsOutcome DEF Tree
  <1>2. seen \in [Tree -> SUBSET Outcome] /\ \A t \in Tree : seen[t] \subseteq Runs(t)
    BY DEF IInv, TypeOK, SeenInv
  <1>3. \A t \in Tree : Runs(t)' = Runs(t)
    BY DEF Runs
  <1>4. /\ seen'["fixed"] = seen["fixed"] \cup f /\ seen'["buggy"] = seen["buggy"] \cup b
        /\ seen'["candidate"] = seen["candidate"]
    BY <1>2 DEF Tree
  <1>5. seen' \in [Tree -> SUBSET Outcome]
    BY <1>1, <1>2 DEF Tree
  <1> QED  BY <1>2, <1>3, <1>4, <1>5 DEF Tree

LEMMA RunFixedInv == ASSUME IInv, RunFixed PROVE IInv'
  <1>1. PICK o \in Runs("fixed") :
          \/ o = "TIMEOUT" /\ Judge("TIMEOUT", "missing")
          \/ o = "FAIL" /\ Judge("INVALID_ORACLE", "missing")
          \/ /\ o = "PASS" /\ seen' = [seen EXCEPT !["fixed"] = {o}] /\ pc' = "buggy"
             /\ UNCHANGED <<test, n, cur, cp, reps, status, passed>>
    BY DEF RunFixed
  <1>2. pc = "runFixed" /\ pc \in Judging
    BY DEF RunFixed, Judging
  <1>3. CASE Judge("TIMEOUT", "missing") \/ Judge("INVALID_ORACLE", "missing")
    BY <1>2, <1>3, JudgeInv DEF Status
  <1>4. CASE /\ o = "PASS" /\ seen' = [seen EXCEPT !["fixed"] = {o}] /\ pc' = "buggy"
             /\ UNCHANGED <<test, n, cur, cp, reps, status, passed>>
    <2>1. seen \in [Tree -> SUBSET Outcome] /\ "fixed" \in Tree /\ o \in Outcome
      BY <1>2, RunsOutcome DEF IInv, TypeOK, Tree
    <2>2. /\ seen'["fixed"] = {o} /\ \A t \in Tree : t # "fixed" => seen'[t] = seen[t]
          /\ seen' \in [Tree -> SUBSET Outcome]
      BY <1>4, <2>1
    <2>3. \A t \in Tree : Runs(t)' = Runs(t)
      BY <1>4 DEF Runs
    <2>4. TypeOK' /\ CurInv' /\ RealInv'
      BY <1>2, <1>4, <2>2 DEF IInv, TypeOK, CurInv, RealInv, Judging
    <2>5. \A t \in Tree : cp'[t] \in {t, "none"} /\ seen'[t] \subseteq Runs(t)'
      BY <1>2, <1>4, <2>2, <2>3 DEF IInv, SeenInv
    <2>6. SeenInv'
      BY <1>2, <1>4, <2>2, <2>5 DEF IInv, SeenInv, Judging, PastFixed, PastOracle, PastBuggy, PastBug, Tree
    <2> QED  BY <2>4, <2>6 DEF IInv
  <1> QED  BY <1>1, <1>3, <1>4

LEMMA RunBuggyInv == ASSUME IInv, RunBuggy PROVE IInv'
  <1>1. PICK o \in Runs("buggy") :
          \/ o = "TIMEOUT" /\ Judge("TIMEOUT", "missing")
          \/ o = "PASS" /\ Judge("VALID_NON_DISCRIMINATING", "missing")
          \/ /\ o = "FAIL" /\ seen' = [seen EXCEPT !["buggy"] = {o}] /\ reps' = 1 /\ pc' = "repeat"
             /\ UNCHANGED <<test, n, cur, cp, status, passed>>
    BY DEF RunBuggy
  <1>2. pc = "runBuggy" /\ pc \in Judging
    BY DEF RunBuggy, Judging
  <1>3. CASE Judge("TIMEOUT", "missing") \/ Judge("VALID_NON_DISCRIMINATING", "missing")
    BY <1>2, <1>3, JudgeInv DEF Status
  <1>4. CASE /\ o = "FAIL" /\ seen' = [seen EXCEPT !["buggy"] = {o}] /\ reps' = 1 /\ pc' = "repeat"
             /\ UNCHANGED <<test, n, cur, cp, status, passed>>
    <2>1. seen \in [Tree -> SUBSET Outcome] /\ "buggy" \in Tree /\ o \in Outcome
      BY <1>2, RunsOutcome DEF IInv, TypeOK, Tree
    <2>2. /\ seen'["buggy"] = {o} /\ \A t \in Tree : t # "buggy" => seen'[t] = seen[t]
          /\ seen' \in [Tree -> SUBSET Outcome]
      BY <1>4, <2>1
    <2>3. \A t \in Tree : Runs(t)' = Runs(t)
      BY <1>4 DEF Runs
    <2>4. TypeOK' /\ CurInv' /\ RealInv'
      BY <1>2, <1>4, <2>2 DEF IInv, TypeOK, CurInv, RealInv, Judging
    <2>5. \A t \in Tree : cp'[t] \in {t, "none"} /\ seen'[t] \subseteq Runs(t)'
      BY <1>2, <1>4, <2>2, <2>3 DEF IInv, SeenInv
    <2>6. SeenInv'
      BY <1>2, <1>4, <2>2, <2>5 DEF IInv, SeenInv, Judging, PastFixed, PastOracle, PastBuggy, PastBug, Tree
    <2> QED  BY <2>4, <2>6 DEF IInv
  <1> QED  BY <1>1, <1>3, <1>4

LEMMA RepeatInv == ASSUME IInv, Repeat PROVE IInv'
  <1>1. pc = "repeat" /\ pc' = "repeat" /\ reps < 3 /\ reps' = reps + 1
        /\ UNCHANGED <<pc, test, n, cur, cp, status, passed>>
    BY DEF Repeat
  <1>2. PICK f \in Runs("fixed"), b \in Runs("buggy") :
          seen' = [seen EXCEPT !["fixed"] = @ \cup {f}, !["buggy"] = @ \cup {b}]
    BY DEF Repeat
  <1>3. /\ seen' \in [Tree -> SUBSET Outcome]
        /\ \A t \in Tree : seen[t] \subseteq seen'[t] /\ seen'[t] \subseteq Runs(t)'
        /\ seen'["candidate"] = seen["candidate"]
    <2>1. {f} \in SUBSET Runs("fixed") /\ {b} \in SUBSET Runs("buggy") /\ pc \in Judging
      BY <1>1 DEF Judging
    <2> QED  BY <1>1, <1>2, <2>1, SeeInv
  <1>4. TypeOK' /\ CurInv' /\ RealInv'
    BY <1>1, <1>3 DEF IInv, TypeOK, CurInv, RealInv, Judging
  <1>5. SeenInv'
    BY <1>1, <1>3 DEF IInv, SeenInv, Judging, PastFixed, PastOracle, PastBuggy, PastBug, Tree
  <1> QED  BY <1>4, <1>5 DEF IInv

LEMMA PassesFixed ==
  ASSUME IInv, pc \in PastOracle
  PROVE  "PASS" \in test[cur].does["fixed"]
  <1>1. "PASS" \in Runs("fixed")
    BY DEF IInv, SeenInv, Judging, PastFixed, PastOracle, Tree
  <1> QED  BY <1>1, RunsAreReal DEF Tree

LEMMA ClassifyRunsInv == ASSUME IInv, ClassifyRuns PROVE IInv'
  <1> DEFINE s == Classify(seen["fixed"], seen["buggy"])
  <1>1. s \in Status /\ pc = "repeat" /\ pc \in Judging
    BY DEF Classify, Status, ClassifyRuns, Judging
  <1>2. CASE s # "VALID_BUG_REVEALING" /\ Judge(s, "missing")
    <2> HIDE DEF s
    <2> QED  BY <1>1, <1>2, JudgeInv
  <1>3. CASE pc' = "candidate" /\ UNCHANGED <<test, n, cur, cp, seen, reps, status, passed>>
    <2>1. TypeOK' /\ CurInv' /\ RealInv'
      BY <1>1, <1>3 DEF IInv, TypeOK, CurInv, RealInv, Judging
    <2>2. SeenInv'
      BY <1>1, <1>3 DEF IInv, SeenInv, Runs, Judging, PastFixed, PastOracle, PastBuggy, PastBug
    <2> QED  BY <2>1, <2>2 DEF IInv
  <1> QED  BY <1>2, <1>3 DEF ClassifyRuns

LEMMA RunCandidateInv == ASSUME IInv, RunCandidate PROVE IInv'
  <1>1. PICK o \in Runs("candidate") :
          Judge("VALID_BUG_REVEALING", IF o = "PASS" THEN "yes" ELSE "no")
    BY DEF RunCandidate
  <1>2. pc \in Judging /\ pc \in PastOracle
    BY DEF RunCandidate, Judging, PastFixed, PastOracle
  <1>3. "PASS" \in test[cur].does["fixed"]
    BY <1>2, PassesFixed
  <1>4. CASE o = "PASS"
    <2>1. "PASS" \in test[cur].does["candidate"]
      BY <1>1, <1>4, RunsAreReal DEF Tree
    <2>2. Judge("VALID_BUG_REVEALING", "yes")
      BY <1>1, <1>4
    <2> QED  BY <1>2, <1>3, <2>1, <2>2, JudgeInv DEF Status
  <1>5. CASE o # "PASS"
    <2>1. Judge("VALID_BUG_REVEALING", "no")
      BY <1>1, <1>5
    <2> QED  BY <1>2, <1>3, <2>1, JudgeInv DEF Status
  <1> QED  BY <1>4, <1>5

LEMMA NextInv == ASSUME IInv, [Next]_vars PROVE IInv'
  <1>1. CASE UNCHANGED vars
    <2>1. TypeOK' /\ CurInv' /\ RealInv'
      BY <1>1 DEF vars, IInv, TypeOK, CurInv, RealInv
    <2>2. SeenInv'
      BY <1>1 DEF vars, IInv, SeenInv, Runs
    <2> QED  BY <2>1, <2>2 DEF IInv
  <1>2. CASE Next
    BY <1>2, AskInv, BeginInv, CompileInv, RunFixedInv, RunBuggyInv, RepeatInv, ClassifyRunsInv,
       RunCandidateInv DEF Next
  <1> QED  BY <1>1, <1>2

LEMMA InvHolds == Spec => []IInv
  <1>1. Init => IInv
    BY InitInv
  <1>2. IInv /\ [Next]_vars => IInv'
    BY NextInv
  <1> QED  BY <1>1, <1>2, PTL DEF Spec

\* The state of a counterexample stage is always of its type.
THEOREM StageTypes == Spec => []TypeOK
  <1>1. IInv => TypeOK
    BY DEF IInv
  <1> QED  BY <1>1, InvHolds, PTL

\* Whatever tests the model proposes and whichever exports fail, a test counts
\* only if it can pass in the fixed tree and helps only a candidate it can
\* pass in.
THEOREM OnlyRealPassesCount == Spec => []PassesAreReal
  <1>1. IInv => PassesAreReal
    BY StageAssumption DEF IInv, RealInv, TypeOK, PassesAreReal, Valid, Passed, Test
  <1> QED  BY <1>1, InvHolds, PTL

-----------------------------------------------------------------------------
\* When no export of the test in hand fails, every tree's classes are executed
\* in its own copy, and what was seen is what the test does there.
LinkedInv ==
  test[cur].exported =>
    /\ pc \in PastFixed => cp["fixed"] = "fixed"
    /\ pc \in PastBuggy => cp["buggy"] = "buggy"
    /\ pc = "runCandidate" => cp["candidate"] = "candidate"

DeservedInv == IInv /\ LinkedInv /\ VerdictDeserved

LEMMA InitDeserved == Init => DeservedInv
  <1>1. Init => LinkedInv /\ VerdictDeserved
    BY DEF Init, LinkedInv, VerdictDeserved, Judging, PastFixed, PastOracle, PastBuggy
  <1> QED  BY <1>1, InitInv DEF DeservedInv

\* A verdict that is deserved leaves the others as they were.
LEMMA JudgeDeserved ==
  ASSUME DeservedInv, pc \in Judging, NEW s, NEW p, Judge(s, p),
         test[cur].exported => Deserves(test[cur], s)
  PROVE  LinkedInv' /\ VerdictDeserved'
  <1>1. cur \in Test /\ cur' = cur + 1 /\ cur \in Int /\ test' = test
    BY StageAssumption DEF DeservedInv, IInv, TypeOK, CurInv, Test, Judge
  <1>2. status'[cur] = s /\ \A i \in Test : i # cur => status'[i] = status[i]
    BY <1>1 DEF Judge, DeservedInv, IInv, TypeOK
  <1>3. LinkedInv'
    BY DEF Judge, LinkedInv, Judging, PastFixed, PastOracle, PastBuggy
  <1>4. ASSUME NEW i \in 1..(cur' - 1), test[i].exported  PROVE Deserves(test[i], status'[i])
    <2>1. CASE i = cur
      BY <1>2, <1>4, <2>1
    <2>2. CASE i # cur
      <3>1. i \in 1..(cur - 1) /\ i \in Test
        BY <1>1, <2>2, StageAssumption DEF Test
      <3> QED  BY <1>2, <1>4, <2>2, <3>1 DEF DeservedInv, VerdictDeserved
    <2> QED  BY <2>1, <2>2
  <1>5. VerdictDeserved'
    BY <1>1, <1>4 DEF VerdictDeserved, Deserves
  <1> QED  BY <1>3, <1>5

LEMMA BeginDeserved == ASSUME DeservedInv, Begin PROVE LinkedInv' /\ VerdictDeserved'
  <1>1. LinkedInv'
    BY DEF Begin, LinkedInv, Judging, PastFixed, PastOracle, PastBuggy
  <1>2. CASE ~test[cur].named
    <2>1. cur' = cur + 1 /\ cur \in Int /\ cur \in Test /\ test' = test
          /\ status' = [status EXCEPT ![cur] = "INVALID_COMPILE"]
      BY <1>2, StageAssumption DEF Begin, DeservedInv, IInv, TypeOK, CurInv, Test
    <2>2. status'[cur] = "INVALID_COMPILE" /\ \A i \in Test : i # cur => status'[i] = status[i]
      BY <2>1 DEF DeservedInv, IInv, TypeOK
    <2>3. ASSUME NEW i \in 1..(cur' - 1), test[i].exported  PROVE Deserves(test[i], status'[i])
      <3>1. CASE i = cur
        BY <1>2, <2>2, <3>1 DEF Deserves
      <3>2. CASE i # cur
        <4>1. i \in 1..(cur - 1) /\ i \in Test
          BY <2>1, <3>2, StageAssumption DEF Test, DeservedInv, IInv, TypeOK
        <4> QED  BY <2>2, <2>3, <3>2, <4>1 DEF DeservedInv, VerdictDeserved
      <3> QED  BY <3>1, <3>2
    <2>4. VerdictDeserved'
      BY <2>1, <2>3 DEF VerdictDeserved, Deserves
    <2> QED  BY <1>1, <2>4
  <1>3. CASE test[cur].named
    BY <1>1, <1>3 DEF Begin, DeservedInv, VerdictDeserved
  <1> QED  BY <1>2, <1>3

\* Nothing is claimed of a test whose exports fail.
LEMMA UnexportedDeserved ==
  ASSUME DeservedInv, ~test[cur].exported,
         \/ CompileFixed \/ CompileBuggy \/ CompileCandidate
         \/ RunFixed \/ RunBuggy \/ RunCandidate \/ ClassifyRuns
  PROVE  LinkedInv' /\ VerdictDeserved'
  <1>1. pc \in Judging
    BY DEF CompileFixed, CompileBuggy, CompileCandidate, RunFixed, RunBuggy, RunCandidate,
       ClassifyRuns, Judging
  <1>2. ASSUME NEW s, NEW p, Judge(s, p)  PROVE LinkedInv' /\ VerdictDeserved'
    BY <1>1, <1>2, JudgeDeserved
  <1>3. CASE UNCHANGED <<test, cur, status>>
    BY <1>3 DEF DeservedInv, LinkedInv, VerdictDeserved
  <1>4. CASE CompileFixed \/ CompileBuggy \/ CompileCandidate
    BY <1>2, <1>3, <1>4 DEF CompileFixed, CompileBuggy, CompileCandidate
  <1>5. CASE RunFixed \/ RunBuggy
    BY <1>2, <1>3, <1>5 DEF RunFixed, RunBuggy
  <1>6. CASE RunCandidate
    BY <1>2, <1>6 DEF RunCandidate
  <1>7. CASE ClassifyRuns
    <2> DEFINE s == Classify(seen["fixed"], seen["buggy"])
    <2>1. CASE Judge(s, "missing")
      <3> HIDE DEF s
      <3> QED  BY <1>2, <2>1
    <2> QED  BY <1>3, <1>7, <2>1 DEF ClassifyRuns
  <1> QED  BY <1>4, <1>5, <1>6, <1>7

LEMMA CompileDeserved ==
  ASSUME DeservedInv, test[cur].exported, CompileFixed \/ CompileBuggy \/ CompileCandidate
  PROVE  LinkedInv' /\ VerdictDeserved'
  <1>0. pc \in Judging /\ test[cur].named /\ cp \in [Tree -> Tree \cup {"none"}]
    BY DEF CompileFixed, CompileBuggy, CompileCandidate, DeservedInv, IInv, TypeOK, SeenInv, Judging
  <1>1. \A t \in Tree : Link(t) => cp' = [cp EXCEPT ![t] = t]
    BY DEF Link, Exports
  <1>2. CASE CompileFixed
    <2>1. CASE ~Compiles("fixed") /\ Judge("INVALID_COMPILE", "missing")
      <3>1. Deserves(test[cur], "INVALID_COMPILE")
        BY <2>1 DEF Compiles, Deserves
      <3> QED  BY <1>0, <2>1, <3>1, JudgeDeserved
    <2>2. CASE Link("fixed") /\ pc' = "runFixed" /\ UNCHANGED <<test, n, cur, seen, reps, status, passed>>
      <3>1. cp'["fixed"] = "fixed"
        BY <1>0, <1>1, <2>2 DEF Tree
      <3>2. LinkedInv'
        BY <2>2, <3>1 DEF LinkedInv, Judging, PastFixed, PastOracle, PastBuggy
      <3> QED  BY <2>2, <3>2 DEF DeservedInv, VerdictDeserved
    <2> QED  BY <1>2, <2>1, <2>2 DEF CompileFixed
  <1>3. CASE CompileBuggy
    <2>0. pc = "buggy" /\ pc \in PastOracle /\ pc \in PastFixed
      BY <1>3 DEF CompileBuggy, Judging, PastFixed, PastOracle
    <2>1. CASE ~Compiles("buggy") /\ Judge("INVALID_ORACLE", "missing")
      <3>1. "PASS" \in test[cur].does["fixed"]
        BY <2>0, PassesFixed DEF DeservedInv
      <3>2. Deserves(test[cur], "INVALID_ORACLE")
        BY <1>0, <2>1, <3>1 DEF Compiles, Deserves
      <3> QED  BY <1>0, <2>1, <3>2, JudgeDeserved
    <2>2. CASE Link("buggy") /\ pc' = "runBuggy" /\ UNCHANGED <<test, n, cur, seen, reps, status, passed>>
      <3>1. cp'["buggy"] = "buggy" /\ cp'["fixed"] = cp["fixed"]
        BY <1>0, <1>1, <2>2 DEF Tree
      <3>2. LinkedInv'
        BY <2>0, <2>2, <3>1 DEF DeservedInv, LinkedInv, Judging, PastFixed, PastOracle, PastBuggy
      <3> QED  BY <2>2, <3>2 DEF DeservedInv, VerdictDeserved
    <2> QED  BY <1>3, <2>1, <2>2 DEF CompileBuggy
  <1>4. CASE CompileCandidate
    <2>0. pc = "candidate" /\ pc \in PastOracle /\ pc \in PastFixed /\ pc \in PastBuggy /\ pc \in PastBug
      BY <1>4 DEF CompileCandidate, Judging, PastFixed, PastOracle, PastBuggy, PastBug
    <2>1. CASE ~Compiles("candidate") /\ Judge("VALID_BUG_REVEALING", "missing")
      <3>1. "PASS" \in test[cur].does["fixed"]
        BY <2>0, PassesFixed DEF DeservedInv
      <3>2. "FAIL" \in test[cur].does["buggy"]
        BY <1>0, <2>0 DEF DeservedInv, IInv, SeenInv, LinkedInv, Runs, Tree
      <3>3. Deserves(test[cur], "VALID_BUG_REVEALING")
        BY <1>0, <3>1, <3>2 DEF Deserves
      <3> QED  BY <1>0, <2>1, <3>3, JudgeDeserved
    <2>2. CASE Link("candidate") /\ pc' = "runCandidate"
               /\ UNCHANGED <<test, n, cur, seen, reps, status, passed>>
      <3>1. cp'["buggy"] = cp["buggy"] /\ cp'["fixed"] = cp["fixed"] /\ cp'["candidate"] = "candidate"
        BY <1>0, <1>1, <2>2 DEF Tree
      <3>2. LinkedInv'
        BY <2>0, <2>2, <3>1 DEF DeservedInv, LinkedInv, Judging, PastFixed, PastOracle, PastBuggy
      <3> QED  BY <2>2, <3>2 DEF DeservedInv, VerdictDeserved
    <2> QED  BY <1>4, <2>1, <2>2 DEF CompileCandidate
  <1> QED  BY <1>2, <1>3, <1>4

LEMMA RunDeserved ==
  ASSUME DeservedInv, test[cur].exported, RunFixed \/ RunBuggy \/ RunCandidate
  PROVE  LinkedInv' /\ VerdictDeserved'
  <1>0. pc \in Judging /\ test[cur].named
    BY DEF RunFixed, RunBuggy, RunCandidate, DeservedInv, IInv, SeenInv, Judging
  <1>1. CASE RunFixed
    <2>1. Runs("fixed") = test[cur].does["fixed"]
      BY <1>1 DEF RunFixed, DeservedInv, LinkedInv, Runs, Judging, PastFixed
    <2>2. CASE "TIMEOUT" \in Runs("fixed") /\ Judge("TIMEOUT", "missing")
      <3>1. Deserves(test[cur], "TIMEOUT")
        BY <1>0, <2>1, <2>2 DEF Deserves
      <3> QED  BY <1>0, <2>2, <3>1, JudgeDeserved
    <2>3. CASE "FAIL" \in Runs("fixed") /\ Judge("INVALID_ORACLE", "missing")
      <3>1. Deserves(test[cur], "INVALID_ORACLE")
        BY <1>0, <2>1, <2>3 DEF Deserves
      <3> QED  BY <1>0, <2>3, <3>1, JudgeDeserved
    <2>4. CASE pc' = "buggy" /\ UNCHANGED <<test, n, cur, cp, status>>
      BY <1>1, <2>4 DEF RunFixed, DeservedInv, LinkedInv, VerdictDeserved,
         Judging, PastFixed, PastOracle, PastBuggy
    <2> QED  BY <1>1, <2>2, <2>3, <2>4 DEF RunFixed
  <1>2. CASE RunBuggy
    <2>0. pc = "runBuggy" /\ pc \in PastOracle
      BY <1>2 DEF RunBuggy, Judging, PastFixed, PastOracle
    <2>1. Runs("buggy") = test[cur].does["buggy"] /\ "PASS" \in test[cur].does["fixed"]
      BY <2>0, PassesFixed DEF DeservedInv, LinkedInv, Runs, Judging, PastFixed, PastOracle, PastBuggy
    <2>2. CASE "TIMEOUT" \in Runs("buggy") /\ Judge("TIMEOUT", "missing")
      <3>1. Deserves(test[cur], "TIMEOUT")
        BY <1>0, <2>1, <2>2 DEF Deserves
      <3> QED  BY <1>0, <2>2, <3>1, JudgeDeserved
    <2>3. CASE "PASS" \in Runs("buggy") /\ Judge("VALID_NON_DISCRIMINATING", "missing")
      <3>1. Deserves(test[cur], "VALID_NON_DISCRIMINATING")
        BY <1>0, <2>1, <2>3 DEF Deserves
      <3> QED  BY <1>0, <2>3, <3>1, JudgeDeserved
    <2>4. CASE pc' = "repeat" /\ UNCHANGED <<test, n, cur, cp, status>>
      BY <2>0, <2>4 DEF DeservedInv, LinkedInv, VerdictDeserved, Judging, PastFixed, PastOracle, PastBuggy
    <2> QED  BY <1>2, <2>2, <2>3, <2>4 DEF RunBuggy
  <1>3. CASE RunCandidate
    <2>0. pc = "runCandidate" /\ pc \in PastOracle /\ pc \in PastBuggy /\ pc \in PastBug
      BY <1>3 DEF RunCandidate, Judging, PastFixed, PastOracle, PastBuggy, PastBug
    <2>1. "PASS" \in test[cur].does["fixed"] /\ "FAIL" \in test[cur].does["buggy"]
      BY <1>0, <2>0, PassesFixed DEF DeservedInv, IInv, SeenInv, LinkedInv, Runs, Tree
    <2>2. Deserves(test[cur], "VALID_BUG_REVEALING")
      BY <1>0, <2>1 DEF Deserves
    <2> QED  BY <1>0, <1>3, <2>2, JudgeDeserved DEF RunCandidate
  <1> QED  BY <1>1, <1>2, <1>3

\* What three executions in each tree can show, and what follows from it.
LEMMA ClassifyDeserved ==
  ASSUME NEW t, t.named, NEW f \in SUBSET Outcome, NEW b \in SUBSET Outcome,
         f \subseteq t.does["fixed"], b \subseteq t.does["buggy"], "PASS" \in f, "FAIL" \in b
  PROVE  Deserves(t, Classify(f, b))
  <1>1. "PASS" \in t.does["fixed"] /\ "FAIL" \in t.does["buggy"]
    OBVIOUS
  <1>2. CASE "TIMEOUT" \in f \cup b
    <2>1. Deserves(t, "TIMEOUT")
      BY <1>1, <1>2 DEF Deserves
    <2> QED  BY <1>2, <2>1 DEF Classify
  <1>3. CASE "TIMEOUT" \notin f \cup b /\ (Cardinality(f) > 1 \/ Cardinality(b) > 1)
    <2>1. f # {"PASS"} \/ b # {"FAIL"}
      BY <1>3, FS_Singleton
    <2>2. t.does["fixed"] # {"PASS"} \/ t.does["buggy"] # {"FAIL"}
      BY <2>1
    <2>3. Deserves(t, "FLAKY")
      BY <1>1, <2>2 DEF Deserves
    <2>4. Classify(f, b) = "FLAKY"
      BY <1>3 DEF Classify
    <2> QED  BY <2>3, <2>4
  <1>4. CASE "TIMEOUT" \notin f \cup b /\ ~(Cardinality(f) > 1 \/ Cardinality(b) > 1)
    <2>1. CASE f # {"PASS"}
      <3>1. "FAIL" \in t.does["fixed"]
        BY <1>4, <2>1 DEF Outcome
      <3>2. Deserves(t, "INVALID_ORACLE")
        BY <3>1 DEF Deserves
      <3>3. Classify(f, b) = "INVALID_ORACLE"
        BY <1>4, <2>1 DEF Classify
      <3> QED  BY <3>2, <3>3
    <2>2. CASE f = {"PASS"} /\ b = {"FAIL"}
      <3>1. Deserves(t, "VALID_BUG_REVEALING")
        BY <1>1 DEF Deserves
      <3>2. Classify(f, b) = "VALID_BUG_REVEALING"
        BY <1>4, <2>2 DEF Classify
      <3> QED  BY <3>1, <3>2
    <2>3. CASE f = {"PASS"} /\ b # {"FAIL"}
      <3>1. "PASS" \in t.does["buggy"]
        BY <1>4, <2>3 DEF Outcome
      <3>2. Deserves(t, "VALID_NON_DISCRIMINATING")
        BY <1>1, <3>1 DEF Deserves
      <3>3. Classify(f, b) = "VALID_NON_DISCRIMINATING"
        BY <1>4, <2>3 DEF Classify
      <3> QED  BY <3>2, <3>3
    <2> QED  BY <2>1, <2>2, <2>3
  <1> QED  BY <1>2, <1>3, <1>4

LEMMA ClassifyRunsDeserved ==
  ASSUME DeservedInv, test[cur].exported, ClassifyRuns
  PROVE  LinkedInv' /\ VerdictDeserved'
  <1> DEFINE s == Classify(seen["fixed"], seen["buggy"])
  <1>1. /\ pc = "repeat" /\ pc \in Judging /\ pc \in PastFixed /\ pc \in PastOracle
        /\ pc \in PastBuggy /\ pc \in PastBug
    BY DEF ClassifyRuns, Judging, PastFixed, PastOracle, PastBuggy, PastBug
  <1>2. /\ seen["fixed"] \in SUBSET Outcome /\ seen["buggy"] \in SUBSET Outcome /\ test[cur].named
        /\ "PASS" \in seen["fixed"] /\ "FAIL" \in seen["buggy"]
    BY <1>1 DEF DeservedInv, IInv, TypeOK, SeenInv, Tree
  <1>3. seen["fixed"] \subseteq test[cur].does["fixed"] /\ seen["buggy"] \subseteq test[cur].does["buggy"]
    BY <1>1 DEF DeservedInv, IInv, SeenInv, LinkedInv, Runs, Tree
  <1>4. Deserves(test[cur], s)
    BY <1>2, <1>3, ClassifyDeserved
  <1>5. CASE Judge(s, "missing")
    <2> HIDE DEF s
    <2> QED  BY <1>1, <1>4, <1>5, JudgeDeserved
  <1>6. CASE pc' = "candidate" /\ UNCHANGED <<test, n, cur, cp, seen, reps, status, passed>>
    BY <1>1, <1>6 DEF DeservedInv, LinkedInv, VerdictDeserved, Judging, PastFixed, PastOracle, PastBuggy
  <1> QED  BY <1>5, <1>6 DEF ClassifyRuns

LEMMA NextDeserved ==
  ASSUME DeservedInv, [Next]_vars
  PROVE  DeservedInv'
  <1>1. IInv'
    BY NextInv DEF DeservedInv
  <1>2. ASSUME UNCHANGED <<test, cur, cp, status>>, pc' = pc \/ pc' \notin Judging
        PROVE  LinkedInv' /\ VerdictDeserved'
    BY <1>2 DEF DeservedInv, LinkedInv, VerdictDeserved, Judging, PastFixed, PastOracle, PastBuggy
  <1>3. LinkedInv' /\ VerdictDeserved'
    <2>1. CASE UNCHANGED vars \/ Ask \/ Finish \/ Repeat
      BY <2>1, <1>2 DEF vars, Ask, Finish, Repeat, Judging, DeservedInv
    <2>2. CASE Begin \/ CompileFixed \/ CompileBuggy \/ CompileCandidate
      BY <2>2, BeginDeserved, CompileDeserved, UnexportedDeserved
    <2>3. CASE RunFixed \/ RunBuggy \/ RunCandidate \/ ClassifyRuns
      BY <2>3, RunDeserved, ClassifyRunsDeserved, UnexportedDeserved
    <2> QED  BY <2>1, <2>2, <2>3 DEF Next
  <1> QED  BY <1>1, <1>3 DEF DeservedInv

\* No test whose exports succeed gets a status that what it really does in the
\* oracle trees does not call for.
THEOREM VerdictsAreDeserved == Spec => []VerdictDeserved
  <1>1. Init => DeservedInv
    BY InitDeserved
  <1>2. DeservedInv /\ [Next]_vars => DeservedInv'
    BY NextDeserved
  <1>3. DeservedInv => VerdictDeserved
    BY DEF DeservedInv
  <1> QED  BY <1>1, <1>2, <1>3, PTL DEF Spec

-----------------------------------------------------------------------------
\* What the one execution in the candidate says of each test that counts.
CountedInv ==
  \A i \in 1..(cur - 1) : test[i].exported /\ status[i] = "VALID_BUG_REVEALING" =>
    LET c == test[i].does["candidate"] IN
      /\ passed[i] = "missing" => c = {}
      /\ passed[i] = "yes" => "PASS" \in c
      /\ passed[i] = "no"  => c # {} /\ c # {"PASS"}

ScoredInv == pc = "scored" => cur > n

FairInv == DeservedInv /\ CountedInv /\ ScoredInv

\* A verdict keeps the count right, if it is right about this test.
LEMMA JudgeCounted ==
  ASSUME FairInv, pc \in Judging, NEW s, NEW p, Judge(s, p),
         test[cur].exported /\ s = "VALID_BUG_REVEALING" =>
           LET c == test[cur].does["candidate"] IN
             /\ p = "missing" => c = {}
             /\ p = "yes" => "PASS" \in c
             /\ p = "no"  => c # {} /\ c # {"PASS"}
  PROVE  CountedInv' /\ ScoredInv'
  <1>1. cur \in Test /\ cur' = cur + 1 /\ cur \in Int /\ test' = test /\ pc' = "next"
    BY StageAssumption DEF FairInv, DeservedInv, IInv, TypeOK, CurInv, Test, Judge
  <1>2. /\ status'[cur] = s /\ passed'[cur] = p
        /\ \A i \in Test : i # cur => status'[i] = status[i] /\ passed'[i] = passed[i]
    BY <1>1 DEF Judge, FairInv, DeservedInv, IInv, TypeOK
  <1>3. ASSUME NEW i \in 1..(cur' - 1), i # cur  PROVE i \in 1..(cur - 1) /\ i \in Test
    BY <1>1, <1>3, StageAssumption DEF Test
  <1>4. CountedInv'
    BY <1>1, <1>2, <1>3 DEF FairInv, CountedInv
  <1> QED  BY <1>1, <1>4 DEF ScoredInv

LEMMA NextCounted ==
  ASSUME FairInv, [Next]_vars
  PROVE  CountedInv' /\ ScoredInv'
  <1>1. CASE UNCHANGED vars \/ Ask \/ Finish \/ Repeat
    BY <1>1 DEF vars, Ask, Finish, Repeat, FairInv, CountedInv, ScoredInv
  <1>2. CASE Begin
    <2>1. CASE UNCHANGED <<cur, status>>
      BY <1>2, <2>1 DEF Begin, FairInv, CountedInv, ScoredInv
    <2>2. CASE cur' = cur + 1 /\ pc' = "next" /\ status' = [status EXCEPT ![cur] = "INVALID_COMPILE"]
      <3>1. cur \in Int /\ cur \in Test /\ UNCHANGED <<test, passed>>
        BY <1>2, StageAssumption DEF Begin, FairInv, DeservedInv, IInv, TypeOK, Test
      <3>2. status'[cur] = "INVALID_COMPILE" /\ \A i \in Test : i # cur => status'[i] = status[i]
        BY <2>2, <3>1 DEF FairInv, DeservedInv, IInv, TypeOK
      <3>3. ASSUME NEW i \in 1..(cur' - 1), i # cur  PROVE i \in 1..(cur - 1) /\ i \in Test
        BY <2>2, <3>1, <3>3, StageAssumption DEF Test, FairInv, DeservedInv, IInv, TypeOK
      <3>4. CountedInv'
        BY <3>1, <3>2, <3>3 DEF FairInv, CountedInv
      <3> QED  BY <2>2, <3>4 DEF ScoredInv
    <2> QED  BY <1>2, <2>1, <2>2 DEF Begin
  <1>3. CASE CompileFixed \/ RunFixed \/ CompileBuggy \/ RunBuggy \/ ClassifyRuns \/ CompileCandidate
    <2>1. pc \in Judging
      BY <1>3 DEF CompileFixed, RunFixed, CompileBuggy, RunBuggy, ClassifyRuns, CompileCandidate, Judging
    <2>2. ASSUME NEW s, s # "VALID_BUG_REVEALING", Judge(s, "missing")
          PROVE  CountedInv' /\ ScoredInv'
      BY <2>1, <2>2, JudgeCounted
    <2>3. CASE UNCHANGED <<test, cur, status, passed>> /\ pc' # "scored"
      BY <2>3 DEF FairInv, CountedInv, ScoredInv
    <2>4. CASE CompileFixed \/ CompileBuggy
      BY <2>2, <2>3, <2>4 DEF CompileFixed, CompileBuggy
    <2>5. CASE RunFixed
      <3>1. CASE Judge("TIMEOUT", "missing") \/ Judge("INVALID_ORACLE", "missing")
        BY <3>1, <2>2
      <3> QED  BY <2>3, <2>5, <3>1 DEF RunFixed
    <2>6. CASE RunBuggy
      <3>1. CASE Judge("TIMEOUT", "missing") \/ Judge("VALID_NON_DISCRIMINATING", "missing")
        BY <3>1, <2>2
      <3> QED  BY <2>3, <2>6, <3>1 DEF RunBuggy
    <2>7. CASE ClassifyRuns
      <3> DEFINE s == Classify(seen["fixed"], seen["buggy"])
      <3>1. CASE s # "VALID_BUG_REVEALING" /\ Judge(s, "missing")
        <4> HIDE DEF s
        <4> QED  BY <2>2, <3>1
      <3> QED  BY <2>3, <2>7, <3>1 DEF ClassifyRuns
    <2>8. CASE CompileCandidate
      <3>1. CASE ~Compiles("candidate") /\ Judge("VALID_BUG_REVEALING", "missing")
        <4>1. test[cur].does["candidate"] = {}
          BY <3>1 DEF Compiles
        <4> QED  BY <2>1, <3>1, <4>1, JudgeCounted
      <3> QED  BY <2>3, <2>8, <3>1 DEF CompileCandidate
    <2> QED  BY <1>3, <2>4, <2>5, <2>6, <2>7, <2>8
  <1>4. CASE RunCandidate
    <2>1. pc \in Judging
      BY <1>4 DEF RunCandidate, Judging
    <2>2. test[cur].exported => Runs("candidate") = test[cur].does["candidate"]
      BY <1>4 DEF RunCandidate, FairInv, DeservedInv, LinkedInv, Runs
    <2>3. PICK o \in Runs("candidate") :
            Judge("VALID_BUG_REVEALING", IF o = "PASS" THEN "yes" ELSE "no")
      BY <1>4 DEF RunCandidate
    <2>4. CASE o = "PASS"
      <3>1. Judge("VALID_BUG_REVEALING", "yes")
        BY <2>3, <2>4
      <3> QED  BY <2>1, <2>2, <2>3, <2>4, <3>1, JudgeCounted
    <2>5. CASE o # "PASS"
      <3>1. Judge("VALID_BUG_REVEALING", "no")
        BY <2>3, <2>5
      <3>2. test[cur].exported =>
              test[cur].does["candidate"] # {} /\ test[cur].does["candidate"] # {"PASS"}
        BY <2>2, <2>3, <2>5
      <3> QED  BY <2>1, <3>1, <3>2, JudgeCounted
    <2> QED  BY <2>4, <2>5
  <1> QED  BY <1>1, <1>2, <1>3, <1>4 DEF Next

\* The set of outcomes of a stable test that has one is that one.
LEMMA StableIsSingle ==
  ASSUME TypeOK, NEW i \in Test, Stable(i), NEW t \in Tree, NEW o \in test[i].does[t]
  PROVE  test[i].does[t] = {o}
  <1> DEFINE D == test[i].does[t]
  <1>1. D \in SUBSET Outcome /\ Cardinality(D) <= 1
    BY StageAssumption DEF TypeOK, NatureType, Stable
  <1>2. IsFiniteSet(Outcome)
    <2>1. Outcome = {"PASS"} \cup {"FAIL"} \cup {"TIMEOUT"}
      BY DEF Outcome
    <2> QED  BY <2>1, FS_Singleton, FS_Union
  <1>3. IsFiniteSet(D) /\ IsFiniteSet(D \ {o})
    BY <1>1, <1>2, FS_Subset
  <1>4. Cardinality(D \ {o}) = Cardinality(D) - 1 /\ Cardinality(D) \in Nat /\ Cardinality(D \ {o}) \in Nat
    BY <1>3, FS_RemoveElement, FS_CardinalityType
  <1>5. D \ {o} = {}
    BY <1>1, <1>3, <1>4, FS_EmptySet
  <1> QED  BY <1>5

LEMMA FairImplies == FairInv => ScoreIsFair
  <1> SUFFICES ASSUME FairInv, pc = "scored", \A i \in 1..n : Stable(i)
               PROVE  /\ (\A i \in 1..n : test[i].does["candidate"] = test[i].does["fixed"])
                            => Passed = Valid
                      /\ (\A i \in 1..n : test[i].does["candidate"] = test[i].does["buggy"])
                            => Passed = {}
    BY DEF ScoreIsFair
  <1>1. 1..n \subseteq 1..(cur - 1) /\ 1..n \subseteq Test /\ TypeOK
    BY StageAssumption DEF FairInv, ScoredInv, DeservedInv, IInv, TypeOK, Test
  <1>2. \A i \in Valid :
          /\ test[i].does["fixed"] = {"PASS"} /\ test[i].does["buggy"] = {"FAIL"}
          /\ passed[i] = "missing" => test[i].does["candidate"] = {}
          /\ passed[i] = "yes" => "PASS" \in test[i].does["candidate"]
          /\ passed[i] = "no"  => test[i].does["candidate"] # {"PASS"}
    <2> TAKE i \in Valid
    <2>1. /\ i \in 1..n /\ i \in 1..(cur - 1) /\ i \in Test /\ status[i] = "VALID_BUG_REVEALING"
          /\ test[i].exported
      BY <1>1 DEF Valid, Stable
    <2>2. "PASS" \in test[i].does["fixed"] /\ "FAIL" \in test[i].does["buggy"]
      BY <2>1 DEF FairInv, DeservedInv, VerdictDeserved, Deserves
    <2>3. test[i].does["fixed"] = {"PASS"} /\ test[i].does["buggy"] = {"FAIL"}
      BY <1>1, <2>1, <2>2, StableIsSingle DEF Tree
    <2> QED  BY <2>1, <2>3 DEF FairInv, CountedInv
  <1>3. \A i \in Valid : i \in 1..n /\ passed[i] \in {"yes", "no", "missing"}
    BY <1>1 DEF Valid, TypeOK
  <1> QED  BY <1>2, <1>3 DEF Passed

\* The score of a patch over stable tests is right at both ends.
THEOREM StableScoresAreFair == Spec => []ScoreIsFair
  <1>1. Init => FairInv
    <2>1. Init => CountedInv /\ ScoredInv
      BY DEF Init, CountedInv, ScoredInv
    <2> QED  BY <2>1, InitDeserved DEF FairInv
  <1>2. FairInv /\ [Next]_vars => FairInv'
    BY NextDeserved, NextCounted DEF FairInv
  <1> QED  BY <1>1, <1>2, FairImplies, PTL DEF Spec

=============================================================================
