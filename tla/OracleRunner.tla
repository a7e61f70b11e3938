---------------------------- MODULE OracleRunner ----------------------------
(***************************************************************************)
(* The counterexample stage of one patch,                                  *)
(* experiment_v2/src/oracle_runner.py, with the classification and the     *)
(* score of scores.py.  A language model proposes tests; each is compiled  *)
(* and executed in copies of the fixed, the buggy and the candidate tree   *)
(* and judged by what those executions show.                               *)
(*                                                                         *)
(* What a test really does in a tree is the set of outcomes an execution   *)
(* there may have, fixed from the start and hidden from the program:       *)
(* {"PASS"} is a test that always passes, {"PASS", "FAIL"} a flaky one,    *)
(* {} one that does not compile.  Whether every export of a path that      *)
(* defects4j makes for the test succeeds is fixed and hidden as well.      *)
(***************************************************************************)
EXTENDS Integers, FiniteSets

CONSTANTS
  MaxTests,  \* bound: tests the model may propose
  Suites     \* what the proposed tests may be

Tree     == {"fixed", "buggy", "candidate"}
Outcome  == {"PASS", "FAIL", "TIMEOUT"}
Test     == 1..MaxTests
NatureType == [named : BOOLEAN, exported : BOOLEAN, does : [Tree -> SUBSET Outcome]]

Status == {"none", "INVALID_COMPILE", "INVALID_ORACLE", "TIMEOUT", "FLAKY",
           "VALID_NON_DISCRIMINATING", "VALID_BUG_REVEALING"}

ASSUME StageAssumption ==
  MaxTests \in Nat /\ Suites \subseteq [Test -> NatureType]

VARIABLES
  pc,
  test,    \* the tests the model proposes, as they really are
  n,       \* how many it proposes
  cur,     \* the one being judged
  cp,      \* per tree: the tree whose classes its executions load, or "none"
  seen,    \* fixed_runs and buggy_runs: the outcomes seen in each tree
  reps,    \* the length of buggy_runs
  status,  \* the status of each judged test
  passed   \* candidate_pass: "yes", "no" or "missing"

vars == <<pc, test, n, cur, cp, seen, reps, status, passed>>

Unlinked == [t \in Tree |-> "none"]
Unseen   == [t \in Tree |-> {}]

Init ==
  /\ pc = "ask" /\ cur = 1 /\ reps = 0
  /\ n \in 0..MaxTests /\ test \in Suites
  /\ cp = Unlinked /\ seen = Unseen
  /\ status = [i \in Test |-> "none"]
  /\ passed = [i \in Test |-> "missing"]

-----------------------------------------------------------------------------
\* run_counterexamples: no answer, or no candidate tree, is recorded as an
\* error of the result; an answer that is not the expected JSON raises.
Ask ==
  /\ pc = "ask" /\ pc' \in {"error", "unparsable", "next"}
  /\ UNCHANGED <<test, n, cur, cp, seen, reps, status, passed>>

\* The verdict on cur, and the next test.  What was seen stays, as in the log
\* of the result, until the next test begins.
Judge(s, p) ==
  /\ status' = [status EXCEPT ![cur] = s]
  /\ passed' = [passed EXCEPT ![cur] = p]
  /\ cur' = cur + 1 /\ pc' = "next"
  /\ UNCHANGED <<test, n, cp, seen, reps>>

\* May an export made for the test in hand succeed (TRUE), fail (FALSE)?
Exports == IF test[cur].exported THEN {TRUE} ELSE BOOLEAN

\* A test without a class declaration, then the export that says where its
\* source goes: without it _inject_and_compile joins a path with None.
Begin ==
  /\ pc = "next" /\ cur <= n
  /\ cp' = Unlinked /\ seen' = Unseen /\ reps' = 0
  /\ \/ /\ ~test[cur].named
        /\ status' = [status EXCEPT ![cur] = "INVALID_COMPILE"]
        /\ cur' = cur + 1 /\ UNCHANGED pc
     \/ /\ test[cur].named
        /\ \E ok \in Exports : pc' = IF ok THEN "fixed" ELSE "raised"
        /\ UNCHANGED <<cur, status>>
  /\ UNCHANGED <<test, n, passed>>

Finish ==
  /\ pc = "next" /\ cur > n /\ pc' = "scored"
  /\ UNCHANGED <<test, n, cur, cp, seen, reps, status, passed>>

Compiles(t) == test[cur].does[t] # {}

\* Mutants of Link: the exports of another copy are used again.
LinkBuggyToFixed(t) ==
  \E ok \in Exports :
    cp' = [cp EXCEPT ![t] = IF t = "buggy" THEN cp["fixed"] ELSE IF ok THEN t ELSE "none"]
LinkCandidateToBuggy(t) ==
  \E ok \in Exports :
    cp' = [cp EXCEPT ![t] = IF t = "candidate" THEN cp["buggy"] ELSE IF ok THEN t ELSE "none"]

\* Each copy's own dir.bin.tests and cp.test, exported after its compile.
Link(t) == \E ok \in Exports : cp' = [cp EXCEPT ![t] = IF ok THEN t ELSE "none"]

\* _prepare_run_dir and _inject_and_compile.
CompileFixed ==
  /\ pc = "fixed"
  /\ \/ ~Compiles("fixed") /\ Judge("INVALID_COMPILE", "missing")
     \/ /\ Compiles("fixed") /\ Link("fixed") /\ pc' = "runFixed"
        /\ UNCHANGED <<test, n, cur, seen, reps, status, passed>>

CompileBuggy ==
  /\ pc = "buggy"
  /\ \/ ~Compiles("buggy") /\ Judge("INVALID_ORACLE", "missing")
     \/ /\ Compiles("buggy") /\ Link("buggy") /\ pc' = "runBuggy"
        /\ UNCHANGED <<test, n, cur, seen, reps, status, passed>>

\* _run_class: the outcomes an execution in t may have.  The JVM fails when it
\* is not given a class path.
Runs(t) == IF cp[t] = "none" THEN {"FAIL"} ELSE test[cur].does[cp[t]]

RunFixed ==
  /\ pc = "runFixed"
  /\ \E o \in Runs("fixed") :
       \/ o = "TIMEOUT" /\ Judge("TIMEOUT", "missing")
       \/ o = "FAIL" /\ Judge("INVALID_ORACLE", "missing")
       \/ /\ o = "PASS" /\ seen' = [seen EXCEPT !["fixed"] = {o}] /\ pc' = "buggy"
          /\ UNCHANGED <<test, n, cur, cp, reps, status, passed>>

RunBuggy ==
  /\ pc = "runBuggy"
  /\ \E o \in Runs("buggy") :
       \/ o = "TIMEOUT" /\ Judge("TIMEOUT", "missing")
       \/ o = "PASS" /\ Judge("VALID_NON_DISCRIMINATING", "missing")
       \/ /\ o = "FAIL" /\ seen' = [seen EXCEPT !["buggy"] = {o}]
          /\ reps' = 1 /\ pc' = "repeat"
          /\ UNCHANGED <<test, n, cur, cp, status, passed>>

\* Two more executions in each tree.
Repeat ==
  /\ pc = "repeat" /\ reps < 3
  /\ \E f \in Runs("fixed"), b \in Runs("buggy") :
       seen' = [seen EXCEPT !["fixed"] = @ \cup {f}, !["buggy"] = @ \cup {b}]
  /\ reps' = reps + 1
  /\ UNCHANGED <<pc, test, n, cur, cp, status, passed>>

-----------------------------------------------------------------------------
\* counterexample_status of the outcomes of the three executions in each tree.
Classify(fixed, buggy) ==
  IF "TIMEOUT" \in fixed \cup buggy THEN "TIMEOUT"
  ELSE IF Cardinality(fixed) > 1 \/ Cardinality(buggy) > 1 THEN "FLAKY"
  ELSE IF fixed # {"PASS"} THEN "INVALID_ORACLE"
  ELSE IF buggy = {"FAIL"} THEN "VALID_BUG_REVEALING"
  ELSE "VALID_NON_DISCRIMINATING"

ClassifyRuns ==
  /\ pc = "repeat" /\ reps = 3
  /\ LET s == Classify(seen["fixed"], seen["buggy"]) IN
       \/ s # "VALID_BUG_REVEALING" /\ Judge(s, "missing")
       \/ /\ s = "VALID_BUG_REVEALING" /\ pc' = "candidate"
          /\ UNCHANGED <<test, n, cur, cp, seen, reps, status, passed>>

CompileCandidate ==
  /\ pc = "candidate"
  /\ \/ ~Compiles("candidate") /\ Judge("VALID_BUG_REVEALING", "missing")
     \/ /\ Compiles("candidate") /\ Link("candidate") /\ pc' = "runCandidate"
        /\ UNCHANGED <<test, n, cur, seen, reps, status, passed>>

\* Mutant of RunCandidate: only a failure counts as not passed.
RunCandidateTimeoutPasses ==
  /\ pc = "runCandidate"
  /\ \E o \in Runs("candidate") :
       Judge("VALID_BUG_REVEALING", IF o = "FAIL" THEN "no" ELSE "yes")

\* One execution in the candidate; a timeout is not a pass.
RunCandidate ==
  /\ pc = "runCandidate"
  /\ \E o \in Runs("candidate") :
       Judge("VALID_BUG_REVEALING", IF o = "PASS" THEN "yes" ELSE "no")

Next ==
  \/ Ask \/ Begin \/ Finish
  \/ CompileFixed \/ RunFixed \/ CompileBuggy \/ RunBuggy \/ Repeat
  \/ ClassifyRuns \/ CompileCandidate \/ RunCandidate

Spec == Init /\ [][Next]_vars

-----------------------------------------------------------------------------
\* s_cex: the tests that count, and those the candidate passes.
Valid  == {i \in 1..n : status[i] = "VALID_BUG_REVEALING"}
Passed == {i \in Valid : passed[i] = "yes"}

\* Every variable stays in its type.
TypeOK ==
  /\ pc \in {"ask", "next", "fixed", "runFixed", "buggy", "runBuggy", "repeat", "candidate",
             "runCandidate", "scored", "error", "unparsable", "raised"}
  /\ test \in Suites /\ n \in 0..MaxTests /\ cur \in 1..(MaxTests + 1)
  /\ cp \in [Tree -> Tree \cup {"none"}]
  /\ seen \in [Tree -> SUBSET Outcome] /\ reps \in 0..3
  /\ status \in [Test -> Status]
  /\ passed \in [Test -> {"yes", "no", "missing"}]

\* The statuses the validation sequence (protocol.yaml, and the docstring of
\* oracle_runner.py, lines 3-7) gives a test, from what the test really does
\* and not from how the program runs it.
Deserves(t, s) ==
  LET f == t.does["fixed"]
      b == t.does["buggy"]
  IN CASE s = "INVALID_COMPILE" -> ~t.named \/ f = {}
       [] s = "INVALID_ORACLE"  -> t.named /\ ("FAIL" \in f \/ ("PASS" \in f /\ b = {}))
       [] s = "TIMEOUT"         -> t.named /\ ("TIMEOUT" \in f \/ ("PASS" \in f /\ "TIMEOUT" \in b))
       [] s = "VALID_NON_DISCRIMINATING" -> t.named /\ "PASS" \in f \cap b
       [] s = "VALID_BUG_REVEALING"      -> t.named /\ "PASS" \in f /\ "FAIL" \in b
       [] s = "FLAKY" -> t.named /\ "PASS" \in f /\ "FAIL" \in b /\ (f # {"PASS"} \/ b # {"FAIL"})
       [] OTHER -> FALSE

\* No test whose exports succeed gets a status it does not deserve, for any
\* mixture of flaky, slow and uncompilable tests, and whatever happened to the
\* tests before it; in particular a stable test gets the one verdict that its
\* behaviour in the two oracle trees calls for.
VerdictDeserved ==
  \A i \in 1..(cur - 1) : test[i].exported => Deserves(test[i], status[i])

\* A test counts only if it can pass in the fixed tree, and counts as passed
\* only if it can pass in the candidate: executions that did not take place
\* (a failed export, a candidate that does not compile) never help a patch.
PassesAreReal ==
  /\ \A i \in Valid : "PASS" \in test[i].does["fixed"]
  /\ \A i \in Passed : "PASS" \in test[i].does["candidate"]

Stable(i) == test[i].exported /\ \A t \in Tree : Cardinality(test[i].does[t]) <= 1

\* Over stable tests S_cex is fair to the two patches it must tell apart: one
\* that behaves like the developer's fix passes every test that counts, one
\* that changes nothing passes none.
ScoreIsFair ==
  pc = "scored" /\ (\A i \in 1..n : Stable(i)) =>
    /\ (\A i \in 1..n : test[i].does["candidate"] = test[i].does["fixed"]) => Passed = Valid
    /\ (\A i \in 1..n : test[i].does["candidate"] = test[i].does["buggy"]) => Passed = {}
=============================================================================
