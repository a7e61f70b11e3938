----------------------------- MODULE PromptGuard -----------------------------
(***************************************************************************)
(* One request to a model, from the fingerprint of the developer's fix to  *)
(* the call: compute_fingerprint (d4j.py), the requests of semantic.py,    *)
(* oracle_runner.py and memorization.py, context.extract, the builders of  *)
(* request_builders.py around ContextBudget's loop, and leakage_guard.     *)
(*                                                                         *)
(* A request is the set of its dynamic parts: the candidate diff, the      *)
(* failing tests with their messages, and the context items.  One secret   *)
(* is followed, which some of the parts carry.                             *)
(***************************************************************************)
EXTENDS ContextBudget

CONSTANTS
  File,         \* the source files the candidate diff touches
  MaxCarriers   \* bound: how many parts carry the secret

ASSUME FileAssumption == Item \cap {"diff", "messages"} = {}

VARIABLES
  purpose,   \* "A", "B", "C" (conditions of the judgement), "cex", "probe"
  kind,      \* of the secret: "metadata", "tool" (the APR tool's name), "line", or
             \* "trivial": a line that is short, an import, a package, a comment
             \* or all punctuation (_nontrivial)
  carriers,  \* the parts in whose text it occurs, a line as a line of its own
  tree,      \* where the path of the buggy checkout leads: "buggy" or "fixed"
  inBuggy, inFixed,  \* the touched files in which the line occurs
  stage,
  hashed, whole,     \* the stored fingerprint has the line; has every file
  given,     \* context.extract returned items
  parts,     \* the dynamic text of the request
  logged     \* a LEAKAGE_ABORT in errors.jsonl

world     == <<purpose, kind, carriers, tree, inBuggy, inFixed>>
guardVars == <<vars, world, stage, hashed, whole, given, parts, logged>>

Line == {"line", "trivial"}
WithContext == {"C", "cex"}
Part == {"diff", "messages"} \cup Item

\* is_inside_fixed_oracle, of the resolved path of a checkout.
InFixedOracle == tree = "fixed"

\* Items are cut out of the touched files of the tree the path leads to.
LineIsInTree ==
  kind \in Line /\ carriers \cap Item # {} =>
    (IF tree = "buggy" THEN inBuggy ELSE inFixed) # {}

GuardInit ==
  /\ Init
  /\ purpose \in {"A", "B", "C", "cex", "probe"} /\ kind \in {"metadata", "tool"} \cup Line
  /\ carriers \in {c \in SUBSET Part : Cardinality(c) <= MaxCarriers}
  /\ tree \in {"buggy", "fixed"}
  /\ inBuggy \in SUBSET File /\ inFixed \in SUBSET File
  /\ kind \notin Line => inBuggy = {} /\ inFixed = {}
  /\ LineIsInTree
  /\ stage = "fingerprint" /\ hashed = FALSE /\ whole = FALSE
  /\ given = FALSE /\ parts = {} /\ logged = FALSE

\* Mutant of Hashed: the files' sets are intersected (&= for |=).
HashedInAll(readable) ==
  /\ kind = "line" /\ "diff" \notin carriers
  /\ readable # {} /\ readable \subseteq inFixed \ inBuggy

\* developer_fix_fingerprint, united over the files: the lines of the fixed file
\* that are not trivial and neither in the buggy one nor in the diff.
Hashed(readable) ==
  /\ kind = "line" /\ "diff" \notin carriers
  /\ readable \cap (inFixed \ inBuggy) # {}

\* Nothing is written when the export of dir.src.classes fails, or the stage;
\* files with a source missing on either side are noted and left out.
Fingerprint ==
  /\ stage = "fingerprint" /\ stage' = "request"
  /\ \/ UNCHANGED <<hashed, whole>>
     \/ \E readable \in SUBSET File :
          hashed' = Hashed(readable) /\ whole' = (readable = File)
  /\ UNCHANGED <<vars, world, given, parts, logged>>

\* Mutant of Extract: the assertion is left to _check_paths.
ExtractUnchecked ==
  /\ stage = "request" /\ purpose \in WithContext
  /\ \E g \in BOOLEAN : given' = g
  /\ stage' = "build"
  /\ UNCHANGED <<vars, world, hashed, whole, parts, logged>>

\* context.extract: a path into fixed_oracle raises; no source file, no output
\* of the extractor or no enclosing method gives no items, and errors.
Extract ==
  /\ stage = "request" /\ purpose \in WithContext
  /\ \E g \in BOOLEAN : given' = (g /\ ~InFixedOracle)
  /\ stage' = IF InFixedOracle THEN "raised" ELSE "build"
  /\ UNCHANGED <<vars, world, hashed, whole, parts, logged>>

\* The other requests take no items.
NoContext ==
  /\ stage = "request" /\ purpose \notin WithContext
  /\ stage' = "build"
  /\ UNCHANGED <<vars, world, hashed, whole, given, parts, logged>>

\* build_cex_request needs a trigger test.
NoTriggerTest ==
  /\ stage = "request" /\ purpose = "cex"
  /\ stage' = "raised"
  /\ UNCHANGED <<vars, world, hashed, whole, given, parts, logged>>

\* _check_paths sees the items that carry a path, the changed methods; without
\* items fit_to_budget has nothing to do.
CheckPaths ==
  /\ stage = "build"
  /\ stage' = IF ~given THEN "guard"
              ELSE IF InFixedOracle /\ \E i \in Item : priority[i] = 1 THEN "raised"
              ELSE "budget"
  /\ UNCHANGED <<vars, world, hashed, whole, given, parts, logged>>

FitToBudget ==
  /\ stage = "budget" /\ Next
  /\ stage' = IF pc' = "done" THEN "guard" ELSE "budget"
  /\ UNCHANGED <<world, hashed, whole, given, parts, logged>>

\* The fields of the prompt, by condition.
Fields(p) ==
  {"diff"} \cup (IF p \in {"B", "C", "cex"} THEN {"messages"} ELSE {})
           \cup (IF given THEN kept ELSE {})

\* Mutant of FindLeaks: a tool's name is looked for in the diff alone.
FindLeaksShort(text) ==
  /\ carriers \cap text # {}
  /\ \/ kind = "metadata"
     \/ kind = "tool" /\ text = {"diff"} /\ "diff" \notin carriers
     \/ kind = "line" /\ hashed

\* Labels, archive names, the patch's own data and the oracle's path anywhere;
\* a tool's name unless the candidate diff has it; a line by its hash.
FindLeaks(text) ==
  /\ carriers \cap text # {}
  /\ \/ kind = "metadata"
     \/ kind = "tool" /\ "diff" \notin carriers
     \/ kind = "line" /\ hashed

\* check_request, on the fields of the builder: a hit is logged and raised.
CheckRequest ==
  /\ stage = "guard" /\ parts' = Fields(purpose)
  /\ logged' = FindLeaks(Fields(purpose))
  /\ stage' = IF FindLeaks(Fields(purpose)) THEN "refused" ELSE "ready"
  /\ UNCHANGED <<vars, world, hashed, whole, given>>

\* llm_client.send of the guarded request, whose receipt matches.
Send ==
  /\ stage = "ready" /\ stage' = "sent"
  /\ UNCHANGED <<vars, world, hashed, whole, given, parts, logged>>

GuardNext ==
  \/ Fingerprint \/ Extract \/ NoContext \/ NoTriggerTest
  \/ CheckPaths \/ FitToBudget \/ CheckRequest \/ Send

GuardSpec == GuardInit /\ [][GuardNext]_guardVars

-----------------------------------------------------------------------------
\* The request has, or lacks, one of the names that are rejected on sight.
NamesIn(text) ==
  \/ kind = "metadata" /\ carriers \cap text # {}
  \/ kind = "tool" /\ "diff" \notin carriers /\ carriers \cap text # {}

\* What the guard holds against a request is in the request: label metadata and
\* tool names never leave, and never stop a request whose budget dropped them; a
\* trivial line stops none; every refusal is in the log (leakage_guard.py:16,
\* rejected on any hit).
JudgedByItsText ==
  /\ stage = "sent" => ~NamesIn(parts)
  /\ stage = "refused" => logged /\ carriers \cap parts # {}
                          /\ (kind # "line" => NamesIn(parts))

\* With a fingerprint of every touched file, a line of the developer's fix that is
\* not trivial, in no buggy file and not in the diff is never sent as a line of
\* its own, whichever file it is from and whichever part carries it
\* (leakage_guard.py:14).  Trivial lines are sent: the guard does not know them.
FixLineNeverSent ==
  stage = "sent" /\ whole /\ kind = "line"
  /\ inFixed # {} /\ inBuggy = {} /\ "diff" \notin carriers
    => carriers \cap parts = {}

\* No context cut out of the fixed tree is sent, not even items that carry no
\* path to be checked by the builders (request_builders.py:2).
OracleNeverSent ==
  stage = "sent" /\ parts \cap Item # {} => tree = "buggy"
=============================================================================
