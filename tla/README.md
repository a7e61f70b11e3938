# Verification of the APSEC 2026 patch-assessment pipeline

This directory models the program under `src/experiment_v2/src` (and its predecessor
`src/experiment/src`): a batch pipeline that judges 899 candidate patches of 202 Defects4J bugs with
LLM calls, generated tests executed against oracles, and static features. The models are TLA+
modules, checked by TLC on small instances; the theorems are checked by TLAPS for every value of the
constants. Paths below are relative to `src/experiment_v2/src` unless they say otherwise.

## 1. The system

### 1.1 Components, their state and their operations

| component | state it keeps | operations | talks to |
|---|---|---|---|
| full-run orchestrator, `run_full.py` | one checkpoint file per patch, the abort event, the progress counters, one job per bug in a thread pool | `run`, `process_bug_group`, `ensure_bug_checked_out`, `run_one_patch`, `is_done`, `_atomic_write_json` | calls every stage below; shares the status CSVs with them |
| Defects4J driver, `d4j.py` | workspaces (buggy, fixed, candidate trees), `d4j_status.csv`, `patch_d4j_status.csv`, fingerprints | `checkout`, `process_bug`, `apply_candidate`, `compute_fingerprint`, `_write_status_csv` | subprocesses with timeouts |
| counterexample stage, `oracle_runner.py` with `scores.py` | scratch trees per generated test, list of results | `run_counterexamples`, `validate_one_test` | LLM client, `d4j.py` |
| semantic judge and its rerun, `semantic.py`, `rerun_failed_semantic.py` | one detail file per patch, the summary table | `run_semantic`, `_write_result`, `process_file` | LLM client, guard, context |
| LLM client, `llm_client.py` | attempt counter of a call | `send` with retries and back-off | the API (outside the repository) |
| context and budget: `context.py`, `context_budget.py` | none | extraction of context items, `fit_to_budget` | request builders |
| leakage guard, request builders, workspaces: `leakage_guard.py`, `request_builders.py`, `workspaces.py` | fingerprints, allowed modules | `check_request`, prompt assembly, `fixed_oracle_dir`, `read_for_prompt` | every prompt passes the guard |
| memorization probe, `memorization.py` | one row per patch | `run_probe` | LLM client |
| stage 2B, `stage2b.py`, `gumtree_edit.py`, `vuln.py`, `edit.py` | one row per patch | edit distances and warning deltas | Java tools |
| scores and PVS, `scores.py`, `pvs.py` | none | arithmetic | everyone |
| consolidation, `consolidate_full.py` | corpus CSVs | one single-threaded pass | checkpoints |
| pilot orchestrator and score table: `run_pilot.py`, `assemble_pvs.py`, `update_scores_from_stage2b.py`, `rescore_pvs_from_semantic.py` | `pilot_log.json`, `patch_scores.csv`, both rewritten in place | started by hand, in an order the reports prescribe | each other's files |
| pilot side programs: `rerun_memorization_na.py`, `context_ablation.py`, `log_cex_tokens_pilot.py`, ... | CSVs of their own | run once each | LLM client |
| evaluation: `evaluate_full.py`, `evaluate_pilot.py`, `metrics.py`, `bradley_terry.py` | none | statistics | consolidated CSVs |
| dataset: `dataset.py`, `diff_features_v1.py` | manifest | normalization, inclusion policy | source archives |
| preference tool: `preference_tool/*.py` | ratings CSV | sampling plan, collection | a human rater |
| first experiment, `src/experiment/src` | a JSONL log of answers | parsing, LLM review and memorization probe, each a thread pool with a resume cache | the API |

### 1.2 How they interact, and where it is hard

* **Threads.** `run_full.py` runs one job per bug in a pool. Jobs share two CSV files, each rewritten
  whole (`_write_status_csv` reads all rows and replaces the file), the `BILLING_ABORT` event and the
  progress counters. `llm_review.py` runs one job per question in a pool and appends to one log.
* **Restarts.** Every program that calls the API is meant to be killed and started again. What it
  skips is decided from files: the checkpoints (`_checkpoint_is_done`), the pilot's log, the
  semantic detail files, the JSONL log. Each kind of file is written differently: atomically
  (`_atomic_write_json`), truncated and rewritten, or appended.
* **Programs sharing files over time.** Five programs rewrite `patch_scores.csv` or the files it is
  made from. Nothing but the operator's discipline orders them.
* **Failures.** A billing error stops everything and must leave no trace that looks like a result;
  other API errors are retried, given up, and re-issued by another program; a checkout, export,
  compile or execution may fail or time out; a write may raise while a lock is held.
* **Nondeterminism.** Generated tests may be flaky or slow; the verdict must still be one that the
  test deserves.

### 1.3 What makes each component correct

| component | it is correct when | where that is stated |
|---|---|---|
| full run | a settled checkpoint is never replaced, none is written that a billing error touched; no status row is lost to another job; patches run only in complete, recorded trees; every selected patch is covered and counted once; every pass ends | `RunFull` |
| counterexample stage | a test gets only a status its behaviour calls for; executions that did not happen help no patch; the score is right for the two patches it must tell apart | `OracleRunner` |
| semantic runs | a rerun re-issues what failed and nothing else; table and detail files agree; calls come to an end | `SemanticRuns` |
| pilot table | a PVS belongs to the values of its row, whoever wrote them; a rescore is not undone; patches once done stay done and those not done are run | `PilotScores` |
| context budget | only what must be dropped is, in the order of the priorities, and the result is over the budget only when what is mandatory is | `ContextBudget` |
| review log | no settled job is paid for again; no two workers write at once, and a pass without a failed write keeps the lines of the log whole; every pass ends | `LlmReview` |
| guard, request builders, workspaces | no label, tool name or non-trivial line of the developer's fix leaves, in whatever part of a request; the text that is judged is the text that is sent; no context comes from the fixed tree | `PromptGuard` |
| stage 2B | a missing or partial analysis never passes for a complete one: warnings of every changed file, deltas over the same methods, an S_edit of all files or an error | `StaticAnalysis` |
| dataset | normalization keeps what a diff does; duplicates have one label under both policies | `Dataset`, checked through `Evaluation` |
| consolidation | every checkpoint ends in one place; a PVS\* belongs to the judgement beside it | `Evaluation` |
| evaluation | no fold is fitted on what it predicts; the closed forms of the ranking are the expectations they stand for | `Evaluation`, `Ranking` |

## 2. Plan

The order is that of the harm a defect does: first what loses or fakes results over threads and
restarts, then what fakes a verdict, then what spoils tables by order of use, then pure algorithms.

| step | module | state |
|---|---|---|
| 1 | `CheckpointLedger` (abstract), `RunFull`, `MCRunFull`, `RunFullProofs` | done |
| 2 | `OracleRunner`, `MCOracleRunner`, `OracleRunnerProofs` | done |
| 3 | `AnswerCache` (abstract), `LlmReview`, `LlmReviewProofs` | done |
| 4 | `SemanticRuns`, `SemanticRunsProofs` | done |
| 5 | `PilotScores`, `MCPilotScores`, `PilotScoresProofs` | done |
| 6 | `ContextBudget` (abstract for the requests), `PromptGuard`, `MCPromptGuard`, `PromptGuardProofs` | done |
| 7 | `StaticAnalysis`, `MCStaticAnalysis`, `StaticAnalysisProofs` | done |
| 8 | `Dataset`, `Evaluation`, `Ranking`, `MCEvaluation`, `EvaluationProofs` | done |
| 9 | the memorization table beside the semantic one in `SemanticRuns`; the rating file of the preference tool | left |
| 10 | a consolidation that is started while a pass of `RunFull` runs, over `RunFull`'s own checkpoints instead of the set `Checkpoints` | left |
| 11 | proofs: `RunFull`'s `TreesAreWhole`, `CleanExitCovers`, `CheckpointHasRow`, `ProgressAddsUp`; `LlmReview`'s refinement of `AnswerCache` | done |
| 12 | proofs: sums over sets of items (`EstimateHolds`, `SendsWithinBudget`); warnings of all files (`SeesEveryFile`); the two safety halves of the three liveness properties, that work runs out and that nobody is stuck | done |

Abstract specifications: `CheckpointLedger` says what readers of the checkpoint directory may rely on,
`AnswerCache` what a paying user may rely on; `RunFull` and `LlmReview` implement them. `ContextBudget`
is the loop of `fit_to_budget` by itself, with everything around it arbitrary; `PromptGuard` runs that
loop inside a request and implements it (`RequestFitsBudget`).

## 3. The modules and the code

### 3.1 `RunFull` (with `CheckpointLedger`)

Files survive a kill: `ckpt` (checkpoint files), `row` and `prow` (the two status CSVs), `buggy` and
`fixed` (trees, which a checkout leaves `"partial"` until it ends). Each bug's job has a program
counter `pc` and local variables (`todo`, `cur`, `log`, the CSV as read). An action is what the code
does between two points where another thread or a kill can show: `ReadRows` and `ReplaceRows` are
apart because the CSV is read and replaced under `STATUS_LOCK`; the stages of a patch are one action
each, since they touch only the job's own log; `WriteCheckpoint` is one action because
`_atomic_write_json` replaces the file. `IsDone` re-derives completion from the arms, as
`_checkpoint_is_done` does. `Kill` may happen anywhere; `RaiseInStage` and `RaiseInJob` are exceptions
the pipeline swallows or that end a job.

`CheckpointLedger` is the abstract view: one result per patch, replaced only while pending, in one
step, by an honest result. `Class` is the refinement mapping.

### 3.2 `OracleRunner`

What a proposed test does in each of the three trees is a set of possible outcomes, fixed at the
start and hidden from the program; so is whether the exports made for it succeed. Each execution
picks an outcome of that set. `cp[t]` is the tree whose classes an execution in `t` loads: the code
exports each copy's class path anew, and a failed export leaves the string `None` on the command
line, with which the JVM fails. `Deserves` states the validation sequence from what the test does,
never from how the program runs it, and the properties compare the two.

### 3.3 `LlmReview` (with `AnswerCache`)

The main thread reads the log and queues what is not settled; a worker takes a job, makes up to
`MaxAttempts` attempts, waits for the lock and appends a line, which may fail. `Settling` is
`{"parsed"}` for `llm_review.py` and `{"parsed", "unparsed"}` for `memorization_probe.py`.

An append that is killed or fails leaves nothing, part of its line (`"cut"`) or all of it but the newline
(`"bare"`). After a failed write the lock is released and the other workers go on, so that what they append is
glued to that line (`"glued"`); two writers at once would leave `"mixed"` lines. `flaw` is the worst of these that
the log has, and `log` counts the entries whose text is whole on disk, glued or not. A start reads the log
only if every line is JSON (`Readable`): no flaw, or a last line without its newline. `found` is the flaw the pass
began with: a pass behind a bare line glues its first entry to it, though nothing fails in it. A
kill may come after the whole entry is on disk, so `AnswerCache` too may have an answer on record as it dies.

### 3.4 `SemanticRuns`

`Evaluate` is `semantic.py` for one patch, `Rerun` is `rerun_failed_semantic.py`; both issue calls
through `Send`, one attempt per step, and then rewrite the table and the detail file in the four
steps `BeginTable`, `EndTable`, `BeginDetail`, `EndDetail`, between which a kill leaves them apart.
A row is the class of what came back; `ErrorClass` is the program's own classification of its text.

### 3.5 `PilotScores`

A table row holds where its values come from, not their amounts: `S_sem` as a judgement, `S_edit` as
the LOC or the AST distance, and the set of values PVS was computed from. `RunPatch`, `Semantic`,
`Assemble`, `WriteRow`, `WriteLog` are a pass of `run_pilot.py` (the same `Assemble` and `WriteRow`
serve `assemble_pvs.py` started alone), `Update` folds stage 2B in, `Rescore` brings changed judgements
in; `Stage2b` and `Rejudge` change the inputs. Rewriting a table truncates it first (`EndWrite`
completes it). The ghost fields `folds` and `settled` exist for the properties.

### 3.6 `ContextBudget` and `PromptGuard`

`ContextBudget` has one action per round of the loop of `fit_to_budget`. The items, their priorities and
estimates, the budget and the overhead are arbitrary. Items the sort leaves equal may be visited in any
order.

`PromptGuard` is one request, of one of the five purposes (the three conditions of the judgement, the
generated tests, the memorization probe), from `compute_fingerprint` to `send`. What a request says is the
set of its dynamic parts: the candidate diff, the failing tests with their messages, the context items.
One secret is followed: label metadata, the name of an APR tool, or a line of the developer's fix, which
`_nontrivial` keeps (`"line"`) or drops (`"trivial"`: under 12 characters, an import, a package, a comment, or
without a letter or digit). The `carriers` are the parts in whose text it occurs, a line as a line of its own:
the guard hashes whole lines and knows nothing of one inside a longer line. `Hashed` says whether the stored
fingerprint has the line: never a trivial one, and another by the touched files it occurs in on both sides and
by those whose sources could be read.
`Extract` and `CheckPaths` are the two places that look at paths; the second sees only items that carry
one, which are the changed methods (priority 1). `FitToBudget` is a step of `ContextBudget`, and
`CheckRequest` judges the fields that are left. `send` checks a receipt over the same text, so `Send` has
no failure of its own here; its retries are in `SemanticRuns`.

### 3.7 `StaticAnalysis`

One patch in stage 2B. `changed`, `compiled` and `real` say what there is to find: the files the diff
changes, which of them have class files in each tree, and the warnings a run that works would give.
`GumTree` compares one file or fails on it; `SpotBugs` of one tree answers, fails with an error, or crashes
with an empty answer, which `run_spotbugs_targets` does not tell apart from no warnings; `Cfg` gives a level
for each changed method (one stands for all those of a file), and what fails adds nothing. `EndGumTree`, `Vuln`
and `Assemble` fill the row as `run_one` does. Severities are in quarters of the greatest weight.

### 3.8 `Dataset`, `Evaluation` and `Ranking`

`Dataset` is `dataset.py build` as one action, `Build`: normalization of every diff, its verification, the
labels under both policies, the groups of duplicates, the conflicts that stop it, the manifest. A diff is one
hunk, with its first line and its rows, changed in one place; the text of a row is without its trailing
whitespace, and `trailing` says that there was some. `Unified` is what `difflib.unified_diff` gives for such
texts.

`Evaluation` adds `consolidate_full.py` (`Consolidate`, `WriteScores`, `WriteRuns`, one table after the other,
with a `Kill` between them; `read` is the set of checkpoints found, which may grow and change from one
consolidation to the next) and `evaluate_full.py`. An evaluation writes nothing the others read, so it is
no action but a set of operators over the tables of the moment: `Frame` and the three reasons for which a row
is excluded, `PvsOf`, the splits. A property of the evaluation is an invariant over these: it holds whenever
an evaluation might be started. `basis` is a ghost: the manifest of today is the one the last consolidation
read. PVS\* is in twelfths, in which the mean of any number of components is an integer.

`Ranking` has the closed forms of P@1, Top-n and the reciprocal rank under ties as `metrics.py` computes
them, as fractions, and the orders they are expectations over. A block of ties is a record of its size, how many
candidates are above it (what `filled` and `start` have added up to when the loop gets there) and how many in it
are correct; `math.comb` is the number of choices it stands for; a reciprocal rank is given by the weight of each
of its terms 1/r.

## 4. What is checked

| run | instance | shows |
|---|---|---|
| `runfull_crash` | two bugs with three patches, two workers, two passes, killed anywhere, one write that may raise anywhere; fresh files and those of the first run | the checkpoints implement `CheckpointLedger`; rows change by their owner only; jobs run only with recorded and complete trees; every pass ends |
| `runfull_stages` | one bug, two patches, every outcome of every stage, every selection, both values of `--retry-errors`, one escaped exception, two passes | an abort leaves something pending; a clean end covers every selected patch with an honest checkpoint and counts each once; a checkpoint past apply has its row |
| `runfull_cloned` | status CSV present, trees absent | **violation**: a patch runs in a partial tree |
| `oracle_verdict` | any test followed by a revealing one; any two stable tests; exports that may fail | verdicts are deserved, executions that did not happen help nobody, the score is fair |
| `review_pool` | two jobs, two workers, three starts, two attempts, killed anywhere | the log is an `AnswerCache`; no settled job asked again; lines are glued only behind a failed or killed write; clean ends cover, every pass ends |
| `review_torn` | the same, two starts | **violation**: a line cut short, and what is glued to it, stops every later start |
| `semantic_rerun` | two patches of two runs, three programs, two attempts, killed anywhere | a rerun reuses and covers; table and detail agree unless a kill hit the writing; programs end |
| `pilot_table` | two patches, four programs of any kind, killed anywhere | PVS is of its row; a rescore settles; a row folded once is right; a pass covers; the log keeps what is done |
| `prompt_request` | three items of three priorities and two lengths, budgets up to four, two touched files, a secret of any kind in up to two parts, every purpose | what is dropped and in which order; a refusal is due to the text sent; no non-trivial fix line, no context of the fixed tree leaves |
| `static_stage2b` | two files with one kind of warning each, each tool answering, failing or crashing | warnings of all changed files count; deltas compare the same methods; a partial S_edit is told |
| `static_crash` | the same | **violation**: a crashed SpotBugs gives S_vuln 0 |
| `evaluation_corpus` | three patches of a bug and one of another, two of them duplicates after normalization only; two builds under five pairs of policies, consolidations of seventeen sets of checkpoints | duplicates share a label; every checkpoint is accounted for; PVS\* is of its judgement; no fold is fitted on what it predicts; the ranking is the expectation |

### 4.1 Bounds and why they are enough

* Two passes or three starts: a state that a restart can meet is produced by the first and met by the
  second; the third shows a restart after a restart. The theorems hold for any number.
* Two bugs, two workers: conflicts over the CSVs and the abort are between two jobs. Two patches of one
  bug show one stage failing after another succeeded.
* `MaxRaises = 1`: the exception model is a single escaped exception per behaviour.
* Two attempts instead of six, and two runs instead of three, of a call: the first, and the last.
* Two tests: the second shows what the first left behind. Three repetitions as in the code.
* Four programs over the pilot table: assemble, change an input, fold or rescore, and one more on top.
* `Priority = {1, 3, 7}`, `Tokens = {1, 2}`, `Budget = 1..4` in `prompt_request`: mandatory items with a path,
  and two levels that may be dropped; with three items the sum is 3 to 6, so that budgets lie below, at and
  above it. `MaxCarriers = 2`: a secret that the budget drops from one part and leaves in another.
* Two files in `static_*`: one that a tool processes and one that it does not. `Severity = {2}`, `Measure` of
  three: nothing done, half and more than all, the last of which is capped.
* `MaxBuilds = 2`: a manifest that changes after a consolidation. `Context = 1`, `Unit = 2` and `NSplits = 2` are
  the least numbers that keep a context apart from the hunk, equal scores apart from different ones, and
  two folds. `Checkpoints` has every combination of three judgements for two patches (ties of both kinds), a
  run that has got to the first patch, and unreadable checkpoints and missing judgements. `Policies` and `Originals`
  include one pair each for which `build` stops.

### 4.2 Fairness

* `RunFull!FairSpec` (`PassEnds` in `runfull_crash`): weak fairness of each bug's `JobStep` and of the pool's `Exit`. The jobs are
  threads of a `ThreadPoolExecutor`, the operating system runs every thread, and the stages have
  timeouts, but for the two calls of `patch` in `apply_candidate` (`d4j.py:249`, 255), which are taken to end. A worker is free again when its job ends, so weak fairness of a queued job's `Begin` is
  justified by the executor's queue only for a pass whose jobs are finitely many, which they are. The
  lock may be kept from one waiting job by others, but each job takes it finitely often.
* `LlmReview!FairSpec`: weak fairness of each worker and of the end of the main thread, likewise.
* `SemanticRuns!FairSpec`: weak fairness of the steps of the one running program.
* Nobody is made to start or to kill a program, and no call is assumed to succeed.
* `OracleRunner`, `PilotScores`, `PromptGuard` and `StaticAnalysis` claim no liveness: they are loops over finite
  lists. `Evaluation` is commands given by hand.

`CHECK_DEADLOCK FALSE` is set where the system may stop: all programs ended, no starts left.

### 4.3 Where code and text disagree

Three runs show it, each quoted in `PROJECT.json`: a partial tree taken for an existing checkout
(`run_full.py:161`), a log that cannot be resumed after a kill inside a line
(`src/experiment/src/llm_review.py:194`), an analyzer crash that becomes a score of 0 (`vuln.py:86`).

The models behave as the code does in these further cases, on which no run is spent:
* a checkout that fails once makes the bug's pending patches done for good (`run_full.py:102`, where
  the comment above speaks of patches that failed to apply);
* a repetition that times out makes a test TIMEOUT, where the docstring of `oracle_runner.py` (line 6)
  calls an unstable test FLAKY (`scores.py:55`);
* after a failed export of the buggy copy a test counts as bug revealing although it never ran there
  (`oracle_runner.py:140`), and a failed export of the first copy raises out of the stage (line 87), where
  line 94 says that it never raises;
* a run that gave up on server errors is class `other`, which the rerun passes over
  (`rerun_failed_semantic.py:38`);
* a row assembled once stage 2B has been folded in empties the table of all other rows, which the
  pilot's log goes on listing as done (`assemble_pvs.py:94`); a log that is cut short by a kill stops every
  later pass (`run_pilot.py:127`);
* folding stage 2B in twice overwrites the LOC value that the docstring of `update_scores_from_stage2b.py`
  calls preserved (line 38); `FoldedOnce` is therefore about rows folded once;
* `load_fingerprint` answers an empty set when the fingerprint stage failed (`d4j.py:311`), and the guard then
  passes any line of the fix; `FixLineNeverSent` is about fingerprints of every file. Even a whole fingerprint has
  only the lines that `_nontrivial` keeps (`leakage_guard.py:58`, line 77): short lines of the fix such as
  `return 0;`, its imports and its comments are sent, as the docstring (line 14) allows, and the property is about
  the others, where they are lines of their own. A line that the fix
  moves between two touched files counts as a line of the fix. `leakage_guard.py` (line 11) allows the tokens
  of the buggy source too, but its callers pass the candidate diff only;
* GumTree goes on without a file that failed and says so in `errors` only, where `gumtree_edit.py` (line 6) says
  that a failure gives no value; `EditErrorTold` states what is left of it;
* warnings with one key are counted once, where `new_warnings` (`scores.py:83`) speaks of multisets; class files
  that are missing narrow what SpotBugs looks at without a note, so that `VulnSeesEveryFile` asks for all of them;
* checkpoints that do not parse are neither rows nor among the excluded that `evaluate_full.py` counts (lines
  57-58 say that none is silently dropped); they are in `run_manifest.csv` only, where
  `EveryCheckpointAccounted` finds them;
* after a policy change and before the next consolidation a row keeps the label of `full_scores.csv` while
  the duplicate groups are the new manifest's (`evaluate_full.py:79`); a consolidation killed between two tables
  leaves tables of two consolidations, and one without rows leaves an old `patch_scores.csv`. The properties of
  the evaluation are conditional on `basis` and on `pc = "done"` for these reasons.

## 5. What is proved

Each `*Proofs` module proves `Init => IInv`, that every action preserves `IInv`, and that `IInv`
implies the properties; none of the properties is inductive by itself.

| module | theorems | the invariant, and why it is needed |
|---|---|---|
| `RunFullProofs` | `TypeCorrect`, `RecordedSafe`, `NoLostRow`, `ImplementsLedger`, `AbortLosesNothing`, `TreesStayWhole`, `RowBeforeCheckpoint`, `CountsAddUp`, `CleanExitLeavesAll`, `OwnFilesAreInOrder`, `JobsRunOutOfWork`, `NobodyWaitsForever` | `JobInv` ties each program counter to what the job holds (a patch in hand is one of its bug's and is pending; the log says what the passed stages gave), `CsvInv` says that the holder of the lock has read the CSV as it is on disk. Without the first a checkpoint could replace a settled one, without the second a rewrite could lose a row. `TreeInv`: a checkout is at work only where the row does not say available, so a kill inside it cannot leave a row ahead of its trees. `RowInv`: the stages past the apply are reached only with the patch's row on disk. `HoldInv` and `Tally`: a selected patch is still held by the job of its bug or has been counted, and the counters and what is held make up the selection; `CoverInv`: what is no longer held has an honest checkpoint, unless the pass was aborted. `FreeInv`: the lock is with a job that rewrites a CSV, and a job that checks out has patches to run. |
| `OracleRunnerProofs` | `StageTypes`, `OnlyRealPassesCount`, `VerdictsAreDeserved`, `StableScoresAreFair` | `SeenInv`: what was seen of the test in hand was possible where it ran; `LinkedInv`: with exports that succeed it ran in its own tree; `CountedInv`: what the one execution in the candidate says. |
| `LlmReviewProofs` | `ReviewTypes`, `NoAnswerTwice`, `LinesApart`, `CleanEndLogsAll`, `ImplementsCache`, `PassRunsOutOfWork`, `NoWorkerStuck` | `PlacedInv` and `SettledInv`: a job is waiting, with one worker, or neither, and a settled job is neither; `CoverInv`: what is neither has its entry. `LineInv`: the log is no worse than it was found while nothing has been raised, and never mixed. For the refinement they say that the workers asking a question are one or none. `LockInv`: the lock is with a worker that writes. |
| `SemanticRunsProofs` | `SemanticTypes`, `RerunKeepsAnswers`, `RerunMissesNone`, `TableIsRight`, `ProgramsRunOutOfWork`, `ProgramsNeverStuck` | `ReuseInv`: the rows in hand differ from those on disk only where a call was due; `CoverInv`: what is still to do or issued covers what stands failed; `AgreeInv`: table and files agree but for the patch being written. `TriesInv`: attempts are counted for a run that is still to be issued. `LeastRun`: runs that are left have a first one. |
| `PilotScoresProofs` | `PilotTypes`, `PvsBelongs`, `RescoreIsFinal`, `OneFoldIsSafe`, `PilotMissesNone`, `DoneIsKept` | `SoundInv`: also the row and the table being written are right; `CurrentInv`: also in them no judgement is older than the rescore; `PassInv`: what is left of the pass and what was tried make up what was not done. |
| `PromptGuardProofs` | `OnlyMandatoryIsOver`, `DropsInOrder`, `DropsWhatItMust`, `EstimateHolds` (about `ContextBudget`), `JudgesItsText`, `FixNeverSent`, `OracleStaysHome`, `RequestFitsBudget`, `SendsWithinBudget` | `VisitedIsDropped`: what is kept and not mandatory has not been visited; `DroppedFirst`: nothing waiting comes before what was dropped; `TotalIsSize`: the total kept by subtraction is the sum over what is kept, so that the loop stops when it should. For the request, `GuardInv`: items were given only by the buggy tree, a whole fingerprint has a line that is not trivial, or the fix does not add it, and a request that is ready was judged by its own parts, which are those the budget left. |
| `StaticAnalysisProofs` | `DeltasCompare`, `EditErrorIsTold`, `SeesEveryFile`, `CrashAloneMisleads` | `FilesSeen`: a changed file is waiting, compared or failed; `Summed`: a side that has not failed adds up every measured method, since the worst level is the side's. `VInv`: the scope of SpotBugs is the changed files and not those GumTree compared, and a zero is written exactly when both sides answered and none of their keys is new. |
| `EvaluationProofs` | `TypeCorrect`, `DuplicatesShare`, `CheckpointsAccounted`, `PvsAgrees`, `NoTwin`, `RankingIsExpected` | `Coherent`: a manifest that was written has the groups of the normalized diffs and no conflict in either policy; `LabelsAgree`, `ScoresAgree`, `RunsAgree`: what each table is of, from the moment it is written. `SplitByBug` is the one argument for both ways of splitting. `ScoresTyped`: the scores that are ranked are numbers. |

The assumptions are those of the modules about their constants (`ConstantsAssumption`,
`StageAssumption`, `ReviewAssumption`, `SemanticAssumption`, `PilotAssumption`, `BudgetAssumption`,
`FileAssumption`, `StaticAssumption`, `DatasetAssumption`, `EvaluationAssumption`): that numbers are numbers,
that the outcomes are among those named, that model values differ. Sets that are counted or summed over are
finite: the patches of `RunFull`, the items of a request, the keys of warnings, the patches of the corpus. Three theorems have a hypothesis
more: every stage has an outcome (`StagesEnd`), the pool has a worker, and in `CrashAloneMisleads` no analyzer
crashes without an error, which is the case `static_crash` shows.

**Sums.** The sum over a set is a recursive function over its subsets. `PromptGuardProofs` proves that there is
one and only one such function, by a smallest subset at which it would fail (`Smallest`, from the library's
theorem that strict inclusion among finite sets is well-founded, so that no induction over an operator is
needed), and from it that removing an item takes its estimate off the sum (`SumRemove`). `LeastRun` is the same
argument. The score of warnings needs no sum: there are three weights, and `Weight` counts the kinds of each.

**Ranking.** `RankIsExpectation` compares two counts, of orders and of subsets, and neither the orders nor the
binomials are computed step by step in the proof. The tool is `DoubleCount`: a relation in which every element of
one set has the same number of partners, and every element of another too, relates the two sizes. It is used
twice. Between the choices of k and of k + 1 it gives `CombNext`, and with `Pascal`, which tells the choices with the
last number from those without it, `CombLeaveOne`. Between the orders without a correct candidate in the first k
ranks and the ranks left in the block it gives `CleanNext`: every such order has the same number of wrong candidates
there, and every rank has a wrong one in as many of them, since exchanging two tied candidates (`SwapOrder`) leaves
an order one the scores allow. The two recurrences run in step (`ShareStep`), so that the share of clean orders is the
quotient of binomials at every rank of a block (`CleanShare`), by a least rank at which it would not be
(`LeastNumber`; no induction over an operator is needed).
`CleanAhead` and `CleanPast` say what the other blocks do: nothing, if they have no correct candidate, and all, if
they have one. That there is an order at all is `OrdersExist`, by a smallest set of candidates without one.

**Progress.** A liveness property needs fairness and `ENABLED`, which the prover does not have. What it rests on
besides them is safety, and is proved for each of the three programs: every step of a thread uses up a finite
part of its work and makes none for the others (`JobsRunOutOfWork`, `PassRunsOutOfWork`,
`ProgramsRunOutOfWork`), and as long as there is work some thread's guards hold (`NobodyWaitsForever`,
`NoWorkerStuck`, `ProgramsNeverStuck`), no circle of threads waiting for the lock or for the pool being
possible. The guards (`CanStep`, `CanWork`) are written out. That they are those of the actions, and that
the fair specifications reach the end, is for TLC: `PassEnds` and `SessionEnds`.

`RunFull` starts from any files an earlier pass, or a copy of the repository, may have left, so three of its
theorems have a hypothesis about them. `TreesStayWhole` needs `RowsAreTrue`: a row that says available is
true of its directory. `RowBeforeCheckpoint` needs `CheckpointHasRow` of the files found, and
`CleanExitLeavesAll` needs `DoneIsHonest`: what counts as done there is honest. A first pass, which finds
nothing, meets all three, so that with files of the program's own making the three properties hold together
(`OwnFilesAreInOrder`); `runfull_cloned` is the case in which `RowsAreTrue` fails, and the property with it.

Only model-checked are
* liveness (`PassEnds`, `SessionEnds`), but for its two halves above;
* that a rebuilt diff does what the original did (`Verified` in `Dataset`, which stops a build when it fails):
  its sides are built by recursion over the rows.

## 6. What is left out

* `RunFull`: `--status` (reads only), `--consolidate`; what the stages compute; the candidate tree.
  The order of the stages, their outcomes and what is written are all there.
* `OracleRunner`: the prompt, JUnit detection, the CSV of the command line. A compile is taken to
  answer the same each time.
* `LlmReview`: prompts, `--dry-run`, the pilot sample, the probe's comparison of the recalled bug.
* `SemanticRuns`: `verify_receipt` (see `PromptGuard`), the comparison model's files, the score of a
  judgement. A time-out is a connection or a server error by its wording; a rate limit is one with
  a connection error, which every program treats alike.
* `PilotScores`: `S_cex` (carried along by every program), `S_vuln`, amounts. A kill while a table is
  rewritten keeps whole rows; files other than the table and the log are rewritten in one step.
* `PromptGuard`: the wording of the prompts, the patterns of the guard beyond the kinds of secret above, what
  the extractor's parser finds in a file, the log's wording.
* `StaticAnalysis`: the values of the control-flow features, S_vuln over all classes (the pilot's row has it as a
  missing value), the output formats of the tools.
* `Dataset`: downloading, the parsing of file names, diffs of several hunks or files, the audit tables.
* `Evaluation`: the tables of single stages, which nothing reads back; a kill inside the writing of one
  table; the estimators (logistic regression, bootstrap, Bradley-Terry), which are arithmetic over floats and random
  numbers; the layout of the report. Of the folds, which bug goes where is arbitrary.
* Not modelled at all: the stateless Java tools, whose results are inputs here; the memorization probe of the second
  experiment (one call and one row per patch; its outcome as a stage is in `RunFull`, its table has the
  shape of the semantic one); programs that run once and only read and append; the preference tool; the
  first experiment's dataset, evaluation and checks, which the second one replaces.
