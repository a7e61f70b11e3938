------------------------------ MODULE LlmReview ------------------------------
(***************************************************************************)
(* The first experiment's pass over the patches, experiment/src/           *)
(* llm_review.py, and its twin memorization_probe.py: a pool of workers    *)
(* puts each question that is not settled to the model and appends what    *)
(* came of it to a log under a lock; the next start reads the log to see   *)
(* what is settled.                                                        *)
(*                                                                         *)
(* A line of the log is its job and what kind of answer it holds; no       *)
(* reader of the log depends on the order of its lines, so it is kept as   *)
(* the number of lines of each kind.  A write that fails or is killed may  *)
(* leave part of a line, or all of it but the newline, and what is         *)
(* appended next goes on the same line.                                    *)
(***************************************************************************)
EXTENDS Integers, FiniteSets

CONSTANTS
  Job,         \* the (patch, run) pairs selected
  Worker,      \* the threads of the pool
  NoOne,       \* no job, no worker
  Settling,    \* the kinds of line that settle a job
  MaxAttempts, \* max_retries of call
  MaxStarts    \* bound: how often the program is started

Kind == {"parsed", "unparsed", "error"}

ASSUME ReviewAssumption ==
  /\ NoOne \notin Job /\ NoOne \notin Worker
  /\ Settling \subseteq Kind /\ MaxAttempts \in Nat \ {0} /\ MaxStarts \in Nat

VARIABLES
  pc,       \* of the main thread: "off", "running", "ended", "failed", "unreadable"
  starts,   \* how often the program was started
  waiting,  \* the jobs the pool has not handed out
  job,      \* the job of each worker
  step,     \* where its worker is in work: "idle", "call", "lock", "write"
  tries,    \* attempts of its call
  kind,     \* what came of the call
  lock,     \* who holds the lock of the log
  raised,   \* did a job end in an exception?
  log,      \* per job and kind, the entries that are whole on disk
  flaw,     \* its worst line: "no"; the last one "bare" of its newline, or "cut"
            \* short; entries "glued" to such a line; or "mixed" by two writers
  found     \* history: the flaw of the log when the program was started

proc == <<waiting, job, step, tries, kind, lock, raised>>
file == <<log, flaw, found>>
vars == <<pc, starts, proc, file>>

Idle == [w \in Worker |-> "idle"]
None == [w \in Worker |-> NoOne]

Init ==
  /\ pc = "off" /\ starts = 0 /\ waiting = {} /\ job = None /\ step = Idle
  /\ tries = [w \in Worker |-> 0] /\ kind = [w \in Worker |-> "error"]
  /\ lock = NoOne /\ raised = FALSE
  /\ log = [j \in Job |-> [k \in Kind |-> 0]] /\ flaw = "no" /\ found = "no"

-----------------------------------------------------------------------------
\* Every line is JSON, the last one with or without its newline.
Readable == flaw \in {"no", "bare"}

\* done, as it is read back from a log that can be read.
Settled(j) == \E k \in Settling : log[j][k] > 0

\* Mutant of Start: the log is not consulted.
StartAfresh ==
  /\ pc # "running" /\ starts < MaxStarts /\ starts' = starts + 1
  /\ pc' = "running" /\ raised' = FALSE /\ waiting' = Job
  /\ found' = flaw
  /\ UNCHANGED <<job, step, tries, kind, lock, log, flaw>>

\* main: the log is read line by line as JSON, and the jobs it does not settle
\* are submitted to a new pool.
Start ==
  /\ pc # "running" /\ starts < MaxStarts /\ starts' = starts + 1
  /\ IF ~Readable
     THEN pc' = "unreadable" /\ UNCHANGED <<waiting, raised>>
     ELSE /\ pc' = "running" /\ raised' = FALSE
          /\ waiting' = {j \in Job : ~Settled(j)}
  /\ found' = flaw
  /\ UNCHANGED <<job, step, tries, kind, lock, log, flaw>>

\* Mutant of Take: the job stays in the queue.
TakeShared(w) ==
  /\ pc = "running" /\ step[w] = "idle"
  /\ \E j \in waiting : job' = [job EXCEPT ![w] = j] /\ UNCHANGED waiting
  /\ step' = [step EXCEPT ![w] = "call"] /\ tries' = [tries EXCEPT ![w] = 0]
  /\ UNCHANGED <<pc, starts, kind, lock, raised, file>>

\* A worker takes the next job: work builds the message and begins its call.
Take(w) ==
  /\ pc = "running" /\ step[w] = "idle"
  /\ \E j \in waiting : waiting' = waiting \ {j} /\ job' = [job EXCEPT ![w] = j]
  /\ step' = [step EXCEPT ![w] = "call"] /\ tries' = [tries EXCEPT ![w] = 0]
  /\ UNCHANGED <<pc, starts, kind, lock, raised, file>>

\* The entry of the call is ready to be logged.
Answered(w, k) ==
  /\ step' = [step EXCEPT ![w] = "lock"] /\ kind' = [kind EXCEPT ![w] = k]
  /\ UNCHANGED <<pc, starts, waiting, job, lock, raised, file>>

\* The worker is through with its job.
Leave(w) ==
  /\ step' = [step EXCEPT ![w] = "idle"] /\ job' = [job EXCEPT ![w] = NoOne]

\* An exception that work does not catch is kept in the job's future.
Raise(w) ==
  /\ Leave(w) /\ raised' = TRUE
  /\ UNCHANGED <<pc, starts, waiting, kind>>

\* Mutant of Attempt: a job that gave up is dropped.
AttemptDropping(w) ==
  /\ pc = "running" /\ step[w] = "call" /\ tries' = [tries EXCEPT ![w] = @ + 1]
  /\ \/ \E k \in {"parsed", "unparsed"} : Answered(w, k)
     \/ /\ tries[w] + 1 < MaxAttempts
        /\ UNCHANGED <<pc, starts, waiting, job, step, kind, lock, raised, file>>
     \/ /\ tries[w] + 1 = MaxAttempts /\ Leave(w)
        /\ UNCHANGED <<pc, starts, waiting, kind, lock, raised, file>>

\* One attempt of call: an answer, a refusal (4xx), a transient error that is
\* tried again while attempts are left, or an exception call does not expect.
Attempt(w) ==
  /\ pc = "running" /\ step[w] = "call" /\ tries' = [tries EXCEPT ![w] = @ + 1]
  /\ \/ \E k \in Kind : Answered(w, k)
     \/ /\ tries[w] + 1 < MaxAttempts
        /\ UNCHANGED <<pc, starts, waiting, job, step, kind, lock, raised, file>>
     \/ Raise(w) /\ UNCHANGED <<lock, file>>

\* Mutant of Acquire: the log is opened without the lock.
AcquireNothing(w) ==
  /\ pc = "running" /\ step[w] = "lock"
  /\ step' = [step EXCEPT ![w] = "write"]
  /\ UNCHANGED <<pc, starts, waiting, job, tries, kind, lock, raised, file>>

Acquire(w) ==
  /\ pc = "running" /\ step[w] = "lock" /\ lock = NoOne /\ lock' = w
  /\ step' = [step EXCEPT ![w] = "write"]
  /\ UNCHANGED <<pc, starts, waiting, job, tries, kind, raised, file>>

\* What is wrong with the log once an entry that ends so is appended to it.
Behind(end) == CASE flaw = "no" -> end [] flaw = "mixed" -> "mixed" [] OTHER -> "glued"

\* The worker has written its entry up to its end: all of it ("no"), all but the
\* newline ("bare") or part ("cut"); or two workers have written at once.
Written(w, end) ==
  IF \E v \in Worker \ {w} : step[v] = "write"
  THEN flaw' = "mixed" /\ UNCHANGED log
  ELSE /\ flaw' = Behind(end)
       /\ IF end = "cut" THEN UNCHANGED log ELSE log' = [log EXCEPT ![job[w]][kind[w]] = @ + 1]

AppendLine(w) ==
  /\ pc = "running" /\ step[w] = "write" /\ lock' = NoOne /\ Leave(w)
  /\ Written(w, "no")
  /\ UNCHANGED <<pc, starts, waiting, tries, kind, raised, found>>

\* What a write that does not come to its end leaves.
Torn(w) == UNCHANGED <<log, flaw>> \/ Written(w, "cut") \/ Written(w, "bare")

\* Mutant of FailAppend: the lock is not released.
FailAppendAndKeepLock(w) ==
  /\ pc = "running" /\ step[w] = "write" /\ Raise(w)
  /\ Torn(w) \/ Written(w, "no")
  /\ UNCHANGED <<tries, lock, found>>

\* Writing or closing fails (no space left): the lock is released, what was
\* written stays, and the other workers go on.
FailAppend(w) ==
  /\ pc = "running" /\ step[w] = "write" /\ lock' = NoOne /\ Raise(w)
  /\ Torn(w) \/ Written(w, "no")
  /\ UNCHANGED <<tries, found>>

\* Every future is done; the first exception met leaves the loop, and the pool
\* is still waited for.
Finish ==
  /\ pc = "running" /\ waiting = {} /\ step = Idle
  /\ pc' = IF raised THEN "failed" ELSE "ended"
  /\ UNCHANGED <<starts, proc, file>>

\* The process is killed, perhaps while a line is being written.
Kill ==
  /\ pc = "running" /\ pc' = "off" /\ waiting' = {} /\ job' = None /\ step' = Idle
  /\ lock' = NoOne /\ raised' = FALSE
  /\ UNCHANGED <<log, flaw>> \/ \E w \in Worker : step[w] = "write" /\ Torn(w)
  /\ UNCHANGED <<starts, tries, kind, found>>

Work(w) == Take(w) \/ Attempt(w) \/ Acquire(w) \/ AppendLine(w) \/ FailAppend(w)

Next == Start \/ Finish \/ Kill \/ \E w \in Worker : Work(w)

Spec == Init /\ [][Next]_vars

\* The threads of the pool and the main thread keep running; nobody is made to
\* start the program, or to kill it.
FairSpec == Spec /\ WF_vars(Finish) /\ \A w \in Worker : WF_vars(Work(w))

-----------------------------------------------------------------------------
\* Every variable stays in its type.
TypeOK ==
  /\ pc \in {"off", "running", "ended", "failed", "unreadable"} /\ starts \in 0..MaxStarts
  /\ waiting \subseteq Job /\ job \in [Worker -> Job \cup {NoOne}]
  /\ step \in [Worker -> {"idle", "call", "lock", "write"}]
  /\ tries \in [Worker -> 0..MaxAttempts] /\ kind \in [Worker -> Kind]
  /\ lock \in Worker \cup {NoOne} /\ raised \in BOOLEAN
  /\ log \in [Job -> [Kind -> Nat]]
  /\ {flaw, found} \subseteq {"no", "bare", "cut", "glued", "mixed"}

\* "Results are cached ... so re-running resumes" (lines 3-4): over any number of
\* starts and kills no job is paid for again after a line that settles it.
AnsweredOnce ==
  \A j \in Job : \A k, l \in Settling :
    log[j][k] > 0 /\ log[j][l] > 0 => k = l /\ log[j][k] = 1

\* Two workers never write at once.  And however they interleave and whatever
\* their calls do, a pass that found a log of whole lines and ends without an
\* exception leaves one, for the next start to read (llm_review.py:246): a line is
\* glued to another only behind a write that failed or was killed.
LinesKeptApart ==
  /\ flaw # "mixed"
  /\ pc = "ended" /\ found = "no" => flaw = "no"

\* "Errors are logged, never dropped" (line 5): when a pass ends without an
\* exception every job has an entry on disk.
CleanEndCovers == pc = "ended" => \A j \in Job : \E k \in Kind : log[j][k] > 0

\* The log is an AnswerCache.
Cache == INSTANCE AnswerCache WITH
  asking  <- [j \in Job |-> Cardinality({w \in Worker : job[w] = j})],
  settled <- {j \in Job : Settled(j)}
CacheSpec == Cache!Spec

\* A pass that is not killed ends, whatever the calls and the writes do.
PassEnds == pc = "running" ~> pc # "running"

-----------------------------------------------------------------------------
\* "Re-running resumes" (line 4), after a kill too.
RerunResumes == pc # "unreadable"
=============================================================================
