-------------------------- MODULE LlmReviewProofs --------------------------
(***************************************************************************)
(* Proofs about LlmReview, for any jobs, workers, retries and starts.      *)
(***************************************************************************)
EXTENDS LlmReview, FiniteSetTheorems, TLAPS

\* The parts of the inductive invariant: who holds the lock and what a worker
\* has in hand; a stopped program has no workers; a job is in one place only;
\* a settled job is in none.
WorkerInv ==
  \A w \in Worker :
    /\ step[w] = "write" => lock = w
    /\ step[w] = "idle" <=> job[w] = NoOne
    /\ step[w] = "call" => tries[w] < MaxAttempts

StoppedInv == pc # "running" => waiting = {} /\ \A w \in Worker : step[w] = "idle"

PlacedInv ==
  \A w \in Worker :
    /\ job[w] \notin waiting
    /\ \A v \in Worker : v # w /\ job[v] = job[w] => job[w] = NoOne

SettledInv == \A j \in Job : Settled(j) => j \notin waiting /\ \A w \in Worker : job[w] # j

\* No two workers have written at once, and a pass that found whole lines has
\* them as long as nothing was raised in it.
LineInv ==
  /\ flaw # "mixed"
  /\ found = "no" /\ pc = "running" /\ ~raised => flaw = "no"
  /\ found = "no" /\ pc = "ended" => flaw = "no"

IInv == /\ TypeOK /\ WorkerInv /\ StoppedInv /\ PlacedInv /\ SettledInv
        /\ AnsweredOnce /\ LineInv

-----------------------------------------------------------------------------
LEMMA InitInv == Init => IInv
  <1> SUFFICES ASSUME Init PROVE IInv
    OBVIOUS
  <1>1. TypeOK
    <2>1. /\ job \in [Worker -> Job \cup {NoOne}] /\ step \in [Worker -> {"idle", "call", "lock", "write"}]
          /\ tries \in [Worker -> 0..MaxAttempts] /\ kind \in [Worker -> Kind]
      BY ReviewAssumption DEF Init, Idle, None, Kind
    <2>2. log \in [Job -> [Kind -> Nat]]
      BY DEF Init
    <2>3. raised \in BOOLEAN /\ lock \in Worker \cup {NoOne} /\ waiting \subseteq Job
      BY DEF Init
    <2> QED  BY <2>1, <2>2, <2>3, ReviewAssumption DEF Init, TypeOK
  <1>2. WorkerInv /\ StoppedInv /\ PlacedInv /\ LineInv
    BY DEF Init, WorkerInv, StoppedInv, PlacedInv, LineInv, Idle, None
  <1>3. \A j \in Job : \A k \in Settling : ~(log[j][k] > 0)
    BY ReviewAssumption DEF Init
  <1>4. SettledInv /\ AnsweredOnce
    BY <1>3 DEF SettledInv, Settled, AnsweredOnce
  <1> QED  BY <1>1, <1>2, <1>4 DEF IInv

LEMMA StartInv == ASSUME IInv, Start PROVE IInv'
  <1>0. /\ pc # "running" /\ waiting = {} /\ \A w \in Worker : step[w] = "idle" /\ job[w] = NoOne
        /\ UNCHANGED <<job, step, tries, kind, lock, log, flaw>> /\ found' = flaw
    BY DEF Start, IInv, StoppedInv, WorkerInv
  <1>1. TypeOK'
    <2>1. raised' \in BOOLEAN /\ waiting' \subseteq Job
      BY <1>0 DEF Start, IInv, TypeOK
    <2>2. pc' \in {"running", "unreadable"} /\ starts' \in 0..MaxStarts
      BY ReviewAssumption DEF Start, IInv, TypeOK
    <2> QED  BY <1>0, <2>1, <2>2 DEF IInv, TypeOK
  <1>2. WorkerInv'
    BY <1>0 DEF IInv, WorkerInv
  <1>3. StoppedInv'
    BY <1>0 DEF Start, IInv, StoppedInv
  <1>4. waiting' \subseteq {j \in Job : ~Settled(j)} \cup {}
    BY <1>0 DEF Start
  <1>5. PlacedInv'
    BY <1>0, <1>4, ReviewAssumption DEF PlacedInv
  <1>6. SettledInv'
    BY <1>0, <1>4, ReviewAssumption DEF SettledInv, Settled
  <1>7. AnsweredOnce' /\ LineInv'
    BY <1>0 DEF Start, IInv, AnsweredOnce, LineInv
  <1> QED  BY <1>1, <1>2, <1>3, <1>5, <1>6, <1>7 DEF IInv

\* The flaws a log may have.
Flaws == {"no", "bare", "cut", "glued", "mixed"}

\* The entry of a worker that writes is on disk, or nothing whole is.
Logged(w) ==
  \/ log' = log
  \/ step[w] = "write" /\ log' = [log EXCEPT ![job[w]][kind[w]] = @ + 1]

\* The lock keeps an entry from being mixed with another, whatever its end.
LEMMA WriteFacts ==
  ASSUME IInv, NEW w \in Worker, step[w] = "write", Torn(w) \/ Written(w, "no")
  PROVE  Logged(w) /\ flaw' \in Flaws /\ flaw' # "mixed"
  <1>1. \A v \in Worker \ {w} : step[v] # "write"
    BY DEF IInv, WorkerInv
  <1>2. flaw \in Flaws /\ flaw # "mixed"
    BY DEF IInv, TypeOK, LineInv, Flaws
  <1>3. ASSUME NEW end \in {"no", "bare", "cut"}, Written(w, end)
        PROVE  Logged(w) /\ flaw' \in Flaws /\ flaw' # "mixed"
    BY <1>1, <1>2, <1>3 DEF Written, Behind, Logged, Flaws
  <1> QED  BY <1>2, <1>3 DEF Torn, Logged

\* What a whole entry changes in the log: a job in a worker's hand has no entry
\* that settles it, so that its entry is the first.
LEMMA LoggedFacts ==
  ASSUME IInv, NEW w \in Worker, step[w] # "idle", Logged(w)
  PROVE  /\ job[w] \in Job /\ ~Settled(job[w]) /\ log' \in [Job -> [Kind -> Nat]]
         /\ \A i \in Job, k \in Kind : log'[i][k] >= log[i][k]
         /\ \A i \in Job : i # job[w] => log'[i] = log[i]
         /\ AnsweredOnce'
  <1> DEFINE j == job[w]
  <1>1. j \in Job /\ kind[w] \in Kind /\ \A i \in Job, k \in Kind : log[i][k] \in Nat
    BY DEF IInv, TypeOK, WorkerInv
  <1>2. ~Settled(j)
    BY <1>1 DEF IInv, SettledInv
  <1>3. \A k \in Settling : log[j][k] = 0
    BY <1>1, <1>2, ReviewAssumption DEF Settled
  <1>4. CASE log' = log
    BY <1>1, <1>2, <1>4 DEF IInv, TypeOK, AnsweredOnce
  <1>5. CASE log' = [log EXCEPT ![j][kind[w]] = @ + 1]
    <2>1. /\ log' \in [Job -> [Kind -> Nat]]
          /\ \A i \in Job : i # j => log'[i] = log[i]
          /\ \A k \in Kind : log'[j][k] = IF k = kind[w] THEN log[j][k] + 1 ELSE log[j][k]
      BY <1>1, <1>5 DEF IInv, TypeOK
    <2>2. \A i \in Job, k \in Kind : log'[i][k] >= log[i][k]
      BY <1>1, <2>1
    <2>3. AnsweredOnce'
      <3> SUFFICES ASSUME NEW i \in Job, NEW k \in Settling, NEW l \in Settling,
                          log'[i][k] > 0, log'[i][l] > 0
                   PROVE  k = l /\ log'[i][k] = 1
        BY DEF AnsweredOnce
      <3>1. CASE i # j
        BY <2>1, <3>1 DEF IInv, AnsweredOnce
      <3>2. CASE i = j
        BY <1>3, <2>1, <3>2, ReviewAssumption
      <3> QED  BY <3>1, <3>2
    <2> QED  BY <1>1, <1>2, <2>1, <2>2, <2>3
  <1> QED  BY <1>4, <1>5 DEF Logged

\* A stopped program.
LEMMA StopInv == ASSUME IInv, Finish \/ Kill PROVE IInv'
  <1>1. CASE Finish
    <2>0. /\ waiting = {} /\ \A w \in Worker : step[w] = "idle"
          /\ UNCHANGED <<starts, waiting, job, step, tries, kind, lock, raised, log, flaw, found>>
      BY <1>1 DEF Finish, proc, file, Idle
    <2>1. TypeOK' /\ WorkerInv'
      BY <1>1, <2>0 DEF Finish, IInv, TypeOK, WorkerInv
    <2>2. StoppedInv' /\ PlacedInv' /\ LineInv'
      BY <1>1, <2>0 DEF Finish, IInv, StoppedInv, PlacedInv, LineInv
    <2>3. SettledInv' /\ AnsweredOnce'
      BY <2>0 DEF IInv, SettledInv, Settled, AnsweredOnce
    <2> QED  BY <2>1, <2>2, <2>3 DEF IInv
  <1>2. CASE Kill
    <2>0. /\ waiting' = {} /\ \A w \in Worker : step'[w] = "idle" /\ job'[w] = NoOne
          /\ UNCHANGED <<starts, tries, kind, found>> /\ lock' = NoOne /\ raised' = FALSE /\ pc' = "off"
          /\ step' = Idle /\ job' = None
      BY <1>2 DEF Kill, Idle, None
    <2>1. /\ log' \in [Job -> [Kind -> Nat]] /\ flaw' \in Flaws /\ flaw' # "mixed"
          /\ AnsweredOnce'
      <3>1. CASE UNCHANGED <<log, flaw>>
        BY <3>1 DEF IInv, TypeOK, LineInv, AnsweredOnce, Flaws
      <3>2. ASSUME NEW w \in Worker, step[w] = "write", Torn(w) PROVE <2>1!:
        BY <3>2, WriteFacts, LoggedFacts
      <3> QED  BY <1>2, <3>1, <3>2 DEF Kill
    <2>2. TypeOK'
      BY <2>0, <2>1 DEF IInv, TypeOK, Idle, None, Flaws
    <2>3. WorkerInv' /\ StoppedInv' /\ PlacedInv' /\ LineInv'
      BY <2>0, <2>1 DEF WorkerInv, StoppedInv, PlacedInv, LineInv
    <2>4. SettledInv'
      BY <2>0, ReviewAssumption DEF SettledInv
    <2> QED  BY <2>1, <2>2, <2>3, <2>4 DEF IInv
  <1> QED  BY <1>1, <1>2

LEMMA TakeInv == ASSUME IInv, NEW w \in Worker, Take(w) PROVE IInv'
  <1>1. PICK j \in waiting : waiting' = waiting \ {j} /\ job' = [job EXCEPT ![w] = j]
    BY DEF Take
  <1>2. /\ pc = "running" /\ step[w] = "idle" /\ step' = [step EXCEPT ![w] = "call"]
        /\ tries' = [tries EXCEPT ![w] = 0]
        /\ UNCHANGED <<pc, starts, kind, lock, raised, log, flaw, found>>
    BY DEF Take, file
  <1>3. /\ job'[w] = j /\ step'[w] = "call" /\ tries'[w] = 0 /\ j \in Job /\ j # NoOne
        /\ \A v \in Worker : v # w => job'[v] = job[v] /\ step'[v] = step[v] /\ tries'[v] = tries[v]
    BY <1>1, <1>2, ReviewAssumption DEF IInv, TypeOK
  <1>4. TypeOK'
    BY <1>1, <1>2, <1>3, ReviewAssumption DEF IInv, TypeOK
  <1>5. WorkerInv'
    BY <1>2, <1>3, ReviewAssumption DEF IInv, WorkerInv
  <1>6. StoppedInv' /\ LineInv'
    BY <1>2 DEF IInv, StoppedInv, LineInv
  <1>7. PlacedInv'
    BY <1>1, <1>3, ReviewAssumption DEF IInv, PlacedInv, TypeOK
  <1>8. SettledInv' /\ AnsweredOnce'
    <2>1. \A i \in Job : Settled(i)' <=> Settled(i)
      BY <1>2 DEF Settled
    <2>2. ~Settled(j)
      BY <1>1, <1>3 DEF IInv, SettledInv
    <2> QED  BY <1>1, <1>2, <1>3, <2>1, <2>2 DEF IInv, SettledInv, AnsweredOnce
  <1> QED  BY <1>4, <1>5, <1>6, <1>7, <1>8 DEF IInv

\* A worker that has an answer, tries again or waits for the lock keeps its job.
LEMMA KeepInv ==
  ASSUME IInv, NEW w \in Worker, pc = "running", step[w] # "idle",
         NEW s \in {"call", "lock"}, step' = [step EXCEPT ![w] = s],
         lock' = lock, step[w] # "write",
         tries' \in [Worker -> 0..MaxAttempts], kind' \in [Worker -> Kind],
         s = "call" => tries'[w] < MaxAttempts, \A v \in Worker : v # w => tries'[v] = tries[v],
         UNCHANGED <<pc, starts, waiting, job, raised, log, flaw, found>>
  PROVE  IInv'
  <1>1. step'[w] = s /\ \A v \in Worker : v # w => step'[v] = step[v]
    BY DEF IInv, TypeOK
  <1>2. TypeOK'
    BY DEF IInv, TypeOK
  <1>3. WorkerInv'
    BY <1>1, ReviewAssumption DEF IInv, WorkerInv
  <1>4. StoppedInv' /\ PlacedInv' /\ LineInv'
    BY DEF IInv, StoppedInv, PlacedInv, LineInv
  <1>5. SettledInv' /\ AnsweredOnce'
    BY DEF IInv, SettledInv, Settled, AnsweredOnce
  <1> QED  BY <1>2, <1>3, <1>4, <1>5 DEF IInv

\* A worker that leaves its job, with its entry whole on disk or not.
LEMMA LeaveInv ==
  ASSUME IInv, NEW w \in Worker, pc = "running", step[w] # "idle", Leave(w), Logged(w),
         step[w] = "write" => lock' = NoOne, step[w] # "write" => lock' = lock,
         tries' \in [Worker -> 0..MaxAttempts], \A v \in Worker : v # w => tries'[v] = tries[v],
         flaw' \in Flaws, LineInv', raised' \in BOOLEAN,
         UNCHANGED <<pc, starts, waiting, kind, found>>
  PROVE  IInv'
  <1> DEFINE j == job[w]
  <1>1. /\ step' = [step EXCEPT ![w] = "idle"] /\ job' = [job EXCEPT ![w] = NoOne]
        /\ step'[w] = "idle" /\ job'[w] = NoOne
        /\ \A v \in Worker : v # w => step'[v] = step[v] /\ job'[v] = job[v]
    BY DEF Leave, IInv, TypeOK
  <1>2. /\ j \in Job /\ log' \in [Job -> [Kind -> Nat]] /\ AnsweredOnce'
        /\ \A i \in Job : i # j => log'[i] = log[i]
    BY LoggedFacts
  <1>3. TypeOK'
    BY <1>1, <1>2 DEF IInv, TypeOK, Flaws
  <1>4. WorkerInv'
    BY <1>1, ReviewAssumption DEF IInv, WorkerInv
  <1>5. StoppedInv'
    BY DEF StoppedInv
  <1>6. PlacedInv'
    BY <1>1, ReviewAssumption DEF IInv, PlacedInv, TypeOK
  <1>7. SettledInv'
    <2>1. \A i \in Job : i # j => (Settled(i)' <=> Settled(i))
      BY <1>2 DEF Settled
    <2>2. j \notin waiting' /\ \A v \in Worker : job'[v] # j
      BY <1>1, <1>2, ReviewAssumption DEF IInv, PlacedInv
    <2>3. \A i \in Job : i # j /\ Settled(i) => i \notin waiting' /\ \A v \in Worker : job'[v] # i
      BY <1>1, ReviewAssumption DEF IInv, SettledInv
    <2> QED  BY <2>1, <2>2, <2>3 DEF SettledInv
  <1> QED  BY <1>2, <1>3, <1>4, <1>5, <1>6, <1>7 DEF IInv

LEMMA AttemptInv == ASSUME IInv, NEW w \in Worker, Attempt(w) PROVE IInv'
  <1>0. /\ pc = "running" /\ step[w] = "call" /\ tries' = [tries EXCEPT ![w] = @ + 1]
        /\ tries[w] < MaxAttempts
    BY DEF Attempt, IInv, WorkerInv
  <1>1. /\ tries' \in [Worker -> 0..MaxAttempts] /\ tries'[w] = tries[w] + 1
        /\ \A v \in Worker : v # w => tries'[v] = tries[v]
    BY <1>0, ReviewAssumption DEF IInv, TypeOK
  <1>2. CASE \E k \in Kind : Answered(w, k)
    <2>1. /\ step' = [step EXCEPT ![w] = "lock"] /\ kind' \in [Worker -> Kind]
          /\ UNCHANGED <<pc, starts, waiting, job, lock, raised, log, flaw, found>>
      BY <1>2 DEF Answered, file, IInv, TypeOK
    <2> QED  BY <1>0, <1>1, <2>1, KeepInv
  <1>3. CASE /\ tries[w] + 1 < MaxAttempts
             /\ UNCHANGED <<pc, starts, waiting, job, step, kind, lock, raised, log, flaw, found>>
    <2>1. step' = [step EXCEPT ![w] = "call"] /\ kind' \in [Worker -> Kind]
      BY <1>0, <1>3 DEF IInv, TypeOK
    <2> QED  BY <1>0, <1>1, <1>3, <2>1, KeepInv
  <1>4. CASE Raise(w) /\ UNCHANGED <<lock, file>>
    <2>1. /\ Leave(w) /\ lock' = lock /\ step[w] # "write" /\ step[w] # "idle" /\ pc = "running"
          /\ raised' = TRUE /\ UNCHANGED <<pc, starts, waiting, kind, log, flaw, found>>
      BY <1>0, <1>4 DEF Raise, file
    <2>2. flaw' \in Flaws /\ LineInv' /\ Logged(w)
      BY <2>1 DEF IInv, TypeOK, LineInv, Flaws, Logged
    <2> QED  BY <1>0, <1>1, <2>1, <2>2, LeaveInv
  <1> QED  BY <1>2, <1>3, <1>4 DEF Attempt, file

LEMMA AcquireInv == ASSUME IInv, NEW w \in Worker, Acquire(w) PROVE IInv'
  <1>1. /\ pc = "running" /\ step[w] = "lock" /\ lock = NoOne /\ lock' = w
        /\ step' = [step EXCEPT ![w] = "write"]
        /\ UNCHANGED <<pc, starts, waiting, job, tries, kind, raised, log, flaw, found>>
    BY DEF Acquire, file
  <1>2. tries' \in [Worker -> 0..MaxAttempts] /\ kind' \in [Worker -> Kind]
    BY <1>1 DEF IInv, TypeOK
  <1>3. step'[w] = "write" /\ \A v \in Worker : v # w => step'[v] = step[v] /\ step[v] # "write"
    BY <1>1, ReviewAssumption DEF IInv, TypeOK, WorkerInv
  <1>4. TypeOK'
    BY <1>1, <1>2 DEF IInv, TypeOK
  <1>5. WorkerInv'
    BY <1>1, <1>3 DEF IInv, WorkerInv
  <1>6. StoppedInv' /\ PlacedInv' /\ LineInv'
    BY <1>1 DEF IInv, StoppedInv, PlacedInv, LineInv
  <1>7. SettledInv' /\ AnsweredOnce'
    BY <1>1 DEF IInv, SettledInv, Settled, AnsweredOnce
  <1> QED  BY <1>4, <1>5, <1>6, <1>7 DEF IInv

\* An entry that is written whole, behind a line that is whole or not.
LEMMA AppendInv == ASSUME IInv, NEW w \in Worker, AppendLine(w) PROVE IInv'
  <1>1. /\ pc = "running" /\ step[w] = "write" /\ lock' = NoOne /\ Leave(w) /\ Written(w, "no")
        /\ UNCHANGED <<pc, starts, waiting, tries, kind, raised, found>>
    BY DEF AppendLine
  <1>2. Logged(w) /\ flaw' \in Flaws /\ flaw' # "mixed"
    BY <1>1, WriteFacts
  <1>3. flaw = "no" => flaw' = "no"
    <2>1. \A v \in Worker \ {w} : step[v] # "write"
      BY <1>1 DEF IInv, WorkerInv
    <2> QED  BY <1>1, <2>1 DEF Written, Behind
  <1>4. LineInv'
    BY <1>1, <1>2, <1>3 DEF IInv, LineInv
  <1>5. tries' \in [Worker -> 0..MaxAttempts] /\ raised' \in BOOLEAN
    BY <1>1 DEF IInv, TypeOK
  <1> QED  BY <1>1, <1>2, <1>4, <1>5, LeaveInv

LEMMA FailAppendInv == ASSUME IInv, NEW w \in Worker, FailAppend(w) PROVE IInv'
  <1>1. /\ pc = "running" /\ step[w] = "write" /\ lock' = NoOne /\ Leave(w) /\ raised' = TRUE
        /\ Torn(w) \/ Written(w, "no")
        /\ UNCHANGED <<pc, starts, waiting, tries, kind, found>>
    BY DEF FailAppend, Raise
  <1>2. Logged(w) /\ flaw' \in Flaws /\ flaw' # "mixed"
    BY <1>1, WriteFacts
  <1>3. LineInv' /\ tries' \in [Worker -> 0..MaxAttempts]
    BY <1>1, <1>2 DEF IInv, TypeOK, LineInv
  <1> QED  BY <1>1, <1>2, <1>3, LeaveInv

LEMMA NextInv == ASSUME IInv, [Next]_vars PROVE IInv'
  <1>1. CASE UNCHANGED vars
    <2>1. TypeOK' /\ WorkerInv' /\ StoppedInv' /\ PlacedInv' /\ LineInv'
      BY <1>1 DEF vars, proc, file, IInv, TypeOK, WorkerInv, StoppedInv, PlacedInv, LineInv
    <2>2. SettledInv' /\ AnsweredOnce'
      BY <1>1 DEF vars, proc, file, IInv, SettledInv, Settled, AnsweredOnce
    <2> QED  BY <2>1, <2>2 DEF IInv
  <1>2. CASE Next
    BY <1>2, StartInv, StopInv, TakeInv, AttemptInv, AcquireInv, AppendInv, FailAppendInv DEF Next, Work
  <1> QED  BY <1>1, <1>2

LEMMA InvHolds == Spec => []IInv
  <1> QED  BY InitInv, NextInv, PTL DEF Spec

\* The state of a pass is always of its type.
THEOREM ReviewTypes == Spec => []TypeOK
  <1>1. IInv => TypeOK
    BY DEF IInv
  <1> QED  BY <1>1, InvHolds, PTL

\* No answer is paid for twice, whatever is killed when and however often the
\* program is started.
THEOREM NoAnswerTwice == Spec => []AnsweredOnce
  <1>1. IInv => AnsweredOnce
    BY DEF IInv
  <1> QED  BY <1>1, InvHolds, PTL

\* The lock keeps the lines of the log apart, and a pass that ends without an
\* exception leaves whole lines if it found whole lines.
THEOREM LinesApart == Spec => []LinesKeptApart
  <1>1. IInv => LinesKeptApart
    BY DEF IInv, LineInv, LinesKeptApart
  <1> QED  BY <1>1, InvHolds, PTL

-----------------------------------------------------------------------------
\* While no job has raised, every job waits, is in a worker's hand, or has a
\* line.
HasLine(j) == \E k \in Kind : log[j][k] > 0

CoverInv ==
  /\ pc = "running" /\ ~raised =>
       \A j \in Job : j \in waiting \/ (\E w \in Worker : job[w] = j) \/ HasLine(j)
  /\ pc = "ended" => \A j \in Job : HasLine(j)

LEMMA StepCover == ASSUME IInv, CoverInv, [Next]_vars PROVE CoverInv'
  <1>1. CASE UNCHANGED vars
    BY <1>1 DEF vars, proc, file, CoverInv, HasLine
  <1>2. CASE Start
    <2>1. log' = log /\ pc' # "ended" /\ (pc' = "running" => waiting' = {j \in Job : ~Settled(j)})
      BY <1>2 DEF Start
    <2>2. \A j \in Job : Settled(j) => HasLine(j)
      BY ReviewAssumption DEF Settled, HasLine
    <2> QED  BY <2>1, <2>2 DEF CoverInv, HasLine
  <1>3. CASE Finish
    <2>1. /\ waiting = {} /\ log' = log /\ pc = "running" /\ pc' # "running" /\ (pc' = "ended" => ~raised)
          /\ \A w \in Worker : job[w] = NoOne
      BY <1>3 DEF Finish, Idle, proc, file, IInv, WorkerInv
    <2> QED  BY <2>1, ReviewAssumption DEF CoverInv, HasLine
  <1>4. CASE Kill
    BY <1>4 DEF Kill, CoverInv
  <1>5. ASSUME NEW w \in Worker, Take(w)  PROVE CoverInv'
    <2>1. PICK i \in waiting : waiting' = waiting \ {i} /\ job' = [job EXCEPT ![w] = i]
      BY <1>5 DEF Take
    <2>2. job'[w] = i /\ \A v \in Worker : v # w => job'[v] = job[v]
      BY <2>1 DEF IInv, TypeOK
    <2>3. job[w] = NoOne
      BY <1>5 DEF Take, IInv, WorkerInv
    <2> QED  BY <1>5, <2>1, <2>2, <2>3, ReviewAssumption DEF Take, file, CoverInv, HasLine
  <1>6. ASSUME NEW w \in Worker, Attempt(w) \/ FailAppend(w)  PROVE CoverInv'
    <2>1. CASE Raise(w)
      BY <1>6, <2>1 DEF Attempt, FailAppend, Raise, CoverInv
    <2>2. CASE UNCHANGED <<pc, waiting, job, raised, log>>
      BY <2>2 DEF CoverInv, HasLine
    <2> QED  BY <1>6, <2>1, <2>2 DEF Attempt, Answered, FailAppend, file
  <1>7. ASSUME NEW w \in Worker, Acquire(w)  PROVE CoverInv'
    BY <1>7 DEF Acquire, CoverInv, HasLine, file
  <1>8. ASSUME NEW w \in Worker, AppendLine(w)  PROVE CoverInv'
    <2>1. /\ pc = "running" /\ step[w] = "write" /\ Written(w, "no") /\ UNCHANGED <<pc, waiting, raised>>
          /\ job' = [job EXCEPT ![w] = NoOne]
      BY <1>8 DEF AppendLine, Leave
    <2>2. \A v \in Worker \ {w} : step[v] # "write"
      BY <2>1 DEF IInv, WorkerInv
    <2>3. log' = [log EXCEPT ![job[w]][kind[w]] = @ + 1]
      BY <2>1, <2>2 DEF Written
    <2>4. job[w] \in Job /\ kind[w] \in Kind /\ \A v \in Worker : v # w => job'[v] = job[v]
      BY <2>1 DEF IInv, TypeOK, WorkerInv
    <2>5. /\ \A i \in Job, k \in Kind : log[i][k] \in Nat /\ log'[i][k] \in Nat /\ log'[i][k] >= log[i][k]
          /\ log'[job[w]][kind[w]] > 0
      BY <2>3, <2>4 DEF IInv, TypeOK
    <2>6. \A i \in Job : i = job[w] \/ HasLine(i) => HasLine(i)'
      BY <2>4, <2>5 DEF HasLine
    <2> QED  BY <2>1, <2>4, <2>6 DEF CoverInv
  <1> QED  BY <1>1, <1>2, <1>3, <1>4, <1>5, <1>6, <1>7, <1>8 DEF Next, Work

\* A pass that ends without an exception has logged every job.
THEOREM CleanEndLogsAll == Spec => []CleanEndCovers
  <1>1. Init => CoverInv
    BY DEF Init, CoverInv
  <1>2. CoverInv => CleanEndCovers
    BY DEF CoverInv, CleanEndCovers, HasLine
  <1> QED  BY <1>1, <1>2, InvHolds, StepCover, PTL DEF Spec

-----------------------------------------------------------------------------
(***************************************************************************)
(* The log implements AnswerCache.                                         *)
(***************************************************************************)
Asking == [j \in Job |-> Cardinality({w \in Worker : job[w] = j})]
OnRecord == {j \in Job : Settled(j)}

LEMMA OneAsks ==
  ASSUME NEW f, NEW j, NEW w \in Worker, f[w] = j, \A v \in Worker : v # w => f[v] # j
  PROVE  Cardinality({v \in Worker : f[v] = j}) = 1
  <1>1. {v \in Worker : f[v] = j} = {w}
    OBVIOUS
  <1> QED  BY <1>1, FS_Singleton

\* A worker that takes a job asks it alone, and asked nothing before.
LEMMA TakeAsks ==
  ASSUME IInv, NEW w \in Worker, Take(w)
  PROVE  \E j \in Job : Asking[j] = 0 /\ j \notin OnRecord
                        /\ Asking' = [Asking EXCEPT ![j] = 1] /\ OnRecord' = OnRecord
  <1>1. PICK j \in waiting : waiting' = waiting \ {j} /\ job' = [job EXCEPT ![w] = j]
    BY DEF Take
  <1>2. /\ j \in Job /\ job[w] = NoOne /\ job'[w] = j /\ log' = log
        /\ \A v \in Worker : v # w => job'[v] = job[v]
    BY <1>1 DEF Take, file, IInv, TypeOK, WorkerInv
  <1>3. \A v \in Worker : job[v] # j
    BY <1>1 DEF IInv, PlacedInv
  <1>4. j \notin OnRecord /\ OnRecord' = OnRecord
    BY <1>1, <1>2 DEF OnRecord, Settled, IInv, SettledInv
  <1>5. Asking[j] = 0
    <2>1. {v \in Worker : job[v] = j} = {}
      BY <1>3
    <2> QED  BY <1>2, <2>1, FS_EmptySet DEF Asking
  <1>6. Cardinality({v \in Worker : job'[v] = j}) = 1
    BY <1>2, <1>3, OneAsks
  <1>7. \A i \in Job : i # j => {v \in Worker : job'[v] = i} = {v \in Worker : job[v] = i}
    BY <1>2, ReviewAssumption
  <1>8. Asking' = [i \in Job |-> IF i = j THEN 1 ELSE Asking[i]]
    BY <1>2, <1>6, <1>7 DEF Asking
  <1>9. Asking' = [Asking EXCEPT ![j] = 1]
    BY <1>8 DEF Asking
  <1> QED  BY <1>2, <1>4, <1>5, <1>9

\* The job in a worker's hand is asked by that worker alone.
LEMMA HandAsks ==
  ASSUME IInv, NEW w \in Worker, step[w] # "idle"
  PROVE  job[w] \in Job /\ Asking[job[w]] = 1
  <1>1. job[w] \in Job /\ NoOne \notin Job
    BY ReviewAssumption DEF IInv, TypeOK, WorkerInv
  <1>2. \A v \in Worker : v # w => job[v] # job[w]
    BY <1>1 DEF IInv, PlacedInv
  <1>3. Cardinality({v \in Worker : job[v] = job[w]}) = 1
    BY <1>2, OneAsks
  <1> QED  BY <1>1, <1>3 DEF Asking

\* A worker that is through with its job was the one that asked it.
LEMMA LeaveAnswers ==
  ASSUME IInv, NEW w \in Worker, step[w] # "idle", Leave(w)
  PROVE  job[w] \in Job /\ Asking[job[w]] = 1 /\ Asking' = [Asking EXCEPT ![job[w]] = 0]
  <1> DEFINE j == job[w]
  <1>1. /\ j \in Job /\ job'[w] = NoOne /\ NoOne \notin Job
        /\ \A v \in Worker : v # w => job'[v] = job[v]
    BY ReviewAssumption DEF Leave, IInv, TypeOK, WorkerInv
  <1>2. \A v \in Worker : v # w => job[v] # j
    BY <1>1 DEF IInv, PlacedInv
  <1>3. Cardinality({v \in Worker : job[v] = j}) = 1
    BY <1>2, OneAsks
  <1>4. Cardinality({v \in Worker : job'[v] = j}) = 0
    <2>1. {v \in Worker : job'[v] = j} = {}
      BY <1>1, <1>2
    <2> QED  BY <2>1, FS_EmptySet
  <1>5. \A i \in Job : i # j => {v \in Worker : job'[v] = i} = {v \in Worker : job[v] = i}
    BY <1>1
  <1>6. Asking' = [i \in Job |-> IF i = j THEN 0 ELSE Asking[i]]
    BY <1>1, <1>4, <1>5 DEF Asking
  <1>7. Asking' = [Asking EXCEPT ![j] = 0]
    BY <1>6 DEF Asking
  <1> QED  BY <1>1, <1>3, <1>7 DEF Asking

\* An entry settles its job, or leaves the record as it was.
LEMMA LoggedRecords ==
  ASSUME IInv, NEW w \in Worker, step[w] # "idle", Logged(w)
  PROVE  OnRecord' = OnRecord \/ OnRecord' = OnRecord \cup {job[w]}
  <1>1. \A i \in Job : i # job[w] => (Settled(i)' <=> Settled(i))
    BY LoggedFacts DEF Settled
  <1>2. job[w] \in Job /\ job[w] \notin OnRecord
    BY LoggedFacts DEF OnRecord
  <1> QED  BY <1>1, <1>2 DEF OnRecord

\* A worker that is through with its job settles it or gives it up.
LEMMA LeaveIsCacheStep ==
  ASSUME IInv, NEW w \in Worker, step[w] # "idle", Leave(w), Logged(w)
  PROVE  Cache!Next
  <1>1. CASE OnRecord' = OnRecord
    BY <1>1, LeaveAnswers DEF Cache!Next, Cache!GiveUp, Asking, OnRecord
  <1>2. CASE OnRecord' = OnRecord \cup {job[w]}
    BY <1>2, LeaveAnswers DEF Cache!Next, Cache!Settle, Asking, OnRecord
  <1> QED  BY <1>1, <1>2, LoggedRecords

\* The passes over the log, killed and started again in any way, are an
\* AnswerCache: a question is asked by one worker at a time, and never again
\* once its answer is on record.
THEOREM ImplementsCache == Spec => CacheSpec
  <1>1. Init => Cache!Init
    <2> SUFFICES ASSUME Init PROVE Cache!Init
      OBVIOUS
    <2>1. \A j \in Job : Cardinality({w \in Worker : job[w] = j}) = 0
      <3>1. \A j \in Job : {w \in Worker : job[w] = j} = {}
        BY ReviewAssumption DEF Init, None
      <3> QED  BY <3>1, FS_EmptySet
    <2>2. OnRecord = {}
      BY ReviewAssumption DEF Init, OnRecord, Settled
    <2> QED  BY <2>1, <2>2 DEF Cache!Init, OnRecord
  <1>2. IInv /\ [Next]_vars => [Cache!Next]_<<Asking, OnRecord>>
    <2> SUFFICES ASSUME IInv, [Next]_vars
                 PROVE  Cache!Next \/ UNCHANGED <<Asking, OnRecord>>
      OBVIOUS
    <2>1. CASE UNCHANGED vars \/ Start \/ Finish
      <3>1. job' = job /\ log' = log
        BY <2>1 DEF vars, proc, file, Start, Finish
      <3> QED  BY <3>1 DEF Asking, OnRecord, Settled
    <2>2. CASE Kill
      <3>1. \A j \in Job : Cardinality({w \in Worker : job'[w] = j}) = 0
        <4>1. \A j \in Job : {w \in Worker : job'[w] = j} = {}
          BY <2>2, ReviewAssumption DEF Kill, None
        <4> QED  BY <4>1, FS_EmptySet
      <3>2. Asking' = [j \in Job |-> 0]
        BY <3>1 DEF Asking
      <3>3. CASE UNCHANGED <<log, flaw>>
        <4>1. OnRecord' = OnRecord
          BY <3>3 DEF OnRecord, Settled
        <4> QED  BY <3>2, <4>1 DEF Cache!Next, Cache!Die, Asking, OnRecord
      <3>4. ASSUME NEW w \in Worker, step[w] = "write", Torn(w) PROVE Cache!Next
        <4>1. Logged(w)
          BY <3>4, WriteFacts
        <4>2. OnRecord' = OnRecord \/ OnRecord' = OnRecord \cup {job[w]}
          BY <3>4, <4>1, LoggedRecords
        <4>3. job[w] \in Job /\ Asking[job[w]] = 1
          BY <3>4, HandAsks
        <4> QED  BY <3>2, <4>2, <4>3 DEF Cache!Next, Cache!Die, Asking, OnRecord
      <3> QED  BY <2>2, <3>3, <3>4 DEF Kill
    <2>3. ASSUME NEW w \in Worker, Take(w) PROVE Cache!Next
      BY <2>3, TakeAsks DEF Cache!Next, Cache!Ask, Asking, OnRecord
    <2>4. ASSUME NEW w \in Worker, AppendLine(w) \/ FailAppend(w) PROVE Cache!Next
      <3>1. step[w] = "write" /\ Leave(w) /\ (Torn(w) \/ Written(w, "no"))
        BY <2>4 DEF AppendLine, FailAppend, Raise
      <3>2. Logged(w)
        BY <3>1, WriteFacts
      <3> QED  BY <3>1, <3>2, LeaveIsCacheStep
    <2>5. ASSUME NEW w \in Worker, Attempt(w) \/ Acquire(w)
          PROVE  Cache!Next \/ UNCHANGED <<Asking, OnRecord>>
      <3>1. log' = log
        BY <2>5 DEF Attempt, Answered, Acquire, file
      <3>2. CASE Raise(w)
        <4>1. step[w] # "idle" /\ Leave(w) /\ Logged(w)
          BY <2>5, <3>1, <3>2 DEF Attempt, Acquire, Raise, Logged
        <4> QED  BY <4>1, LeaveIsCacheStep
      <3>3. CASE job' = job
        BY <3>1, <3>3 DEF Asking, OnRecord, Settled
      <3> QED  BY <2>5, <3>2, <3>3 DEF Attempt, Answered, Acquire
    <2> QED  BY <2>1, <2>2, <2>3, <2>4, <2>5 DEF Next, Work
  <1> QED  BY <1>1, <1>2, InvHolds, PTL DEF Spec, CacheSpec, Cache!Spec, Asking, OnRecord

-----------------------------------------------------------------------------
(***************************************************************************)
(* How a pass comes to its end.                                            *)
(***************************************************************************)
\* The steps a worker may still take before it is idle: the attempts its call has
\* left, then the lock and the line.
Left(w) ==
  CASE step[w] = "call"  -> 2 + (MaxAttempts - tries[w])
    [] step[w] = "lock"  -> 2
    [] step[w] = "write" -> 1
    [] OTHER             -> 0

\* A step of a worker takes a job out of the queue, where no step puts one in, or
\* it brings the worker closer to idle, and it never makes work for another one:
\* retries, refusals and exceptions included.
QueueRunsOut ==
  [][\A w \in Worker : Work(w) =>
       /\ Left(w) \in Nat /\ Left(w)' \in Nat
       /\ \/ \E j \in waiting : waiting' = waiting \ {j}
          \/ waiting' = waiting /\ Left(w)' < Left(w)
       /\ \A v \in Worker \ {w} : Left(v)' = Left(v)]_vars

\* Only the worker that steps moves.
LEMMA WorkIsLocal ==
  ASSUME IInv, NEW w \in Worker, Work(w), NEW v \in Worker, v # w
  PROVE  step'[v] = step[v] /\ tries'[v] = tries[v]
  <1>1. step \in [Worker -> {"idle", "call", "lock", "write"}] /\ tries \in [Worker -> 0..MaxAttempts]
    BY DEF IInv, TypeOK
  <1> QED  BY <1>1 DEF Work, Take, Attempt, Answered, Raise, Leave, Acquire, AppendLine, FailAppend

\* A step that takes no job brings its worker closer to idle.
LEMMA WorkLowers ==
  ASSUME IInv, NEW w \in Worker, Work(w), ~Take(w)
  PROVE  waiting' = waiting /\ Left(w)' < Left(w)
  <1>0. /\ step \in [Worker -> {"idle", "call", "lock", "write"}]
        /\ tries \in [Worker -> 0..MaxAttempts] /\ MaxAttempts \in Nat
        /\ step[w] = "call" => tries[w] < MaxAttempts
    BY ReviewAssumption DEF IInv, TypeOK, WorkerInv
  <1>1. CASE Attempt(w)
    <2>1. /\ step[w] = "call" /\ waiting' = waiting
          /\ tries'[w] = tries[w] + 1
          /\ \/ step'[w] \in {"lock", "idle"}
             \/ step'[w] = "call"
      BY <1>0, <1>1 DEF Attempt, Answered, Raise, Leave
    <2>2. Left(w) = 2 + (MaxAttempts - tries[w]) /\ Left(w) \in Nat /\ Left(w) > 2
      BY <1>0, <2>1 DEF Left
    <2>3. CASE step'[w] = "call"
      <3>1. Left(w)' = 2 + (MaxAttempts - (tries[w] + 1))
        BY <2>1, <2>3 DEF Left
      <3>2. tries[w] \in Int /\ MaxAttempts \in Int
        BY <1>0
      <3> QED  BY <2>1, <2>2, <3>1, <3>2
    <2>4. CASE step'[w] \in {"lock", "idle"}
      <3>1. Left(w)' \in {0, 2}
        BY <2>4 DEF Left
      <3> QED  BY <2>1, <2>2, <3>1
    <2> QED  BY <2>1, <2>3, <2>4
  <1>2. CASE Acquire(w)
    BY <1>0, <1>2 DEF Acquire, Left
  <1>3. CASE AppendLine(w) \/ FailAppend(w)
    BY <1>0, <1>3 DEF AppendLine, FailAppend, Raise, Leave, Left
  <1> QED  BY <1>1, <1>2, <1>3 DEF Work

\* Every step of a pass uses up part of the work the pass began with, whatever
\* the calls and the writes do.
THEOREM PassRunsOutOfWork == Spec => QueueRunsOut
  <1> DEFINE UsesUp ==
        \A w \in Worker : Work(w) =>
          /\ Left(w) \in Nat /\ Left(w)' \in Nat
          /\ \/ \E j \in waiting : waiting' = waiting \ {j}
             \/ waiting' = waiting /\ Left(w)' < Left(w)
          /\ \A v \in Worker \ {w} : Left(v)' = Left(v)
  <1>1. ASSUME IInv, IInv' PROVE UsesUp
    <2> SUFFICES ASSUME NEW w \in Worker, Work(w)
                 PROVE  /\ Left(w) \in Nat /\ Left(w)' \in Nat
                        /\ \/ \E j \in waiting : waiting' = waiting \ {j}
                           \/ waiting' = waiting /\ Left(w)' < Left(w)
                        /\ \A v \in Worker \ {w} : Left(v)' = Left(v)
      OBVIOUS
    <2>1. Left(w) \in Nat
      BY <1>1, ReviewAssumption DEF IInv, TypeOK, Left
    <2>2. Left(w)' \in Nat
      BY <1>1, ReviewAssumption DEF IInv, TypeOK, Left
    <2>3. \/ \E j \in waiting : waiting' = waiting \ {j}
          \/ waiting' = waiting /\ Left(w)' < Left(w)
      BY <1>1, WorkLowers DEF Take
    <2>4. \A v \in Worker \ {w} : Left(v)' = Left(v)
      BY <1>1, WorkIsLocal DEF Left
    <2> QED  BY <2>1, <2>2, <2>3, <2>4
  <1>2. IInv /\ IInv' => [UsesUp]_vars
    BY <1>1
  <1> QED  BY <1>2, InvHolds, PTL DEF QueueRunsOut

\* The guards of a worker's steps.
CanWork(w) ==
  \/ step[w] = "idle" /\ waiting # {}
  \/ step[w] = "lock" /\ lock = NoOne
  \/ step[w] \in {"call", "write"}

\* While a pass runs it can finish or some worker can go on: nobody waits for a
\* lock that is not coming back, after failed writes too.
SomebodyCanWork ==
  pc = "running" => (waiting = {} /\ step = Idle) \/ \E w \in Worker : CanWork(w)

\* The lock is held by a worker that is writing.
LockInv == lock # NoOne => lock \in Worker /\ step[lock] = "write"

LEMMA LockStep == ASSUME IInv, LockInv, [Next]_vars PROVE LockInv'
  <1>0. step \in [Worker -> {"idle", "call", "lock", "write"}] /\ NoOne \notin Worker
    BY ReviewAssumption DEF IInv, TypeOK
  <1>1. CASE Start \/ Finish \/ Kill \/ UNCHANGED vars
    BY <1>1 DEF Start, Finish, Kill, vars, proc, LockInv
  <1>2. ASSUME NEW w \in Worker, Work(w) PROVE LockInv'
    <2>1. CASE Acquire(w)
      BY <1>0, <2>1 DEF Acquire, LockInv
    <2>2. CASE AppendLine(w) \/ FailAppend(w)
      BY <2>2 DEF AppendLine, FailAppend, LockInv
    <2>3. CASE Take(w) \/ Attempt(w)
      <3>1. lock' = lock /\ step[w] # "write"
        BY <2>3 DEF Take, Attempt, Answered
      <3> QED  BY <1>2, <3>1, WorkIsLocal DEF LockInv
    <2> QED  BY <1>2, <2>1, <2>2, <2>3 DEF Work
  <1> QED  BY <1>1, <1>2 DEF Next

\* With a worker in the pool, no pass is ever stuck.
THEOREM NoWorkerStuck == ASSUME Worker # {} PROVE Spec => []SomebodyCanWork
  <1>1. Init => LockInv
    BY DEF Init, LockInv
  <1>2. ASSUME IInv, LockInv PROVE SomebodyCanWork
    <2>1. step \in [Worker -> {"idle", "call", "lock", "write"}]
      BY <1>2 DEF IInv, TypeOK
    <2>2. CASE \A w \in Worker : step[w] = "idle"
      <3>1. step = Idle
        BY <2>1, <2>2 DEF Idle
      <3> QED  BY <2>2, <3>1 DEF SomebodyCanWork, CanWork
    <2>3. CASE \E w \in Worker : step[w] # "idle"
      <3>1. PICK w \in Worker : step[w] \in {"call", "lock", "write"}
        BY <2>1, <2>3
      <3>2. CASE lock = NoOne
        BY <3>1, <3>2 DEF SomebodyCanWork, CanWork
      <3>3. CASE lock # NoOne
        BY <1>2, <3>3 DEF LockInv, SomebodyCanWork, CanWork
      <3> QED  BY <3>2, <3>3
    <2> QED  BY <2>2, <2>3
  <1> QED  BY <1>1, <1>2, InvHolds, LockStep, PTL DEF Spec

=============================================================================
