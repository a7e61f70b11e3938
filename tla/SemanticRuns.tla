---------------------------- MODULE SemanticRuns ----------------------------
(***************************************************************************)
(* The semantic judgements of the patches on disk and the programs that    *)
(* make them: semantic.py (NRuns guarded calls per patch, one row each,    *)
(* then the summary table and the detail file), the retries of             *)
(* llm_client.send, and rerun_failed_semantic.py, which re-issues the      *)
(* calls that failed.  One program runs at a time and may be killed at any *)
(* point.                                                                  *)
(***************************************************************************)
EXTENDS Integers, FiniteSets

CONSTANTS
  Patch,
  NRuns,       \* SEMANTIC_RUNS_PER_PATCH
  MaxRetries,  \* max_retries of send
  MaxSessions  \* bound: programs started

Run == 1..NRuns

\* What went wrong with an attempt: send tries the first again, as often as it
\* may, and returns the others at once.  "connection" stands for a rate limit
\* as well, which every program treats alike.
Transient == {"connection", "server"}
Refused   == {"billing", "client"}
ApiError  == Transient \cup Refused

\* A run's row: a judgement, an answer that does not parse, or an error.
Row == {"good", "parse"} \cup ApiError

ASSUME SemanticAssumption ==
  NRuns \in Nat /\ MaxRetries \in Nat \ {0} /\ MaxSessions \in Nat

\* error_class, from the text of the error: that of an InternalServerError or of
\* a 4xx other than the credit balance names none of the three.  A time-out is
\* a connection or a server error here, by its wording.
ErrorClass(row) ==
  CASE row = "good" -> "ok"
    [] row \in {"server", "client"} -> "other"
    [] OTHER -> row

Rerunnable == {"billing", "connection"}

VARIABLES
  pc,        \* "idle", "send", "table", "between", "detail", "scan"; "ended" or "raised" afterwards
  mode,      \* "evaluate" (semantic.py) or "rerun"
  sessions,
  todo,      \* rerun: the detail files not read yet
  patch, rows, plan, tries,  \* the patch, its rows, the runs to issue, the attempts of the current one
  copy,      \* the table as it is rewritten
  table,     \* semantic_results.csv: n_parsed of each patch, or -1 without a row
  detail,    \* semantic_runs/: the rows of each patch; none, or a file cut short
  issued,    \* the calls this session made
  spoiled    \* was a program ever killed inside _write_result?

memory == <<mode, todo, patch, rows, plan, tries, copy>>
vars   == <<pc, memory, sessions, table, detail, issued, spoiled>>

NoRow  == -1
\* A run that was not issued yet is blank; a file that is not there has blank
\* runs.
Blank  == [i \in Run |-> "good"]
Absent == [kind |-> "absent", rows |-> Blank]
CutOff == [kind |-> "cut", rows |-> Blank]
File(r) == [kind |-> "file", rows |-> r]

NParsed(r) == Cardinality({i \in Run : r[i] = "good"})

Init ==
  /\ pc = "idle" /\ mode = "evaluate" /\ sessions = 0 /\ todo = {} /\ patch \in Patch
  /\ rows = Blank /\ plan = {} /\ tries = 0
  /\ copy = [p \in Patch |-> NoRow] /\ table = copy
  /\ detail = [p \in Patch |-> Absent] /\ issued = {} /\ spoiled = FALSE

Resting == pc \in {"idle", "ended", "raised"}

-----------------------------------------------------------------------------
\* run_semantic of one patch: every run is to be issued.
Evaluate(p) ==
  /\ Resting /\ sessions < MaxSessions /\ sessions' = sessions + 1
  /\ mode' = "evaluate" /\ pc' = "send" /\ patch' = p /\ rows' = Blank
  /\ plan' = Run /\ tries' = 0 /\ issued' = {}
  /\ UNCHANGED <<todo, copy, table, detail, spoiled>>

\* main of rerun_failed_semantic: every detail file in turn.
Rerun ==
  /\ Resting /\ sessions < MaxSessions /\ sessions' = sessions + 1
  /\ mode' = "rerun" /\ pc' = "scan" /\ issued' = {}
  /\ todo' = {p \in Patch : detail[p].kind # "absent"}
  /\ UNCHANGED <<patch, rows, plan, tries, copy, table, detail, spoiled>>

\* Mutants of Scan: what does not parse is re-issued too; billing is not.
ScanParseFailures(p) ==
  /\ pc = "scan" /\ p \in todo /\ todo' = todo \ {p}
  /\ IF detail[p].kind = "cut" THEN pc' = "raised" /\ UNCHANGED <<patch, rows, plan, tries>>
     ELSE /\ patch' = p /\ rows' = detail[p].rows /\ tries' = 0
          /\ plan' = {i \in Run : ErrorClass(rows'[i]) \in Rerunnable \cup {"parse"}}
          /\ pc' = IF plan' = {} THEN "scan" ELSE "send"
  /\ UNCHANGED <<mode, sessions, copy, table, detail, issued, spoiled>>

ScanAllButBilling(p) ==
  /\ pc = "scan" /\ p \in todo /\ todo' = todo \ {p}
  /\ IF detail[p].kind = "cut" THEN pc' = "raised" /\ UNCHANGED <<patch, rows, plan, tries>>
     ELSE /\ patch' = p /\ rows' = detail[p].rows /\ tries' = 0
          /\ plan' = {i \in Run : ErrorClass(rows'[i]) \in Rerunnable \ {"billing"}}
          /\ pc' = IF plan' = {} THEN "scan" ELSE "send"
  /\ UNCHANGED <<mode, sessions, copy, table, detail, issued, spoiled>>

\* process_file: a file that is not JSON raises; one without failed calls is
\* left alone.
Scan(p) ==
  /\ pc = "scan" /\ p \in todo /\ todo' = todo \ {p}
  /\ IF detail[p].kind = "cut" THEN pc' = "raised" /\ UNCHANGED <<patch, rows, plan, tries>>
     ELSE /\ patch' = p /\ rows' = detail[p].rows /\ tries' = 0
          /\ plan' = {i \in Run : ErrorClass(rows'[i]) \in Rerunnable}
          /\ pc' = IF plan' = {} THEN "scan" ELSE "send"
  /\ UNCHANGED <<mode, sessions, copy, table, detail, issued, spoiled>>

EndScan ==
  /\ pc = "scan" /\ todo = {} /\ pc' = "ended"
  /\ UNCHANGED <<memory, sessions, table, detail, issued, spoiled>>

Sender == {i \in plan : \A j \in plan : i <= j}

\* The row of run i.
Answered(i, row) ==
  /\ rows' = [rows EXCEPT ![i] = row] /\ plan' = plan \ {i} /\ tries' = 0
  /\ issued' = issued \cup {<<patch, i>>}
  /\ UNCHANGED <<pc, mode, sessions, todo, patch, copy, table, detail, spoiled>>

\* Mutant of Send: the attempts are not bounded.
SendUnbounded ==
  /\ pc = "send"
  /\ \E i \in Sender :
       \/ \E row \in {"good", "parse"} \cup Refused : Answered(i, row)
       \/ /\ tries' = (tries + 1) % MaxRetries
          /\ UNCHANGED <<pc, mode, sessions, todo, patch, rows, plan, copy, table, detail, issued, spoiled>>

\* One attempt of send for the next run: an answer, a refusal, an error that
\* is tried again or, after the last attempt, given up; an answer whose
\* judgement is not one of the two raises out of the program.
Send ==
  /\ pc = "send"
  /\ \E i \in Sender :
       \/ \E row \in {"good", "parse"} \cup Refused : Answered(i, row)
       \/ /\ tries + 1 < MaxRetries /\ tries' = tries + 1
          /\ UNCHANGED <<pc, mode, sessions, todo, patch, rows, plan, copy, table, detail, issued, spoiled>>
       \/ tries + 1 = MaxRetries /\ \E row \in Transient : Answered(i, row)
       \/ /\ pc' = "raised"
          /\ UNCHANGED <<memory, sessions, table, detail, issued, spoiled>>

\* _write_result: the table is read and truncated, written with the new row,
\* and then the detail file likewise.
BeginTable ==
  /\ pc = "send" /\ plan = {} /\ pc' = "table"
  /\ copy' = [table EXCEPT ![patch] = NParsed(rows)]
  /\ table' = [p \in Patch |-> NoRow]
  /\ UNCHANGED <<mode, todo, patch, rows, plan, tries, sessions, detail, issued, spoiled>>

\* Mutant of EndTable: only the new row is written.
EndTableForgetting ==
  /\ pc = "table" /\ pc' = "between" /\ table' = [table EXCEPT ![patch] = copy[patch]]
  /\ UNCHANGED <<memory, sessions, detail, issued, spoiled>>

EndTable ==
  /\ pc = "table" /\ pc' = "between" /\ table' = copy
  /\ UNCHANGED <<memory, sessions, detail, issued, spoiled>>

BeginDetail ==
  /\ pc = "between" /\ pc' = "detail" /\ detail' = [detail EXCEPT ![patch] = CutOff]
  /\ UNCHANGED <<memory, sessions, table, issued, spoiled>>

EndDetail ==
  /\ pc = "detail" /\ detail' = [detail EXCEPT ![patch] = File(rows)]
  /\ pc' = IF mode = "rerun" THEN "scan" ELSE "ended"
  /\ UNCHANGED <<memory, sessions, table, issued, spoiled>>

Kill ==
  /\ ~Resting /\ pc' = "idle" /\ spoiled' = (spoiled \/ pc \in {"table", "between", "detail"})
  /\ UNCHANGED <<memory, sessions, table, detail, issued>>

Step == EndScan \/ Send \/ BeginTable \/ EndTable \/ BeginDetail \/ EndDetail
          \/ \E p \in Patch : Scan(p)

Next == Step \/ Rerun \/ Kill \/ \E p \in Patch : Evaluate(p)

Spec == Init /\ [][Next]_vars

\* A program that runs keeps running; nobody has to start or kill one.
FairSpec == Spec /\ WF_vars(Step)

-----------------------------------------------------------------------------
\* Every variable stays in its type.
TypeOK ==
  /\ pc \in {"idle", "send", "table", "between", "detail", "scan", "ended", "raised"}
  /\ mode \in {"evaluate", "rerun"} /\ sessions \in 0..MaxSessions /\ todo \subseteq Patch
  /\ patch \in Patch /\ rows \in [Run -> Row] /\ plan \subseteq Run /\ tries \in 0..(MaxRetries - 1)
  /\ copy \in [Patch -> Nat \cup {NoRow}] /\ table \in [Patch -> Nat \cup {NoRow}]
  /\ detail \in [Patch -> [kind : {"absent", "cut", "file"}, rows : [Run -> Row]]]
  /\ issued \subseteq Patch \X Run /\ spoiled \in BOOLEAN

\* "Successful runs already on disk are the cache -- they are reused, never
\* re-issued"; "genuine parse failures are NOT rerun" (lines 3-5 of
\* rerun_failed_semantic.py): what a rerun holds and writes of the patch in
\* hand is, for those runs, what the disk had.
RerunReuses ==
  mode = "rerun" /\ pc \in {"send", "table", "between"} =>
    \A i \in Run : ErrorClass(detail[patch].rows[i]) \in {"ok", "parse"} =>
      rows[i] = detail[patch].rows[i] /\ <<patch, i>> \notin issued

\* A rerun that ends has re-issued every failed call it set out to re-issue:
\* those that still stand failed did so again.
PassCovers ==
  pc = "ended" /\ mode = "rerun" =>
    \A p \in Patch, i \in Run :
      detail[p].kind = "file" /\ ErrorClass(detail[p].rows[i]) \in Rerunnable => <<p, i>> \in issued

\* Until a program is killed inside _write_result the table and the detail
\* files agree, although they are rewritten one after the other and a program
\* may stop by an exception or a kill anywhere else.
TableAgrees ==
  ~spoiled /\ pc \notin {"table", "between", "detail"} =>
    \A p \in Patch :
      table[p] = IF detail[p].kind = "absent" THEN NoRow ELSE NParsed(detail[p].rows)

\* Every program that is not killed ends, whatever the service answers.
SessionEnds == ~Resting ~> Resting
=============================================================================
