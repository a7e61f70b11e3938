--------------------------- MODULE MCOracleRunner ---------------------------
(***************************************************************************)
(* Instances of OracleRunner for TLC.                                      *)
(***************************************************************************)
EXTENDS OracleRunner

Steady     == {{}, {"PASS"}, {"FAIL"}, {"TIMEOUT"}}
Any        == [named : {TRUE}, exported : BOOLEAN, does : [Tree -> SUBSET Outcome]]
Unnamed    == [named : {FALSE}, exported : {TRUE}, does : [Tree -> {{}}]]
SteadyTest == [named : {TRUE}, exported : {TRUE}, does : [Tree -> Steady]]

\* Any two tests that do the same each time they run, and a test of any kind
\* followed by one that a fix passes and the bug fails.
Revealing == [named |-> TRUE, exported |-> TRUE, does |-> [t \in Tree |-> IF t = "buggy" THEN {"FAIL"} ELSE {"PASS"}]]
MCSuites  == [Test -> SteadyTest] \cup {<<t, Revealing>> : t \in Any \cup Unnamed}
=============================================================================
