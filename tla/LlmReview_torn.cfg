\* A kill while a line is written.
SPECIFICATION Spec
CONSTANTS
  Job = {j1, j2}
  Worker = {w1, w2}
  NoOne = NoOne
  Settling = {"parsed"}
  MaxAttempts = 2
  MaxStarts = 2
INVARIANTS RerunResumes
CHECK_DEADLOCK FALSE
