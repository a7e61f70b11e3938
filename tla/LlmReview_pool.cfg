\* llm_review: two workers, two jobs, started up to three times.
SPECIFICATION FairSpec
CONSTANTS
  Job = {j1, j2}
  Worker = {w1, w2}
  NoOne = NoOne
  Settling = {"parsed"}
  MaxAttempts = 2
  MaxStarts = 3
INVARIANTS AnsweredOnce LinesKeptApart CleanEndCovers
PROPERTIES CacheSpec PassEnds
CHECK_DEADLOCK FALSE
