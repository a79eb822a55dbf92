\* Two overlapping calls for every pair of jobs, over old files or none.
CONSTANTS
  Calls = {c1, c2}
  Jobs <- SomeJobs
  Size <- Sizes
  Stale <- Leftovers
SPECIFICATION Spec
INVARIANTS
  ExportedWhole
  NoGaps
