\* Three jobs, the first one prefetched, two permits, two workers, with a pager.
SPECIFICATION FairSpec
CONSTANTS
  NumJobs = 3
  Workers = {w1, w2}
  MaxInFlight = 2
  Prefetched <- FirstJob
  HasPager = TRUE
INVARIANTS
  PermitsConserved
  NoBlockedSend
  PrintedInOrder
  ReportExact
  MemoryBounded
PROPERTIES
  ImplementsPromise
  DoneIsFinal
  Termination
