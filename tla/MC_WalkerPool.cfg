\* Two walkers; misses at t = 0 (the design's burst example of three
\* requests, extended to five) and at t = 5 and 20, so that requests reach
\* the pool out of time order and after a slot has freed.
CONSTANTS
  MaxWalkers = 2
  IssueTimes = {0, 5, 20}
  WalkLatencies = {10}
  FaultLatency = 5
  MaxWalks = 5
SPECIFICATION Spec
\* The walks of one behaviour are bounded by MaxWalks; the pool itself
\* never blocks a request.
CHECK_DEADLOCK FALSE
INVARIANTS
  TypeOK
  WalkersWithinCapacity
