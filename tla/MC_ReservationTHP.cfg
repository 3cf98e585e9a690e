\* Allocation stops when the application has mapped every page or an
\* allocation returned -1: the allocator is passive, so a final state with
\* no enabled request is a real end, not a deadlock.
CONSTANTS
  c1 = c1
  c2 = c2
  r1 = r1
  r2 = r2
  Chunks <- MC_Chunks
  VRegions <- MC_VRegions
  SubPages = 4
  ThresholdNum = 1
  ThresholdDen = 2
  MaxDirect = 1
  MaxFragmented = 1
SYMMETRY MC_Symmetry
SPECIFICATION Spec
CHECK_DEADLOCK FALSE
INVARIANTS
  TypeOK
  FrameAccounting
PROPERTIES
  RefinesPhysicalMemory
