\* Six blocks: the smallest pool in which the scan can skip a run of blocks in
\* use, wrap round, and stop in the middle.
CONSTANT NumElems = 6
SPECIFICATION PoolSpec
INVARIANTS PoolTypeOK NextIsFree OutOfSpaceOnlyWhenFull
\* "Memory Pool out of space" ends the process.
CHECK_DEADLOCK FALSE
