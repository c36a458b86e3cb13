\* Two workers on two cells, with three tasks: posts are refused, cells are busy,
\* and the pool is destroyed at any point.  The destroyed pool stops.
SPECIFICATION FairSpec
CONSTANTS
  Workers = {w1, w2}
  Tasks = {t1, t2, t3}
  Size = 2
  None = None
INVARIANTS PoolInv NothingLost CalledAgainOnlyByStop OutstandingBounded
PROPERTIES TakenWhileAwake DestroyedUnlessRaced
CHECK_DEADLOCK FALSE
