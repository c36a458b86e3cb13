\* One idle worker and no task are enough for the destructor to hang.
SPECIFICATION FairSpec
CONSTANTS
  Workers = {w1, w2}
  Tasks = {t1}
  Size = 2
  None = None
PROPERTY DestructorFinishes
CHECK_DEADLOCK FALSE
