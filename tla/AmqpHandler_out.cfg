\* The loop, the heartbeater and two workers, one call each.  A closed
\* connection stops.
SPECIFICATION Spec
CONSTANTS
  Net = net
  Heartbeater = hb
  Workers = {w1, w2}
  None = None
  Capacity = 1
  MaxCalls = 1
SYMMETRY WorkerSymmetry
INVARIANTS HandlerInv FramesInOrder NeverFull NoDeadlock ResponsesNotMixed
CHECK_DEADLOCK FALSE
