\* An inquiry and three images, two workers, a ring of two, a window of three; the
\* process ends once.  When every request is settled nothing is left to do.
SPECIFICATION Spec
CONSTANTS
  ping = ping  info = info  img1 = img1  img2 = img2  bad = bad  odd = odd
  Messages = {info, img1, img2, odd}
  Queue <- ImageQueue
  Body <- ImageBody
  Workers = {w1, w2}
  Prefetch = 3
  QueueSize = 2
  MaxProgress = 1
  MaxExits = 1
  None = None
INVARIANTS TransportInv FinalIsLast OnlyFailuresLeak
CHECK_DEADLOCK FALSE
