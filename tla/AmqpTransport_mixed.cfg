\* Pings of every kind and two images, one worker.  When every request is
\* settled nothing is left to do.
SPECIFICATION FairSpec
CONSTANTS
  ping = ping  info = info  img1 = img1  img2 = img2  bad = bad  odd = odd
  Messages = {ping, odd, bad, img1, img2}
  Queue <- MixedQueue
  Body <- MixedBody
  Workers = {w1}
  Prefetch = 2
  QueueSize = 2
  MaxProgress = 1
  MaxExits = 1
  None = None
INVARIANT AckedWasAnswered
PROPERTY DoneIsSettled
CHECK_DEADLOCK FALSE
