\* When every request is acknowledged or the process is down nothing is left to do.
SPECIFICATION Spec
CONSTANTS
  r1 = r1
  r2 = r2
  photo = photo
  None = none
  Workers = {w1, w2}
  Clients = {c1, c2}
  Images <- MCImages
  Requests <- MCRequests
  imageId <- MCImageId
  Format <- MCFormat
  Types = {"png", "jpg"}
  Holders <- MCHolders
  NoCodec = nocodec
  Chunks = 2
  MaxExits = 1
INVARIANTS JobsInv LossNeedsFailure DoneIsInStore AppliedOnce
PROPERTY LendsToOne
CHECK_DEADLOCK FALSE
