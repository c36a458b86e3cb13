\* A container like RMBG and one like RealESRGAN, whose inits may succeed or
\* fail each time.  After the process is gone or App is deinited nothing is
\* left to do.
SPECIFICATION Spec
CONSTANTS
  Workers = {w1, w2}
  Containers = {rmbg, realesrgan}
  Unknown = unknown
  Early = {realesrgan}
  MaxCalls = 2
SYMMETRY ServiceSymmetry
INVARIANTS ServiceInv ProcessesOnUsableModel ReadyIsServed SettledIsReady
CHECK_DEADLOCK FALSE
