CONSTANTS
  s1 = s1
  b1 = b1
  b2 = b2
  shm = shm
  o1 = o1
  o2 = o2
  f1 = f1
  None = None
  Surfaces <- MCSurfaces
  Buffers <- MCBuffers
  Copied <- MCCopied
  Outputs <- MCOutputs
  Feedbacks <- MCFeedbacks
SPECIFICATION Spec
INVARIANT PresentedWasPainted
PROPERTIES BuffersKept ReleasedOnce

SYMMETRY Symmetry
