CONSTANTS
  a = a
  b = b
  s1 = s1
  t1 = t1
  p1 = p1
  p2 = p2
  q1 = q1
  k1 = k1
  k2 = k2
  f1 = f1
  f2 = f2
  None = None
  Surfaces <- MCSurfaces
  Clients <- MCClients
  Owner <- MCOwner
  Pointers <- MCPointers
  PointerClient <- MCPointerClient
  Swipes <- MCSwipes
  Constraints <- MCConstraints
  Requester <- MCRequester
  Fingers <- MCFingers
SYMMETRY MCSymmetry
SPECIFICATION Spec
CONSTRAINT OneUse
INVARIANTS ToldOfFocus ConstraintsOfFocus InputOfLock TouchIsEnded
PROPERTIES HeldKeepsFocus
