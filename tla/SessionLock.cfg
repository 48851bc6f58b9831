CONSTANTS
  Locks = {l1, l2}
  Outputs = {o1, o2}
  NoLock = NoLock
SPECIFICATION Spec
SYMMETRY Symmetric
INVARIANTS NormalContentHidden DisplayedWhenGranted
PROPERTIES AnswerComing UnlockedByHolder
