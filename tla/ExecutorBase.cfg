SPECIFICATION FairSpec
CONSTANTS
  Threads = {t1, t2}
  Slots = {s1, s2}
  Values = {v1, v2}
  MaxIds = 3
  MaxOperands = 2
  NoSlot = NoSlot
  NoValue = NoValue
INVARIANTS
  HandlesMatchTable
  OperandsFaithful
  LivesWhileReferenced
PROPERTIES
  IdsNotReused
  DroppedIsDestroyed
