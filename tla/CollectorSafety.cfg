SPECIFICATION Spec
CONSTANTS
  m1 = m1
  m2 = m2
  Task = {t1, t2}
  Message = {m1, m2}
  Parts <- MixedParts
  MaxRetries = 0
  MaxAdverse = 2
  NoTask = NoTask
  NoMessage = NoMessage
INVARIANTS TypeOK MessageExclusive AtMostOnceParse NoOverlapUntilOutlived NoLossWithoutFailure
PROPERTY ImplementsCollectedMail
SYMMETRY TaskSymmetry
