SPECIFICATION FairSpec
CONSTANTS
  m1 = m1
  m2 = m2
  Task = {t1, t2}
  Message = {m1, m2}
  Parts <- PlainParts
  MaxRetries = 1
  MaxAdverse = 1
  NoTask = NoTask
  NoMessage = NoMessage
PROPERTIES EveryMailCollected
