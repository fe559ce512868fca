SPECIFICATION FairSpec
CONSTANTS
  m1 = m1
  m2 = m2
  Task = {t1, t2}
  Message = {m2}
  Parts <- PoisonParts
  MaxRetries = 1
  MaxAdverse = 2
  NoTask = NoTask
  NoMessage = NoMessage
PROPERTIES TaskTerminates EveryMailTakenUp ImplementsCollectedMail
