SPECIFICATION Spec
CONSTANTS
  Process = {p1}
  Scope <- Scopes
  MaxAttempts = 2
  WindowTicks = 1
  LockoutTicks = 2
  Request = {r1, r2}
  MaxPairs = 3
  NoPair = NoPair
  NoReply = NoReply
  NoProcess = NoProcess
INVARIANTS AttemptsAreLimited SessionContinues ExchangedOnce
PROPERTY LockoutRunsItsTime
SYMMETRY Slots
