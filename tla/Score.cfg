SPECIFICATION Spec
CONSTANTS
  Worker = {w1}
  Api = api
  Metrics <- AllRates
  Window = 3
  Patience = 6
INVARIANTS NeverTooRosy NoFlapping ScoreSettles
