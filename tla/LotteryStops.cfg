SPECIFICATION SimsSpec
CHECK_DEADLOCK FALSE
CONSTANTS
  Simulations <- MCSimulations
  Inputs <- MCInputs
INVARIANT LotteryRunsOut
