CONSTANTS
  IBGTPrices <- MCIBGTPrices
  InitialIBGTPrice <- MCInitialIBGTPrice
  CollUnits <- MCCollUnits
  OpenDebts <- MCOpenDebts
  OpenCRs <- MCOpenCRs
  Inattentions <- MCInattentions
  InitialOpen <- MCInitialOpen
  NSim <- MCNSim
  RateIssuance = 1
  RateRedemption = 1
  CloseBootstrap = 1
  SteadyDraws <- MCSteadyDraws
  Beta = 20
  Alpha = 30
  Delta <- MCDelta
  RedemptionStar = 80
  StabilityGrowth <- MCStabilityGrowth
SPECIFICATION Spec
CONSTRAINT LedgerBound
INVARIANT CloseNeverFaults
