CONSTANTS
  Day = 1
  Month = 2
  NSim = 5
  CloseBootstrap = 3
  InitialStability = 20
  InitialReturn <- MCInitialReturn
  NaturalRate = 20
  LiqDebts <- MCLiqDebts
  LiqCRs <- MCLiqCRs
  NECTPrices <- MCNECTPrices
  PollenPath <- MCPollenPath
  PollenValues <- MCPollenValues
  Airdrop = 1
  StabilityGrowth <- MCStabilityGrowth
  NaN = NaN
  Inf = Inf
  NegInf = NegInf
SPECIFICATION Spec
INVARIANT TypeOK
INVARIANT UndefinedRowIsLast
