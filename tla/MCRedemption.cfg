CONSTANTS
  Debts <- MCDebts
  MaxLen <- MCMaxLen
SPECIFICATION Spec
INVARIANT TypeOK
INVARIANT WalkMatchesRanking
