----------------------------- MODULE MCPolicyRun -----------------------------
(* Model-checking instance of PolicyRun: the bounds of MCMacroStep, but    *)
(* the iBGT path starts at 3, so that the first step can already drop it  *)
(* to 2, liquidate, close the rest of the ledger and redeem, and the      *)
(* second step runs with the base rate that redemption fed back.          *)
EXTENDS PolicyRun

MCIBGTPrices == {2, 3}
MCInitialIBGTPrice == 3
MCCollUnits == 60
MCOpenDebts == {10, 40}
MCOpenCRs == {15, 20}
MCInattentions == {2}
MCInitialOpen == 2
MCNSim == 3
MCSteadyDraws == {0, 100}
MCDelta == -3
MCStabilityGrowth == {90, 100, 110}

MaxTroves == 3
LedgerBound == Len(troves) <= MaxTroves
=============================================================================
