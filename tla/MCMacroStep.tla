----------------------------- MODULE MCMacroStep -----------------------------
(* Model-checking instance of MacroStep.  Two iBGT prices 2 and 3 move     *)
(* every ratio by a factor 3/2 or 2/3, enough to liquidate a CR 1.5 trove  *)
(* and to push a CR 2.0 trove past both Adjust thresholds; debts 10 and    *)
(* 40 make both cases of the floor branch reachable.                      *)
EXTENDS MacroStep

MCIBGTPrices == {2, 3}
MCInitialIBGTPrice == 2
MCCollUnits == 60
MCOpenDebts == {10, 40}
MCOpenCRs == {15, 20}
MCInattentions == {2}
MCInitialOpen == 2
MCNSim == 3
MCSteadyDraws == {0, 100}
MCDelta == -3
MCStabilityGrowth == {90, 100, 110}

(* The ledger is unbounded in the code; the model explores it up to       *)
(* MaxTroves troves.                                                       *)
MaxTroves == 3
LedgerBound == Len(troves) <= MaxTroves
=============================================================================
