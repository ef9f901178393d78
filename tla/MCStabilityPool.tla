--------------------------- MODULE MCStabilityPool ---------------------------
(* Model-checking instance of StabilityPool.  Day = 1 and Month = 2 with   *)
(* four simulated steps reach all three branches of the return rate        *)
(* (initial, day window, month window) and a step after each.  The         *)
(* liquidated debt 10 against a pool of 20 at CR 0.90 or 1.05, with NECT   *)
(* at 1.00 or 1.10, gives gains of both signs.  The cfg's CloseBootstrap  *)
(* = 3 lets a NaN of row 2 reach open_troves and one of row 3 fault in     *)
(* close_troves.                                                           *)
EXTENDS StabilityPool

MCInitialReturn == <<1, 5>>      \* initial_return = 0.2
MCLiqDebts == {0, 10}
MCLiqCRs == {90, 105}
MCNECTPrices == {100, 110}
MCPollenPath == {1}
MCPollenValues == {0, 1}
MCStabilityGrowth == {100, 110}
=============================================================================
