------------------------------ MODULE PolicyRun ------------------------------
(***************************************************************************)
(* The policy simulation of macro_model.py (lines 645-741): the driver     *)
(* loop of MacroStep run again on a fresh ledger, except that each step    *)
(* first sets the globals rate_issuance and rate_redemption to a base      *)
(* rate fed back from the last record's redemption pool (lines 670-673).   *)
(* Every function of the pipeline reads those globals, so the step is      *)
(* MacroStep's, with its rate variables rewritten when a step starts.      *)
(*                                                                         *)
(* The base rate is kept in hundredths like MacroStep's fee rates; the     *)
(* feedback formula is rational, and the model takes its floor or its      *)
(* ceiling.                                                                *)
(***************************************************************************)
EXTENDS Integers, Sequences

CONSTANTS
  IBGTPrices, InitialIBGTPrice, CollUnits, OpenDebts, OpenCRs, Inattentions,
  InitialOpen, NSim, RateIssuance, RateRedemption, CloseBootstrap,
  SteadyDraws, Beta, Alpha, Delta, RedemptionStar, StabilityGrowth,
  BaseRateInitial    \* base_rate_initial, hundredths

ASSUME BaseRateInitial \in Nat

VARIABLES
  troves, pIBGT, index, pc, last, cur, redeemed, rateIssuance, rateRedemption,
  baseRate  \* base_rate of the last record (data2.loc[index-1,'base_rate'])

vars == <<troves, pIBGT, index, pc, last, cur, redeemed, rateIssuance,
          rateRedemption, baseRate>>

S == INSTANCE MacroStep

(* Mutant: the feedback term subtracted instead of added.                 *)
BaseRatesSignSlip ==
  LET num == 98 * baseRate * S!Supply - 5000 * last.redemption_pool
      den == 100 * S!Supply
  IN {num \div den, S!CeilDiv(num, den)}

(* Line 671: 0.98 * base_rate + 0.5 * redemption_pool / supply, where      *)
(* supply is the debt of the ledger the previous step left; in hundredths. *)
BaseRates ==
  LET num == 98 * baseRate * S!Supply + 5000 * last.redemption_pool
      den == 100 * S!Supply
  IN {num \div den, S!CeilDiv(num, den)}

(* Lines 646-660: step 0 as in the fixed run, plus base_rate_initial; the  *)
(* globals still hold the values of lines 22-23.                           *)
Init == S!Init /\ baseRate = BaseRateInitial

(* Lines 663-681: both globals are set to the new base rate, then          *)
(* liquidate_troves runs.  With an empty ledger line 671 divides by zero   *)
(* (numpy yields inf or nan); the model has no successor there, and        *)
(* BaseRateDefined rejects the state.                                      *)
Liquidate ==
  /\ pc = "liquidate"
  /\ S!Supply > 0
  /\ \E r \in BaseRates :
       /\ baseRate' = r /\ rateIssuance' = r /\ rateRedemption' = r
  /\ S!Liquidate

(* Lines 684-741: the rest of the step, with the rates just set.           *)
Close == S!Close /\ UNCHANGED <<rateIssuance, rateRedemption, baseRate>>
Adjust == S!Adjust /\ UNCHANGED <<rateIssuance, rateRedemption, baseRate>>
Open == S!Open /\ UNCHANGED <<rateIssuance, rateRedemption, baseRate>>
StabilityUpdate == S!StabilityUpdate /\ UNCHANGED <<rateIssuance, rateRedemption, baseRate>>
Halt == S!Halt /\ UNCHANGED <<rateIssuance, rateRedemption, baseRate>>
NoArbitrage == S!NoArbitrage /\ UNCHANGED <<rateIssuance, rateRedemption, baseRate>>
CeilingArbitrage == S!CeilingArbitrage /\ UNCHANGED <<rateIssuance, rateRedemption, baseRate>>
FloorArbitrage == S!FloorArbitrage /\ UNCHANGED <<rateIssuance, rateRedemption, baseRate>>
Record == S!Record /\ UNCHANGED <<rateIssuance, rateRedemption, baseRate>>
Finished == S!Finished /\ UNCHANGED <<rateIssuance, rateRedemption, baseRate>>

Next ==
  \/ Liquidate \/ Close \/ Adjust \/ Open \/ StabilityUpdate
  \/ Halt \/ NoArbitrage \/ CeilingArbitrage \/ FloorArbitrage
  \/ Record \/ Finished

Spec == Init /\ [][Next]_vars

-----------------------------------------------------------------------------
TypeOK == S!TypeOK /\ baseRate \in Nat

(* The base rate's division by the ledger's debt (line 671) is defined at  *)
(* the start of every policy step: the ledger the previous step committed  *)
(* has positive debt.  The code does not guard it; it relies on closing,   *)
(* the liquidity-pool break (line 716) and the stabilizer never leaving    *)
(* an empty ledger behind a record (spec 7(a): no silent NaN).             *)
BaseRateDefined ==
  pc = "liquidate" => S!Supply > 0
=============================================================================
