---------------------------- MODULE StabilityPool ----------------------------
(***************************************************************************)
(* The stability pool's return and balance in macro_model.py, with the     *)
(* trailing History windows they read and the way an undefined value      *)
(* travels through the rest of the step.                                   *)
(*                                                                         *)
(*  - liquidate_troves (lines 125-151) computes the liquidation and        *)
(*    airdrop gains and the return rate: the initial return for the first *)
(*    day, then 365 times the gains of the last Day rows, capped at 0.5,  *)
(*    then 365/30 times the gains of the last Month rows;                  *)
(*  - stability_update (249-257) multiplies the previous balance by a      *)
(*    growth factor and by (1 + return - natural_rate)^theta;             *)
(*  - POLLEN_market (347-362) gives the POLLEN price the next airdrop      *)
(*    gain is valued at.                                                   *)
(*                                                                         *)
(* The ledger is abstracted to what these read: each step liquidates some  *)
(* debt at some collateral ratio below 1.1, and the price stabilizer       *)
(* (modelled in MacroStep) resolves a price or breaks.  Values are numpy   *)
(* floats: a negative base to the power theta is NaN, x/0 is +-inf or      *)
(* NaN, and a comparison with NaN is false.  Gains and prices are kept in  *)
(* hundredths of a NECT, balances in NECT, ratios as pairs <<num, den>>.  *)
(***************************************************************************)
EXTENDS Integers, Sequences, SequencesExt

CONSTANTS
  Day, Month,          \* day and month (lines 28-29), in steps
  NSim,                \* n_sim
  CloseBootstrap,      \* the uniform close window of line 160 (240)
  InitialStability,    \* 0.5 * supply of step 0 (line 380)
  InitialReturn,       \* initial_return * (1 + shock), as <<num, den>>
  NaturalRate,         \* natural_rate[index], hundredths
  LiqDebts,            \* debt liquidated in a step (0: none)
  LiqCRs,              \* CR_current of the liquidated collateral, < 110
  NECTPrices,          \* prices the stabilizer can resolve, hundredths
  PollenPath,          \* price_POLLEN of the bootstrap path (lines 113-118)
  PollenValues,        \* fee-valued POLLEN prices after the month, >= 0
  Airdrop,             \* quantity_POLLEN_airdrop, in hundredths of a NECT
  StabilityGrowth,     \* (drift_stability + shock) in percent, >= 100
  NaN, Inf, NegInf     \* the numpy float values nan, inf and -inf

ASSUME /\ 0 < Day /\ Day < Month /\ Month < NSim
       /\ \A c \in LiqCRs : 0 < c /\ c < 110
       /\ \A g \in StabilityGrowth : g >= 100

VARIABLES
  index,   \* the driver's loop index
  pc,      \* phase of the step, or how the run ended
  hist,    \* the History data frame; row k is hist[k+1]
  cur      \* the step's locals: gain, return, stability, price

vars == <<index, pc, hist, cur>>

Defined(v) == v # NaN
Ratios == Int \X Int

Row(k) == hist[k + 1]
Prev == Row(index - 1)

(* data.loc[index-w:index, ...].sum(): label slicing includes index, which *)
(* has no row yet, so these are the w rows before the current step.        *)
WindowSum(w) ==
  FoldSeq(LAMBDA g, s : g + s, 0, [k \in 1..w |-> Row(index - w - 1 + k).gain])

(* A numpy float division: x/0 is inf, -inf, or NaN for 0/0.              *)
Quotient(n, d) ==
  CASE d # 0 -> <<n, d>>
    [] n > 0 -> Inf
    [] n < 0 -> NegInf
    [] OTHER -> NaN

(* Python's min(0.5, x) returns x only if x < 0.5, never for NaN.          *)
MinHalf(x) ==
  IF x = NegInf \/ (x \in Ratios /\ 2 * x[1] < x[2]) THEN x ELSE <<1, 2>>

(* Lines 136-139: liquidation_gain + airdrop_gain, both read back only     *)
(* through their sum.  The collateral is worth CR_current times its debt.  *)
Gain(d, c) ==
  IF Defined(Prev.price) THEN d * (c - Prev.price) + Prev.pollen * Airdrop
  ELSE NaN

(* Lines 141-149: the return rate, annualised over the trailing window.    *)
ReturnStability ==
  LET den == Prev.price * Prev.stability
  IN CASE index <= Day -> InitialReturn
       [] ~Defined(Prev.stability) -> NaN
       [] index <= Month -> MinHalf(Quotient(365 * WindowSum(Day), den))
       [] OTHER -> Quotient(365 * WindowSum(Month), 30 * den)

(* Lines 249-257.  (1 + r - natural_rate)^theta, theta = 0.001, is NaN     *)
(* for a negative base and 0 for a zero one; otherwise it is close to 1    *)
(* and folded into the growth factor.  An infinite or NaN return only      *)
(* arises from a zero previous balance, and 0 * inf is NaN.                *)
StabilityNext(prev, r, g) ==
  LET base == 100 * r[2] + 100 * r[1] - NaturalRate * r[2]
  IN CASE ~Defined(prev) \/ r \notin Ratios -> NaN
       [] base < 0 -> NaN
       [] base = 0 -> 0
       [] OTHER -> (prev * g) \div 100

(* Lines 351-359: the bootstrap path for the first month, then the         *)
(* trailing fee revenue, which is never negative.                          *)
PollenPrices == IF index <= Month THEN PollenPath ELSE PollenValues

(* Lines 366-384: step 0 from the initial opening.                         *)
Init ==
  /\ index = 1
  /\ pc = "liquidate"
  /\ \E p \in PollenPath :
       hist = <<[gain |-> 0, stability |-> InitialStability, price |-> 100,
                 pollen |-> p]>>
  /\ cur = [gain |-> 0, ret |-> <<0, 1>>, stab |-> 0, price |-> 0]

(* Lines 125-151, called at 390-398.                                       *)
Liquidate ==
  /\ pc = "liquidate"
  /\ \E d \in LiqDebts, c \in LiqCRs :
       cur' = [cur EXCEPT !.gain = Gain(d, c), !.ret = ReturnStability]
  /\ pc' = "close"
  /\ UNCHANGED <<index, hist>>

(* Lines 155-167: after the bootstrap window the count is rounded from a   *)
(* NaN price, and int(round(nan)) raises ValueError.                       *)
Close ==
  /\ pc = "close"
  /\ pc' = IF index > CloseBootstrap /\ ~Defined(Prev.price)
           THEN "ValueError" ELSE "open"
  /\ UNCHANGED <<index, hist, cur>>

(* Mutant: a NaN price taken for the steady branch.                        *)
OpenNaNSteady ==
  /\ pc = "open"
  /\ pc' = "stability"
  /\ UNCHANGED <<index, hist, cur>>

(* Lines 207-220: a NaN price fails 'price <= 1 + rate_issuance', the      *)
(* count is NaN, and int(round(float(nan))) raises ValueError.             *)
Open ==
  /\ pc = "open"
  /\ pc' = IF Defined(Prev.price) THEN "stability" ELSE "ValueError"
  /\ UNCHANGED <<index, hist, cur>>

(* Lines 418-419.                                                          *)
StabilityUpdate ==
  /\ pc = "stability"
  /\ \E g \in StabilityGrowth :
       cur' = [cur EXCEPT !.stab = StabilityNext(Prev.stability, cur.ret, g)]
  /\ pc' = "price"
  /\ UNCHANGED <<index, hist>>

(* Lines 268-277 and 431: a NaN stability pool makes the price and the     *)
(* liquidity pool NaN; 'liquidity_pool < 0' is false and the run goes on.  *)
PriceUndefined ==
  /\ pc = "price"
  /\ ~Defined(cur.stab)
  /\ cur' = [cur EXCEPT !.price = NaN]
  /\ pc' = "record"
  /\ UNCHANGED <<index, hist>>

(* Lines 421-432: a negative liquidity pool breaks the loop.               *)
Halt ==
  /\ pc = "price"
  /\ Defined(cur.stab)
  /\ pc' = "halted"
  /\ UNCHANGED <<index, hist, cur>>

(* Lines 261-341: the stabilizer resolves a price (see MacroStep).         *)
Resolve ==
  /\ pc = "price"
  /\ Defined(cur.stab)
  /\ \E p \in NECTPrices : cur' = [cur EXCEPT !.price = p]
  /\ pc' = "record"
  /\ UNCHANGED <<index, hist>>

(* Mutant: the row appended without advancing the loop index.            *)
RecordNoAdvance ==
  /\ pc = "record"
  /\ \E p \in PollenPrices :
       hist' = Append(hist, [gain |-> cur.gain, stability |-> cur.stab,
                             price |-> cur.price, pollen |-> p])
  /\ pc' = IF index + 1 < NSim THEN "liquidate" ELSE "done"
  /\ UNCHANGED <<index, cur>>

(* Lines 434-456: POLLEN_market, then the row is appended.                 *)
Record ==
  /\ pc = "record"
  /\ \E p \in PollenPrices :
       hist' = Append(hist, [gain |-> cur.gain, stability |-> cur.stab,
                             price |-> cur.price, pollen |-> p])
  /\ index' = index + 1
  /\ pc' = IF index + 1 < NSim THEN "liquidate" ELSE "done"
  /\ UNCHANGED cur

Finished ==
  /\ pc \in {"done", "halted", "ValueError"}
  /\ UNCHANGED vars

Next ==
  \/ Liquidate \/ Close \/ Open \/ StabilityUpdate
  \/ PriceUndefined \/ Halt \/ Resolve \/ Record \/ Finished

Spec == Init /\ [][Next]_vars

-----------------------------------------------------------------------------
Value == Int \cup {NaN}

TypeOK ==
  /\ index \in 1..NSim
  /\ pc \in {"liquidate", "close", "open", "stability", "price", "record",
             "done", "halted", "ValueError"}
  /\ hist \in Seq([gain : Value, stability : Value, price : Value,
                   pollen : Nat])
  /\ Len(hist) = index

(* A NaN stability pool is recorded at most once, as the last row: the     *)
(* next step's close_troves (after the bootstrap window) or open_troves    *)
(* rounds a count from the NaN price and raises ValueError before          *)
(* another row is appended.                                                *)
UndefinedRowIsLast ==
  \A k \in 1..Len(hist) - 1 : Defined(hist[k].stability)

(* Spec 7(a) and 4.2: the stability pool of every record is a positive     *)
(* number, so the next return's denominator (line 147) is defined and no   *)
(* NaN is recorded silently.                                               *)
StabilityDefined ==
  \A k \in 1..Len(hist) : Defined(hist[k].stability) /\ hist[k].stability > 0
=============================================================================
