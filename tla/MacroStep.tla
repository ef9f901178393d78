------------------------------ MODULE MacroStep ------------------------------
(***************************************************************************)
(* One run of the fixed-rate simulation of macro_model.py: the trove       *)
(* ledger and the per-step pipeline Liquidate -> Close -> Adjust -> Open   *)
(* -> Stability pool -> Price stabilizer -> Record (driver loop, lines     *)
(* 383-456).                                                               *)
(*                                                                         *)
(* Data abstraction.  Money is integer: a debt ("Supply") is a natural, a  *)
(* collateral quantity is kept in 1/CollUnits sub-units so that the        *)
(* divisions by the iBGT price the code performs are exact.  Ratios are    *)
(* pairs <<num, den>>; CR_initial and Rational_inattention are tenths;     *)
(* the NECT price and the fee rates are hundredths.  The isoelastic price  *)
(* rule x = pp * (L / Lp)^(1/Delta) is kept exactly in every comparison    *)
(* (x > c  <=>  c^M * L < pp^M * Lp, M = -Delta) and the stored price is   *)
(* its integer part.  Every random draw is a choice over a small set; the  *)
(* exogenous iBGT path is any sequence over IBGTPrices.                    *)
(***************************************************************************)
EXTENDS Integers, Sequences, SequencesExt, FiniteSetsExt, Functions, RedemptionWalk

CONSTANTS
  IBGTPrices,        \* values the iBGT price path (price_ibgt) takes
  InitialIBGTPrice,  \* price_ibgt_initial
  CollUnits,         \* collateral sub-units per unit of iBGT quantity
  OpenDebts,         \* debts a newly opened trove may draw
  OpenCRs,           \* CR_initial draws of open_troves, in tenths
  Inattentions,      \* Rational_inattention draws, in tenths
  InitialOpen,       \* initial_open
  NSim,              \* n_sim
  RateIssuance,      \* initial rate_issuance (line 22), hundredths
  RateRedemption,    \* initial rate_redemption (line 23), hundredths
  CloseBootstrap,    \* steps of uniform closing (240 in the code)
  SteadyDraws,       \* values of max(0, n_steady*(1+shock)), hundredths
  Beta,              \* beta, hundredths
  Alpha,             \* alpha, hundredths
  Delta,             \* delta, the (negative) price elasticity
  RedemptionStar,    \* redemption_star, hundredths
  StabilityGrowth    \* the factor stability_update applies, percent

ASSUME /\ IBGTPrices \subseteq Nat \ {0} /\ InitialIBGTPrice \in IBGTPrices
       /\ \A p \in IBGTPrices : CollUnits % (10 * p) = 0
       /\ OpenDebts \subseteq Nat \ {0} /\ \A s \in OpenDebts : s % 2 = 0
       /\ \A c \in OpenCRs : c >= 11
       /\ Delta \in Int /\ Delta < 0

VARIABLES
  troves,   \* the ledger: a sequence of trove records
  pIBGT,    \* price_ibgt_current, restamped on every trove each step
  index,    \* the driver's loop index
  pc,       \* the operation the driver runs next, or how the run ended
  last,     \* data.loc[index-1]: the last record appended to the history
  cur,      \* the step's locals that end up in the new record
  redeemed, \* ghost: the troves the floor branch removed this step
  rateIssuance,   \* the global rate_issuance the functions read
  rateRedemption  \* the global rate_redemption

vars == <<troves, pIBGT, index, pc, last, cur, redeemed, rateIssuance, rateRedemption>>

M == -Delta
PriceCeiling == 110 + rateIssuance     \* 1.1 + rate_issuance
PriceFloor == 100 - rateRedemption     \* 1 - rate_redemption
Terminal == {"done", "halted", "ValueError", "IndexError"}

SumDebt(ts) == FoldLeft(LAMBDA acc, t : acc + t.Supply, 0, ts)

(* The collateral ratio of trove t at iBGT price p, as a pair.            *)
CR(t, p) == <<p * t.iBGT_Quantity, CollUnits * t.Supply>>
CRLeq(a, b) == a[1] * b[2] <= b[1] * a[2]

(* Python's round(): half to even, for num / den >= 0.                     *)
RoundHalfEven(num, den) ==
  LET q == num \div den
      r == num % den
  IN IF 2 * r < den THEN q
     ELSE IF 2 * r > den THEN q + 1
     ELSE IF q % 2 = 0 THEN q ELSE q + 1

CeilDiv(a, b) == (a + b - 1) \div b

(* A trove opened at iBGT price p with debt s: the code draws CR and       *)
(* quantity and derives Supply = price*quantity/CR; here the debt is       *)
(* drawn and the quantity derived, which reaches the same troves.          *)
NewTrove(p, s, cri, ri) ==
  [Supply |-> s, iBGT_Quantity |-> cri * s * (CollUnits \div (10 * p)),
   CR_initial |-> cri, Rational_inattention |-> ri, CR_current |-> <<cri, 10>>]
TroveDraws == OpenDebts \X OpenCRs \X Inattentions

NoLocals == [n_liquidate |-> 0, n_close |-> 0, n_open |-> 0, n_redempt |-> 0,
             stability |-> 0, supply |-> 0, minted |-> 0, price0 |-> 0,
             price |-> 0, liquidity |-> 0, redemption_pool |-> 0]

(* Mutant: the driver loop started at index 0 instead of 1.              *)
InitFromZero ==
  /\ \E draw \in [1..InitialOpen -> TroveDraws] :
        troves = [i \in 1..InitialOpen |->
                    NewTrove(InitialIBGTPrice, draw[i][1], draw[i][2], draw[i][3])]
  /\ pIBGT = InitialIBGTPrice
  /\ index = 0
  /\ pc = IF NSim > 1 THEN "liquidate" ELSE "done"
  /\ last = [Price_NECT |-> 100, stability |-> SumDebt(troves) \div 2,
             liquidity |-> SumDebt(troves) \div 2, redemption_pool |-> 0,
             supply_NECT |-> SumDebt(troves), n_troves |-> InitialOpen,
             n_open |-> InitialOpen, n_close |-> 0, n_liquidate |-> 0,
             n_redempt |-> 0]
  /\ cur = NoLocals
  /\ redeemed = <<>>
  /\ rateIssuance = RateIssuance /\ rateRedemption = RateRedemption

(* Step 0 (lines 366-380): open_troves(troves, 0, 1.0) opens initial_open  *)
(* troves; half of their debt is put in each pool.                         *)
Init ==
  /\ \E draw \in [1..InitialOpen -> TroveDraws] :
        troves = [i \in 1..InitialOpen |->
                    NewTrove(InitialIBGTPrice, draw[i][1], draw[i][2], draw[i][3])]
  /\ pIBGT = InitialIBGTPrice
  /\ index = 1
  /\ pc = IF NSim > 1 THEN "liquidate" ELSE "done"
  /\ last = [Price_NECT |-> 100, stability |-> SumDebt(troves) \div 2,
             liquidity |-> SumDebt(troves) \div 2, redemption_pool |-> 0,
             supply_NECT |-> SumDebt(troves), n_troves |-> InitialOpen,
             n_open |-> InitialOpen, n_close |-> 0, n_liquidate |-> 0,
             n_redempt |-> 0]
  /\ cur = NoLocals
  /\ redeemed = <<>>
  /\ rateIssuance = RateIssuance /\ rateRedemption = RateRedemption

-----------------------------------------------------------------------------
(* Driver lines 385-386 restamp the iBGT price; liquidate_troves recomputes *)
(* CR_current of every trove and removes those below 1.1.  Its return rate *)
(* and gains feed only the stability factor and the POLLEN valuation,      *)
(* which the model abstracts.                                              *)
Liquidate ==
  /\ pc = "liquidate"
  /\ \E p \in IBGTPrices :
       LET priced == [i \in DOMAIN troves |->
                        [troves[i] EXCEPT !.CR_current = CR(troves[i], p)]]
           kept == SelectSeq(priced, LAMBDA t : CRLeq(<<11, 10>>, t.CR_current))
       IN /\ pIBGT' = p
          /\ troves' = kept
          /\ cur' = [NoLocals EXCEPT !.n_liquidate = Len(troves) - Len(kept)]
  /\ redeemed' = <<>>
  /\ pc' = "close"
  /\ UNCHANGED <<index, last>>

(* number_closetroves: round(uniform(0,1)) in the first CloseBootstrap     *)
(* steps, then round(steady draw + beta*(1-price)*n_troves below peg).     *)
CloseCounts ==
  IF index <= CloseBootstrap THEN {0, 1}
  ELSE LET extra == IF last.Price_NECT >= 100 THEN 0
                    ELSE Beta * (100 - last.Price_NECT) * Len(troves)
       IN {RoundHalfEven(x * 100 + extra, 10000) : x \in SteadyDraws}

(* close_troves: random.sample raises ValueError when asked for more       *)
(* troves than exist; otherwise the sampled positions are dropped and the  *)
(* count is replaced by -999 when fewer troves remain than were closed.    *)
Close ==
  /\ pc = "close"
  /\ \E number \in CloseCounts :
       \/ /\ number > Len(troves)
          /\ pc' = "ValueError"
          /\ UNCHANGED <<troves, cur>>
       \/ /\ number <= Len(troves)
          /\ \E drops \in kSubset(number, DOMAIN troves) :
               LET keep == SetToSortSeq(DOMAIN troves \ drops, <)
                   left == [i \in DOMAIN keep |-> troves[keep[i]]]
               IN /\ troves' = left
                  /\ cur' = [cur EXCEPT !.n_close =
                               IF Len(left) < number THEN -999 ELSE number]
          /\ pc' = "adjust"
  /\ UNCHANGED <<pIBGT, index, last, redeemed>>

(* adjust_troves: check = (CR_current - CR_initial)                        *)
(*                        / (CR_initial * Rational_inattention).           *)
CheckBelow(t) ==   \* check < -1
  100 * t.CR_current[1] < t.CR_initial * (10 - t.Rational_inattention) * t.CR_current[2]
CheckAbove(t) ==   \* check > 2
  100 * t.CR_current[1] > t.CR_initial * (10 + 2 * t.Rational_inattention) * t.CR_current[2]

(* Re-peg to CR_initial by debt (Supply = price*quantity/CR_initial, kept  *)
(* to its integer part) or by collateral; CR_current is left as it was.    *)
Adjusted(t, mode) ==
  IF ~(CheckBelow(t) \/ CheckAbove(t)) THEN t
  ELSE IF mode = "debt"
  THEN [t EXCEPT !.Supply = (10 * pIBGT * t.iBGT_Quantity) \div (CollUnits * t.CR_initial)]
  ELSE [t EXCEPT !.iBGT_Quantity = t.CR_initial * t.Supply * (CollUnits \div (10 * pIBGT))]

(* The per-trove draw p >= ratio picks the mode; any assignment occurs.    *)
Adjust ==
  /\ pc = "adjust"
  /\ \E mode \in [DOMAIN troves -> {"debt", "collateral"}] :
       troves' = [i \in DOMAIN troves |-> Adjusted(troves[i], mode[i])]
  /\ pc' = "open"
  /\ UNCHANGED <<pIBGT, index, last, cur, redeemed>>

(* number_opentroves for index >= 1: round(steady draw), plus             *)
(* alpha*(price-rate_issuance-1)*n_troves once minting is profitable.      *)
OpenCounts ==
  LET extra == IF last.Price_NECT <= 100 + rateIssuance THEN 0
               ELSE Alpha * (last.Price_NECT - rateIssuance - 100) * Len(troves)
  IN {RoundHalfEven(x * 100 + extra, 10000) : x \in SteadyDraws}

Open ==
  /\ pc = "open"
  /\ \E number \in OpenCounts :
       \E draw \in [1..number -> TroveDraws] :
         /\ troves' = troves \o [i \in 1..number |->
                          NewTrove(pIBGT, draw[i][1], draw[i][2], draw[i][3])]
         /\ cur' = [cur EXCEPT !.n_open = number]
  /\ pc' = "stability"
  /\ UNCHANGED <<pIBGT, index, last, redeemed>>

(* stability_update: previous pool times a positive factor near 1.         *)
StabilityUpdate ==
  /\ pc = "stability"
  /\ \E g \in StabilityGrowth :
       cur' = [cur EXCEPT !.stability = (last.stability * g) \div 100]
  /\ pc' = "price"
  /\ UNCHANGED <<troves, pIBGT, index, last, redeemed>>

-----------------------------------------------------------------------------
(* price_stabilizer.  supply is the ledger's debt, L = supply - stability  *)
(* the new liquidity pool, and the resolved price                          *)
(* pp * (L / Lp)^(1/delta) is compared exactly against the corridor.       *)
Supply == SumDebt(troves)
LiqPool == Supply - cur.stability
PricePrev == last.Price_NECT
PriceAbove(c) == LiqPool >= 0 /\ c^M * LiqPool < PricePrev^M * last.liquidity
PriceBelow(c) == LiqPool >= 0 /\ c^M * LiqPool > PricePrev^M * last.liquidity
ResolvedPrice(l) ==
  Max({x \in 0..PriceCeiling : x^M * l <= PricePrev^M * last.liquidity})

(* L < 0: the price is NaN, neither branch fires, and the driver breaks    *)
(* (line 431) before appending a record.                                   *)
Halt ==
  /\ pc = "price"
  /\ LiqPool < 0
  /\ cur' = [cur EXCEPT !.supply = Supply, !.liquidity = LiqPool]
  /\ pc' = "halted"
  /\ UNCHANGED <<troves, pIBGT, index, last, redeemed>>

(* Mutant: the break of line 431 missing; a NaN price matches neither     *)
(* branch and the step is recorded.                                        *)
NoArbitrageNaN ==
  /\ pc = "price"
  /\ ~PriceAbove(PriceCeiling) /\ ~PriceBelow(PriceFloor)
  /\ cur' = [cur EXCEPT !.supply = Supply, !.liquidity = LiqPool,
                        !.price0 = ResolvedPrice(LiqPool),
                        !.price = ResolvedPrice(LiqPool)]
  /\ pc' = "record"
  /\ UNCHANGED <<troves, pIBGT, index, last, redeemed>>

NoArbitrage ==
  /\ pc = "price"
  /\ LiqPool >= 0
  /\ ~PriceAbove(PriceCeiling) /\ ~PriceBelow(PriceFloor)
  /\ cur' = [cur EXCEPT !.supply = Supply, !.liquidity = LiqPool,
                        !.price0 = ResolvedPrice(LiqPool),
                        !.price = ResolvedPrice(LiqPool)]
  /\ pc' = "record"
  /\ UNCHANGED <<troves, pIBGT, index, last, redeemed>>

(* Ceiling arbitrage: mint one trove at CR 1.1 that brings supply to the   *)
(* level priced at the ceiling; clamp the price; recount the pool.         *)
(* Mutant: the pool is not recounted after the mint (line 296 missing).   *)
CeilingArbitrageNoRecount ==
  /\ pc = "price"
  /\ PriceAbove(PriceCeiling)
  /\ LET wanted == cur.stability + CeilDiv(last.liquidity * PricePrev^M, PriceCeiling^M)
         minted == wanted - Supply
     IN /\ troves' = Append(troves, NewTrove(pIBGT, minted, 11, 1))
        /\ cur' = [cur EXCEPT !.supply = Supply, !.minted = minted,
                              !.liquidity = LiqPool,
                              !.price0 = PriceCeiling, !.price = PriceCeiling,
                              !.n_open = @ + 1]
  /\ pc' = "record"
  /\ UNCHANGED <<pIBGT, index, last, redeemed>>

(* Mutant: the arbitrage trove's collateral sized without CR_ratio.      *)
CeilingArbitrageAtPar ==
  /\ pc = "price"
  /\ PriceAbove(PriceCeiling)
  /\ LET wanted == cur.stability + CeilDiv(last.liquidity * PricePrev^M, PriceCeiling^M)
         minted == wanted - Supply
     IN /\ troves' = Append(troves, [NewTrove(pIBGT, minted, 11, 1) EXCEPT
                        !.iBGT_Quantity = minted * (CollUnits \div pIBGT)])
        /\ cur' = [cur EXCEPT !.supply = Supply, !.minted = minted,
                              !.liquidity = wanted - cur.stability,
                              !.price0 = PriceCeiling, !.price = PriceCeiling,
                              !.n_open = @ + 1]
  /\ pc' = "record"
  /\ UNCHANGED <<pIBGT, index, last, redeemed>>

CeilingArbitrage ==
  /\ pc = "price"
  /\ PriceAbove(PriceCeiling)
  /\ LET wanted == cur.stability + CeilDiv(last.liquidity * PricePrev^M, PriceCeiling^M)
         minted == wanted - Supply
     IN /\ troves' = Append(troves, NewTrove(pIBGT, minted, 11, 1))
        /\ cur' = [cur EXCEPT !.supply = Supply, !.minted = minted,
                              !.liquidity = wanted - cur.stability,
                              !.price0 = PriceCeiling, !.price = PriceCeiling,
                              !.n_open = @ + 1]
  /\ pc' = "record"
  /\ UNCHANGED <<pIBGT, index, last, redeemed>>

(* The troves ordered by ascending CR_current: sort_values' quicksort      *)
(* orders ties arbitrarily.                                                *)
SortedByCR(ts) ==
  { o \in {[i \in DOMAIN ts |-> ts[f[i]]] : f \in Bijection(DOMAIN ts, DOMAIN ts)} :
      IsSorted(o, LAMBDA a, b : CRLeq(a.CR_current, b.CR_current)) }

(* Mutant: the residual is taken from the collateral only.               *)
TrimCollateralOnly(t, r) ==
  LET q == t.iBGT_Quantity - r * (CollUnits \div pIBGT)
  IN [t EXCEPT !.iBGT_Quantity = q,
               !.CR_current = <<pIBGT * q, CollUnits * t.Supply>>]

(* The residual trim of the boundary trove (lines 331-334).                *)
Trim(t, r) ==
  LET q == t.iBGT_Quantity - r * (CollUnits \div pIBGT)
  IN [t EXCEPT !.Supply = @ - r, !.iBGT_Quantity = q,
               !.CR_current = <<pIBGT * q, CollUnits * (t.Supply - r)>>]

(* Floor arbitrage: redeem the smaller of the supply gap and               *)
(* redemption_ratio * L, then walk the sorted ledger.  The capped branch   *)
(* recomputes the price from liquidity_pool, which it does not reduce.     *)
FloorArbitrage ==
  /\ pc = "price"
  /\ PriceBelow(PriceFloor)
  /\ LET diff == LiqPool - CeilDiv(last.liquidity * PricePrev^M, PriceFloor^M)
         full == 100 * diff < RedemptionStar * LiqPool
         amount == IF full THEN diff ELSE (RedemptionStar * LiqPool) \div 100
         price == IF full THEN PriceFloor ELSE ResolvedPrice(LiqPool)
     IN \E order \in SortedByCR(troves) :
          LET w == RedeemWalk([i \in DOMAIN order |-> order[i].Supply], amount)
              rest == SubSeq(order, w.k + 1, Len(order))
          IN IF ~w.ok
             THEN /\ pc' = "IndexError"
                  /\ UNCHANGED <<troves, cur, redeemed>>
             ELSE /\ troves' = [rest EXCEPT ![1] = Trim(@, w.residual)]
                  /\ redeemed' = SubSeq(order, 1, w.k)
                  /\ cur' = [cur EXCEPT !.supply = Supply, !.liquidity = LiqPool,
                                        !.price0 = ResolvedPrice(LiqPool),
                                        !.price = price, !.n_redempt = w.k,
                                        !.redemption_pool = amount]
                  /\ pc' = "record"
  /\ UNCHANGED <<pIBGT, index, last>>

(* Summary (lines 440-456): append the record; stop on a negative price    *)
(* or at n_sim.                                                            *)
Record ==
  /\ pc = "record"
  /\ last' = [Price_NECT |-> cur.price, stability |-> cur.stability,
              liquidity |-> cur.liquidity, redemption_pool |-> cur.redemption_pool,
              supply_NECT |-> Supply, n_troves |-> Len(troves),
              n_open |-> cur.n_open, n_close |-> cur.n_close,
              n_liquidate |-> cur.n_liquidate, n_redempt |-> cur.n_redempt]
  /\ index' = index + 1
  /\ pc' = IF cur.price < 0 THEN "halted"
           ELSE IF index + 1 >= NSim THEN "done" ELSE "liquidate"
  /\ UNCHANGED <<troves, pIBGT, cur, redeemed>>

Finished == pc \in Terminal /\ UNCHANGED vars

(* The pipeline's functions read the fee rates and never write them; the  *)
(* fixed-rate driver keeps lines 22-23's values for the whole run.         *)
Step ==
  \/ Liquidate \/ Close \/ Adjust \/ Open \/ StabilityUpdate
  \/ Halt \/ NoArbitrage \/ CeilingArbitrage \/ FloorArbitrage
  \/ Record \/ Finished

Next == Step /\ UNCHANGED <<rateIssuance, rateRedemption>>

Spec == Init /\ [][Next]_vars

(* The History seen one committed record at a time.                        *)
Log == INSTANCE SimulationLog
         WITH Ceiling <- 110 + RateIssuance,
              status <- IF pc \in Terminal THEN pc ELSE "running"

-----------------------------------------------------------------------------
(* Properties.                                                             *)

Trove == [Supply : Int, iBGT_Quantity : Int, CR_initial : Nat,
          Rational_inattention : Nat, CR_current : Int \X Int]

TypeOK ==
  /\ troves \in Seq(Trove) /\ redeemed \in Seq(Trove)
  /\ pIBGT \in IBGTPrices /\ index \in 1..NSim
  /\ pc \in {"liquidate", "close", "adjust", "open", "stability", "price",
             "record"} \cup Terminal

StepBoundary == pc \in {"liquidate", "done"}

(* Every trove the ledger carries into a step (after Liquidate, Adjust,    *)
(* Open, the ceiling mint and the redemption trim of the step before) has  *)
(* positive debt and collateral and a collateral ratio of at least 1.1 at  *)
(* the step's iBGT price: the spec's "no surviving trove below 1.1" and    *)
(* "debt > 0 for all live troves", which the next step's division by       *)
(* Supply relies on.                                                       *)
TrovesSolvent ==
  StepBoundary =>
    \A i \in DOMAIN troves :
      /\ troves[i].Supply > 0 /\ troves[i].iBGT_Quantity > 0
      /\ CRLeq(<<11, 10>>, CR(troves[i], pIBGT))

(* The price stabilizer changes the ledger's debt only by the ceiling      *)
(* mint and by exactly redemption_pool on the floor branch, and the        *)
(* redemption walk never runs off the end of the ledger (IndexError).      *)
RedemptionRetiresExactly ==
  /\ pc # "IndexError"
  /\ pc = "record" =>
       SumDebt(troves) = cur.supply + cur.minted - cur.redemption_pool

(* The pipeline implements SimulationLog: the phases of a step leave the   *)
(* History alone, Record appends one record per index whose price is in    *)
(* (0, 1.1 + rate], whose liquidity pool and supply are positive (so the   *)
(* next step's divisions at lines 273 and 671 are defined), and every run  *)
(* stops only: done after n_sim steps, halted at the line-431 break, or   *)
(* exception.  The liquidity pool needs the ceiling branch's recount when  *)
(* the pool before the mint is zero.                                       *)
AtomicStep == Log!Spec

(* Redemption retires the riskiest troves first (spec 4.7): every trove    *)
(* the floor branch removed had a collateral ratio, at the step's price,   *)
(* no higher than any trove left in the ledger.                            *)
RedeemsRiskiestFirst ==
  pc = "record" =>
    \A i \in DOMAIN redeemed, j \in DOMAIN troves :
      CRLeq(CR(redeemed[i], pIBGT), CR(troves[j], pIBGT))

(* When the floor branch redeems debt, the price it resolves is above the  *)
(* price before redemption (spec 4.7: clamped to the floor, or recomputed  *)
(* from the liquidity left after the redemption).                          *)
RedemptionLiftsPrice ==
  (pc = "record" /\ cur.redemption_pool > 0) => cur.price > cur.price0

(* The history's trove counts balance: each record's n_troves is the       *)
(* previous one plus n_open minus n_liquidate, n_close and n_redempt.      *)
TroveCountBalance ==
  [][last' # last =>
       last'.n_troves = last.n_troves + last'.n_open - last'.n_liquidate
                          - last'.n_close - last'.n_redempt]_last

(* Close never aborts the run: asked for more troves than exist it        *)
(* returns the sentinel instead (spec 4.3 and 7(b)).                      *)
CloseNeverFaults ==
  pc # "ValueError"
=============================================================================
