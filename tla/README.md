# TLA+ models of the NECT macro model

This directory holds TLA+ models of `src/packages/contracts/macroModel/macro_model.py`.
That file is an agent-based simulation of a collateralised-debt stablecoin (NECT) backed
by iBGT collateral. The modules model it together with the TLC configurations that check
them. `src/packages/contracts/tests/helpers.py`, the other source file, is a brownie
logging helper and is not modelled.

## The system

`macro_model.py` is one sequential Python script. It has no threads, callbacks or
messages. Its difficulty lies in the data flow between the phases of a step and between
consecutive steps: the history row one step writes is what the next step reads.

| Part | Code | State it changes |
|------|------|------------------|
| Exogenous paths | lines 98-118 | `price_ibgt`, `price_POLLEN`, `natural_rate` lists |
| Liquidation | `liquidate_troves`, 125-151 | recomputes `CR_current` of every trove; drops troves below 1.1 |
| Closing | `close_troves`, 155-176 | drops a random sample of troves; `-999` sentinel |
| Adjustment | `adjust_troves`, 180-203 | re-pegs troves that drifted from `CR_initial`, by debt or collateral |
| Opening | `open_troves`, 207-242 | appends new troves (also step 0) |
| Stability pool | `liquidate_troves` 133-149, `stability_update` 249-257 | the return rate over trailing History windows; the pool's size |
| Price stabilizer | `price_stabilizer`, 261-341 | NECT price, liquidity pool; mints a trove (ceiling) or redeems the riskiest troves (floor) |
| POLLEN market | `POLLEN_market`, 347-362 | governance-token price, which the next step's airdrop gain reads |
| Driver, fixed rates | 366-456 | runs the phases in order and appends a history row |
| Driver, base-rate policy | 646-741 | the same loop, with both fee rates set each step from the last redemption |
| Plots | 458-637, 745-1007 | nothing (output only) |

Within a step the phases run in a fixed order:

1. Liquidate.
2. Close.
3. Adjust.
4. Open.
5. Update the stability pool.
6. Run the price stabilizer.
7. Record the row.

Each phase reads the ledger as the previous phase left it. The price step also reads the
previous row (`Price_NECT`, `liquidity`).

Hard behaviours a unit test hardly reaches:
- **Stale CR.** `adjust_troves` changes debt or collateral but not `CR_current`. The
  floor branch then sorts the ledger by that stale field.
- **Boundary cases of the redemption loop.** The pool can fall exactly on a trove
  boundary; the `<=` of line 322 then drops that trove whole.
- **Close-count sentinel.** The sentinel test (`len(troves) < number`) and the
  `ValueError` of `random.sample`.
- **Ceiling branch, zero pool.** The branch recounts the liquidity pool (line 296),
  which matters when the new pool would be zero.
- **Capped floor branch.** It recomputes the price from a pool it never reduced.
- **NaN prices.** A negative liquidity pool gives a NaN price and a silent break
  (line 431).
- **NaN stability pool.** A negative liquidation gain can push the return below
  `natural_rate - 1`; the power of line 254 is then NaN, the line-431 break does not
  see it, and the NaN is recorded.
- **One fault, two runs.** Both runs are module-level code of one script. An exception
  in the first run means the second never starts.
- **Solvency across a step.** Liquidation, re-pegging, minting and trimming together
  must leave every trove at CR >= 1.1 with positive debt.

## Modules

- **`RedemptionWalk.tla`** holds the pure operators of the redemption loop (lines 318-334):
  - `WalkFrom` is a RECURSIVE operator that follows the `while` loop.
  - `RedeemWalk` is its entry point.
  - `RankedRedemption` is a reference definition: drop the longest prefix whose debt
    fits in the pool, then trim the residual off the next trove.
- **`Redemption.tla`** is the same loop as a step machine, one action per iteration:
  - `KeepDropping` is the loop condition.
  - `DropRiskiest` is the loop body; it may end in `IndexError`.
  - `TrimResidual` is the exit: undo the last addition and trim the residual.

  `MCRedemption` runs it on every ledger of 1-4 troves with debts 1..3 and every pool
  below the ledger's debt.
- **`MacroStep.tla`** is the fixed-rate driver, with the ledger as a sequence of trove
  records.
  - **`pc`** runs the phases in the code's order:
    - `"liquidate"`, `"close"`, `"adjust"`, `"open"`, `"stability"`, `"price"`,
      `"record"`;
    - terminal: `"done"`, `"halted"` (the breaks at lines 431 and 455), `"ValueError"`,
      `"IndexError"`.
  - **`last`** is the previous history row.
  - **`cur`** holds the step's locals that go into the new row.
  - **`rateIssuance`, `rateRedemption`** are the script's global fee rates. Every
    function reads them and none writes them; `Next` keeps them at the values of
    lines 22-23.
  - **Actions, one per function:**
    - `Liquidate`, `Close`, `Adjust`, `Open`, `StabilityUpdate`;
    - the price step has one action per branch: `Halt`, `NoArbitrage`,
      `CeilingArbitrage`, `FloorArbitrage`;
    - `Record` appends the row.
  - **Data abstraction:**
    - Debts are integers. Collateral is kept in `1/CollUnits` sub-units, so the code's
      divisions by the iBGT price are exact.
    - Ratios are exact pairs.
    - `CR_initial` and `Rational_inattention` are in tenths. The NECT price and the fee
      rates are in hundredths.
    - The isoelastic price `pp * (L/Lp)^(1/delta)` is compared exactly against the
      corridor (`x > c` iff `c^M * L < pp^M * Lp`, with `M = -delta`). The stored price
      is its integer part.
    - Python's `round` is half-to-even.
    - Every random draw (counts, CRs, debts, modes, growth factors, tie order of the
      quicksort) is a nondeterministic choice over a small set. So TLC explores every
      outcome the seeds could produce, not only the one they do produce.
  - **Abstracted, as it feeds no modelled decision:**
    - the liquidity and redemption shocks (their drift-free form);
    - fees, gains and the return rate (`stability_update` takes a growth factor from a
      set; `StabilityPool` models the return).
- **`StabilityPool.tla`** models the return rate and the stability pool with the
  History as a sequence of rows (`hist`):
  - `Gain` (lines 136-139), `ReturnStability` with `WindowSum` over the last `Day` or
    `Month` rows (141-149), `StabilityNext` (249-257) and `PollenPrices` (351-359).
  - Values follow numpy floats: `NaN`, `Inf` and `NegInf` are model values; `Quotient`
    gives inf, -inf or nan for a division by zero; `MinHalf` is Python's
    `min(0.5, x)`, which returns 0.5 for NaN; a negative base to the power theta is NaN
    and a zero base gives a zero pool.
  - The ledger is abstracted to what this reads: each step liquidates a debt from
    `LiqDebts` at a CR from `LiqCRs`, and the stabilizer resolves a price from
    `NECTPrices` or breaks. A NaN pool makes the price NaN (`PriceUndefined`) and is
    recorded. The next step's `Close` (after the bootstrap window) or `Open` rounds a
    NaN count and raises ValueError.
  - `MCStabilityPool`: `Day = 1`, `Month = 2` and four steps. This reaches the initial,
    day-window and month-window returns. `CloseBootstrap = 3` lets both fault sites
    occur.
- **`SimulationLog.tla`** is the abstract driver: a step is one `Commit` of a record
  whose price is in (0, 1.1 + rate], and whose liquidity pool and supply (the next
  step's divisors) are positive; or a `Break`; or a `Fault`. `MacroStep` instantiates
  it as `Log`. The mapping takes `status` to `pc` when `pc` is terminal and to
  `"running"` otherwise; `index` and `last` map to themselves.
- **`Script.tla`** composes the two runs of the script: the fixed-rate run, then the
  base-rate run. Each is an `INSTANCE` of `SimulationLog` over its own `index` and
  `status`, and both see one fixed committable record. `StartPolicy` (lines 645-660) is
  enabled only once the first loop has ended by its break or by running out. An
  exception of either run ends the process (`Exited`), since no code catches one.
- **`PolicyRun.tla`** is the base-rate run (lines 645-741), an `INSTANCE` of
  `MacroStep`.
  - Its `Liquidate` first sets `baseRate` and both global rates to
    `0.98 * base_rate + 0.5 * redemption_pool / supply` (line 671), then runs
    `MacroStep`'s `Liquidate`. The rate is in hundredths: the floor or the ceiling of
    the rational value.
  - Its other actions are `MacroStep`'s, with the rates left alone.
  - `MCPolicyRun` uses the pipeline's bounds but starts the iBGT path at 3. The first
    step can then liquidate, close and redeem, and the second runs with a non-zero base
    rate (floor 0.98).
- **`MCMacroStep.tla`** and the `MC*.cfg` files set the model's bounds:
  - iBGT prices {2,3}, starting at 2.
  - Opening debts {10,40}, CRs {1.5, 2.0}, inattention 0.2.
  - Two initial troves.
  - `NSim = 3`, i.e. two simulated steps.
  - Open/close draws {0,1}. Rates 1%. Beta 0.2, alpha 0.3. Redemption star 0.8.
  - `delta = -3`.
  - Stability growth {0.9, 1.0, 1.1}.
  - At most three troves (state constraint `LedgerBound`).

## Runs

| Run | cfg | Expect | Shows |
|-----|-----|--------|-------|
| redemption_walk | MCRedemption.cfg | pass | The loop agrees with the ranked selection, retires exactly the pool, leaves the boundary trove positive, and never raises IndexError on pools below the debt. |
| pipeline | MCMacroStep.cfg | pass | Two steps of every draw and price path. The checks: `TrovesSolvent` (every trove at a step boundary has positive debt and collateral and CR >= 1.1); `RedemptionRetiresExactly` (the stabilizer changes debt only by the mint, or by exactly `redemption_pool`, and never hits IndexError). Also `AtomicStep`: the pipeline refines `SimulationLog`. The phases of a step leave the History alone, and each record advances the index by one. Every committed record has a price in (0, 1.1 + rate] and a positive liquidity pool and supply. The liquidity pool needs the ceiling branch's recount (line 296). |
| stability_nan | MCStabilityPool.cfg | pass | `UndefinedRowIsLast`: a NaN stability pool is recorded at most once, as the last row, because the next step's close or open raises ValueError. |
| policy | MCPolicyRun.cfg | pass | Under the fed-back rates, every step starts from a ledger with positive debt (`BaseRateDefined`), so line 671's division is defined; this relies on the break at line 716. |
| stale_cr_redemption | MC_RedeemsRiskiestFirst.cfg | violation | Redemption takes a safer trove first because `CR_current` is stale after adjustment. |
| capped_redemption_price | MC_RedemptionLiftsPrice.cfg | violation | The capped floor case leaves the price where it was. |
| close_sentinel_count | MC_TroveCountBalance.cfg | violation | `n_close = -999` is recorded when closing 1 of 1 trove, so the counts stop balancing. |
| close_value_error | MC_CloseNeverFaults.cfg | violation | `random.sample` raises ValueError on an empty ledger. |
| script_abort | MC_PolicyRunsRegardless.cfg | violation | `PolicyRunsRegardless`: a ValueError in the fixed-rate run ends the script before line 645, so the base-rate run never starts. |
| stability_defined | MC_StabilityDefined.cfg | violation | `StabilityDefined`: a liquidation at CR 0.90 with NECT at 1.00 gives a day-window return of about -18 (365 * -99 / (1.00 * 20)). The pool becomes NaN and is recorded. |

**Bounds.** Two steps are the fewest in which a step reads a row another step wrote:
- a price rise then a fall makes troves drift both ways and triggers both re-peg modes;
- the ceiling mint and both floor cases are all reached;
- debts 10 and 40 make the capped floor case reachable.

A third step multiplies the state space past what TLC explores in minutes. One observation from the mutant search: lowering the liquidation threshold to 1.0 does
not break `TrovesSolvent` within these bounds. Every survivor in [1.0, 1.1) has drifted
below 0.8 of its `CR_initial`, so `adjust_troves` re-pegs it in the same step. All four
price-step branches fire in the pipeline run.

**Mutants.** Each property of a passing run has a mutant in `PROJECT.json`: an operator
defined just before the definition it replaces, making a plausible slip in the code.
TLC finds each one violated:
- a strict loop guard;
- a trim that forgets what was already redeemed;
- a driver loop that starts at 0;
- a ceiling trove sized without its CR;
- a pool not recounted after the mint;
- a collateral-only trim;
- a sign slip in the base rate;
- the line-431 break missing;
- in `StabilityPool`, a record that does not advance the index (the type invariant ties
  the rows to the index);
- an open that takes a NaN price for the steady branch.

**Fairness.** None is assumed, and no liveness property is checked. The driver is a
`for index in range(1, n_sim)` loop over a straight-line step, so it ends by its
construction; the deadlock check of every run already shows that no phase gets stuck
before `done`, `halted` or an exception. `Finished` stutters in those terminal states.

## Findings

- **Redemption order** (`macro_model.py:319`): it uses `CR_current`, which
  `adjust_troves` does not refresh. Spec 4.7 says redemption is riskiest-first.
- **Capped floor price** (`:316`): the price is recomputed from `liquidity_pool`, whose
  reduction is commented out, so it does not move.
- **Close sentinel** (`:173`): `-999` is set whenever fewer troves remain than were
  closed, not only when more were requested than exist.
- **NaN stability pool** (`:254`): a negative liquidation gain drives the return below
  `natural_rate - 1`. The power is then NaN, and the NaN pool, price and liquidity are
  recorded. The run dies one step later with ValueError. Spec 7(a) asks for a distinct
  fault instead. Whether the real parameters reach this is not checked, and it is
  rare: ten initial troves of about 1.85 million NECT give a pool of about 9 million,
  and the airdrop gain (about 500 NECT a step) adds about +0.47 to a day-window return.
  To fall below -0.8 the window must lose roughly 32,000 NECT, e.g. one such trove
  liquidated about 1.7% below the NECT price. Its collateral value must then fall over
  10% within one hourly step, about five standard deviations of the iBGT shock.
- **A fault ends both runs** (`:645`): the first run's ValueError or IndexError is not
  caught, so the base-rate run never executes. Spec 7 says a per-step fault aborts only
  the run it happens in, and 4.9 says both simulations run. The faults are reachable:
  see `close_value_error` and `stability_defined`.
- **Close ValueError** (`:170`): `random.sample` raises ValueError where the spec
  expects the sentinel.

## Not modelled, and the plan

- **POLLEN earnings.** The fee windows of `POLLEN_market` are taken as any
  non-negative POLLEN price. The annualised earning and market cap feed nothing.
- **Composition of `StabilityPool` with `MacroStep`.** The composition would put the
  return's windows into the ledger model. Within `MacroStep`'s two steps, the first
  liquidation is valued at the initial price 1.00, so no negative gain reaches a
  window. The separate module reaches it with liquidations as inputs.
- **Seed formulas.** Every draw is a nondeterministic choice, which covers whatever the
  seeds produce. The formulas do make some shocks equal: the liquidity shock of step 3m
  is the redemption shock of step 2m (`20*index` and `30*index`). But spec 9 calls the
  formulas an opaque reproducibility contract and claims no independence, so there is
  no property to check them against.
- **Plots and `tests/helpers.py`.** Pure output.
