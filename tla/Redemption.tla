----------------------------- MODULE Redemption -----------------------------
(***************************************************************************)
(* The floor-arbitrage redemption walk of price_stabilizer                 *)
(* (macro_model.py lines 318-334).  The ledger has already been sorted     *)
(* riskiest first; the loop drops troves from the front while the running  *)
(* total of their debt stays within redemption_pool, then undoes the last  *)
(* addition and trims the residual off the trove now at the front.         *)
(*                                                                         *)
(* Here the loop is a step machine, one action per iteration, checked     *)
(* against the operators of RedemptionWalk.                               *)
(***************************************************************************)
EXTENDS RedemptionWalk

CONSTANTS
  Debts,    \* debts ("Supply") a trove of the sorted ledger may carry
  MaxLen    \* longest ledger the walk is checked on

ASSUME Debts \subseteq Nat \ {0} /\ MaxLen \in Nat

VARIABLES
  sorted,      \* the sorted ledger: troves['Supply'] riskiest first
  pool,        \* redemption_pool
  redempted,   \* running total of the loop
  nRedempt,    \* n_redempt
  working,     \* quantity_working_trove
  pc,          \* "loop", "trim", "done" or "IndexError"
  input        \* ghost: the ledger and pool the walk started from

vars == <<sorted, pool, redempted, nRedempt, working, pc, input>>

(* The pools the walk can be handed: price_stabilizer caps the pool at     *)
(* redemption_ratio * liquidity_pool < supply, so it is below total debt.  *)
Init ==
  /\ sorted \in BoundedSeq(Debts, MaxLen) \ {<<>>}
  /\ pool \in 0..(SumFirst(sorted, Len(sorted)) - 1)
  /\ working = sorted[1]
  /\ redempted = sorted[1]
  /\ nRedempt = 0
  /\ pc = "loop"
  /\ input = [d |-> sorted, pool |-> pool]

(* Mutant: the loop condition written with < instead of <=.               *)
KeepDroppingStrict == redempted < pool

(* The loop condition "while redempted <= redemption_pool".                *)
KeepDropping == redempted <= pool

(* One iteration of the loop body.                                        *)
DropRiskiest ==
  /\ pc = "loop"
  /\ KeepDropping
  /\ IF Len(sorted) = 1
     THEN /\ pc' = "IndexError"
          /\ UNCHANGED <<sorted, redempted, nRedempt, working>>
     ELSE /\ sorted' = Tail(sorted)
          /\ working' = sorted[2]
          /\ redempted' = redempted + sorted[2]
          /\ nRedempt' = nRedempt + 1
          /\ UNCHANGED pc
  /\ UNCHANGED <<pool, input>>

(* Mutant: the trim takes the whole pool, forgetting what was redeemed.   *)
TrimResidualWholePool ==
  /\ pc = "loop"
  /\ ~KeepDropping
  /\ sorted' = [sorted EXCEPT ![1] = @ - pool]
  /\ redempted' = redempted - working
  /\ pc' = "done"
  /\ UNCHANGED <<pool, nRedempt, working, input>>

(* Loop exit: undo the last addition and trim the residual off the front.  *)
TrimResidual ==
  /\ pc = "loop"
  /\ ~KeepDropping
  /\ LET done == redempted - working
     IN /\ sorted' = [sorted EXCEPT ![1] = @ - (pool - done)]
        /\ redempted' = done
  /\ pc' = "done"
  /\ UNCHANGED <<pool, nRedempt, working, input>>

Finished == pc \in {"done", "IndexError"} /\ UNCHANGED vars

Next == DropRiskiest \/ TrimResidual \/ Finished

Spec == Init /\ [][Next]_vars

-----------------------------------------------------------------------------
TypeOK ==
  /\ sorted \in Seq(Nat)
  /\ pool \in Nat /\ redempted \in Nat /\ nRedempt \in Nat
  /\ pc \in {"loop", "done", "IndexError"}

(* When the loop ends it has dropped exactly the troves the ranked         *)
(* selection drops, trimmed the boundary trove by the same residual, left  *)
(* that trove with positive debt, retired exactly redemption_pool, and     *)
(* never indexed past the end of the ledger; RedeemWalk agrees.            *)
WalkMatchesRanking ==
  LET ref == RankedRedemption(input.d, input.pool)
      op  == RedeemWalk(input.d, input.pool)
  IN /\ pc # "IndexError"
     /\ pc = "done" =>
          /\ ref.ok /\ op.ok
          /\ nRedempt = ref.k /\ op.k = ref.k /\ op.residual = ref.residual
          /\ sorted[1] > 0
          /\ SumFirst(input.d, Len(input.d)) - SumFirst(sorted, Len(sorted))
               = input.pool
=============================================================================
