--------------------------- MODULE RedemptionWalk ---------------------------
(***************************************************************************)
(* The redemption walk of price_stabilizer (macro_model.py lines 318-334)  *)
(* as operators: RedeemWalk translates the loop, RankedRedemption is the   *)
(* reference the spec gives for it (spec section 9: "the k riskiest       *)
(* troves plus a partial trim of the boundary trove").  MacroStep uses     *)
(* RedeemWalk; Redemption checks it against the reference.                 *)
(***************************************************************************)
EXTENDS Integers, Sequences, SequencesExt, FiniteSetsExt

(* Sum of the first j debts of d. *)
SumFirst(d, j) == FoldLeft(+, 0, SubSeq(d, 1, j))

(***************************************************************************)
(* The loop as an operator.  i is the position of the trove at the front   *)
(* of the remaining ledger, redempted the running total including it.      *)
(* ok = FALSE is the IndexError of troves.index[0] on an emptied ledger.   *)
(***************************************************************************)
RECURSIVE WalkFrom(_, _, _, _)
WalkFrom(d, pool, i, redempted) ==
  IF redempted <= pool
  THEN IF i + 1 > Len(d)
       THEN [ok |-> FALSE, k |-> i, residual |-> 0]
       ELSE WalkFrom(d, pool, i + 1, redempted + d[i + 1])
  ELSE [ok |-> TRUE, k |-> i - 1, residual |-> pool - (redempted - d[i])]

RedeemWalk(d, pool) ==
  IF d = <<>> THEN [ok |-> FALSE, k |-> 0, residual |-> 0]
              ELSE WalkFrom(d, pool, 1, d[1])

(* Reference: redeem the longest prefix whose debt fits in pool, and trim  *)
(* the next trove by what is left; impossible if the whole ledger fits.    *)
RankedRedemption(d, pool) ==
  LET k == Max({j \in 0..Len(d) : SumFirst(d, j) <= pool})
  IN IF k = Len(d) THEN [ok |-> FALSE]
     ELSE [ok |-> TRUE, k |-> k, residual |-> pool - SumFirst(d, k)]

=============================================================================
