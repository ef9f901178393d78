---------------------------- MODULE SimulationLog ----------------------------
(***************************************************************************)
(* What the driver loop of macro_model.py (lines 384-456) promises, seen   *)
(* from the History: a step is one atomic append of a record that the      *)
(* next step can divide by.                                                *)
(*                                                                         *)
(*  - Commit appends a record and advances the step index by one.  The     *)
(*    record's price is positive and at most the ceiling 1.1 + rate, its   *)
(*    liquidity pool (the next price resolution divides by it, line 273)  *)
(*    and its supply (the base rate divides by it, line 671) positive.     *)
(*    So the break on a negative price after the append (line 455) is     *)
(*    never taken.                                                         *)
(*  - Break stops the run without a record (line 431).                     *)
(*  - Fault aborts it with an exception.                                   *)
(***************************************************************************)
EXTENDS Integers

CONSTANTS
  NSim,      \* n_sim
  Ceiling    \* 1.1 + rate_issuance, hundredths

VARIABLES
  index,     \* the next step's index: the History has index records
  last,      \* the last record of the History
  status     \* "running", or how the run ended

avars == <<index, last, status>>

Committable(r) ==
  /\ r.Price_NECT \in 1..Ceiling
  /\ r.liquidity > 0
  /\ r.supply_NECT > 0

Init ==
  /\ index = 1
  /\ Committable(last)
  /\ status = "running"

Commit ==
  /\ status = "running"
  /\ index' = index + 1
  /\ Committable(last)'
  /\ status' = IF index + 1 >= NSim THEN "done" ELSE "running"

Break ==
  /\ status = "running"
  /\ status' = "halted"
  /\ UNCHANGED <<index, last>>

Fault ==
  /\ status = "running"
  /\ status' \in {"ValueError", "IndexError"}
  /\ UNCHANGED <<index, last>>

Next == Commit \/ Break \/ Fault

Spec == Init /\ [][Next]_avars

=============================================================================
