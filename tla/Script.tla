-------------------------------- MODULE Script --------------------------------
(***************************************************************************)
(* The whole script of macro_model.py: the fixed-rate run (lines 366-456)  *)
(* and then the base-rate run (lines 645-741), each seen through the       *)
(* abstract driver SimulationLog, which MacroStep is checked to refine.    *)
(* The runs share one Python process and nothing catches an exception: a   *)
(* break ends a run and the script goes on, but a ValueError or IndexError *)
(* of either run ends the script.  The records are not what this module    *)
(* is about, so both instances see one committable record.                 *)
(***************************************************************************)
CONSTANTS
  NSim      \* n_sim, the same for both runs

VARIABLES
  idx1, st1,  \* the fixed-rate run: its index and status
  idx2, st2   \* the base-rate run; st2 is "pending" before line 645

vars == <<idx1, st1, idx2, st2>>

Baseline == INSTANCE SimulationLog WITH index <- idx1, status <- st1,
              Ceiling <- 111,
              last <- [Price_NECT |-> 100, liquidity |-> 1, supply_NECT |-> 1]

Policy == INSTANCE SimulationLog WITH index <- idx2, status <- st2,
            Ceiling <- 111,
            last <- [Price_NECT |-> 100, liquidity |-> 1, supply_NECT |-> 1]

Faults == {"ValueError", "IndexError"}

(* The process has ended: an exception of either run, or the second run    *)
(* is over.                                                                *)
Exited == st1 \in Faults \/ st2 \in {"done", "halted"} \cup Faults

Init == Baseline!Init /\ st2 = "pending" /\ idx2 = 1

RunBaseline == Baseline!Next /\ UNCHANGED <<idx2, st2>>

(* Lines 645-660: reached only when the first loop ended without raising.  *)
StartPolicy ==
  /\ st1 \in {"done", "halted"}
  /\ st2 = "pending"
  /\ st2' = "running"
  /\ UNCHANGED <<idx1, st1, idx2>>

RunPolicy == Policy!Next /\ UNCHANGED <<idx1, st1>>

Stopped == Exited /\ UNCHANGED vars

Next == RunBaseline \/ StartPolicy \/ RunPolicy \/ Stopped

Spec == Init /\ [][Next]_vars

-----------------------------------------------------------------------------
(* Spec 4.9 and 7: both simulations run, and a per-step fault aborts only  *)
(* the run it happens in.  So when the script ends, the base-rate run has  *)
(* been started.                                                           *)
PolicyRunsRegardless == Exited => st2 # "pending"
=============================================================================
