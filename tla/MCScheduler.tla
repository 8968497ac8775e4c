----------------------------- MODULE MCScheduler -----------------------------
(* Scheduler with the values the TLC runs use. *)
EXTENDS Scheduler, TLC

\* A run of two echo requests: all answered, one lost, nothing transmitted.
ManyResults == { [sent |-> 2, replies |-> 2],
                 [sent |-> 2, replies |-> 1],
                 [sent |-> 0, replies |-> 0] }

OneResult == { [sent |-> 2, replies |-> 1] }

Symmetry == Permutations(Workers)
=============================================================================
