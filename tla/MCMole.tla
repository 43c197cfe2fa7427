------------------------------- MODULE MCMole -------------------------------
(* Instances of Mole for TLC. *)
EXTENDS Mole

CONSTANTS d1, d2

MCDials == {d1, d2}

\* Two dials that meet one fault, one dial that meets two.
MCScenarios == {[dials |-> {d1, d2}, faults |-> 1], [dials |-> {d1}, faults |-> 2]}
=============================================================================
