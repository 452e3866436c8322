-------------------------- MODULE MCConfigRecovery --------------------------
(* ConfigRecovery on one board, with one XML of each kind.                 *)
EXTENDS ConfigRecovery, TLC

CONSTANTS good, bad   \* an operator's XML that works, and one that does not

MCCustom == {good, bad}
MCWorks == {good, Factory}

Symmetry == Permutations(Trackers)
=============================================================================
