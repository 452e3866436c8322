--------------------------- MODULE MCKconfigFiles ---------------------------
(* A bool and a string; the string's value may be written like a bool's.    *)
EXTENDS KconfigFiles, TLC
MCSymbols == {"B", "S"}
MCBooleans == {"B"}
MCValues == {"n", "y"}
MCInputs == {[B |-> "n", S |-> "y"], [B |-> "y", S |-> Hidden]}
=============================================================================
