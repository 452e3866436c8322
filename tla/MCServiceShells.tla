-------------------------- MODULE MCServiceShells --------------------------
(***************************************************************************)
(* Several shells at the scripts of the agent and of its drivers, for TLC: *)
(* a driver that the agent opens, which rmmod may refuse, and one that it  *)
(* does not, which is unloaded before.                                     *)
(***************************************************************************)
EXTENDS Services, TLC

CONSTANTS mvIntDrv, mvMbusDrv

ModulesDef == {mvIntDrv, mvMbusDrv}
DepsDef == [m \in ModulesDef |-> {}]
UsesDef == {mvIntDrv}
LoadDef == [cpss |-> <<mvIntDrv, mvMbusDrv>>]
UnloadDef == [cpss |-> <<mvMbusDrv, mvIntDrv>>]
OrderDef == <<"cpss", Agent>>

\* Nothing tells shells apart, nor agents.
Symmetry == Permutations(Shells) \cup Permutations(Agents)
=============================================================================
