----------------------------- MODULE MCServices -----------------------------
(***************************************************************************)
(* The services of the AC5X boards with a trampoline, for TLC.             *)
(***************************************************************************)
EXTENDS Services

CONSTANTS mvIntDrv, mvDmaDrv, mvMbusDrv, gpio_i2c, prestera_shm, prestera

ModulesDef == {mvIntDrv, mvDmaDrv, mvMbusDrv, gpio_i2c, prestera_shm, prestera}
DepsDef == [m \in ModulesDef |-> IF m = prestera_shm THEN {prestera} ELSE {}]
UsesDef == {mvIntDrv, mvDmaDrv, mvMbusDrv}

LoadDef ==
    [cpss     |-> <<mvIntDrv, mvDmaDrv, mvMbusDrv>>,
     platform |-> <<gpio_i2c>>,
     prestera |-> <<prestera_shm>>]
UnloadDef ==
    [cpss     |-> <<mvMbusDrv, mvDmaDrv, mvIntDrv>>,
     platform |-> <<gpio_i2c>>,
     prestera |-> <<prestera_shm, prestera>>]
OrderDef == <<"cpss", "platform", "prestera", Agent>>
=============================================================================
