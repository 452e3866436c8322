SPECIFICATION Spec
CONSTANTS
    Rc = Rc
    Shells = {sh1, sh2}
    Agents = {a1, a2, a3}
    mvIntDrv = mvIntDrv
    mvMbusDrv = mvMbusDrv
    Modules <- ModulesDef
    Deps <- DepsDef
    Uses <- UsesDef
    Load <- LoadDef
    Unload <- UnloadDef
    Order <- OrderDef
    AutoStart = TRUE
SYMMETRY Symmetry
INVARIANTS OneAgent RestartLeavesAgent DriversBack
