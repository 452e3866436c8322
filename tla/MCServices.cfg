SPECIFICATION Spec
CONSTANTS
    Rc = Rc
    Shells = {sh1}
    Agents = {a1, a2}
    mvIntDrv = mvIntDrv
    mvDmaDrv = mvDmaDrv
    mvMbusDrv = mvMbusDrv
    gpio_i2c = gpio_i2c
    prestera_shm = prestera_shm
    prestera = prestera
    Modules <- ModulesDef
    Deps <- DepsDef
    Uses <- UsesDef
    Load <- LoadDef
    Unload <- UnloadDef
    Order <- OrderDef
    AutoStart = TRUE
INVARIANTS TypeOK NothingLeftBehind
