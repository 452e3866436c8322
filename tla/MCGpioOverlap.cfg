SPECIFICATION Spec
CONSTANTS
    sfp0 = sfp0
    sfp1 = sfp1
    NoGpio = NoGpio
    Clients <- MCClients
    Gpios <- MCGpios
    Owns <- MCOwns
    gpio_list <- SharedList
    Bits = {2, 3}
    Inputs <- MCInputs
    RetryCount = 2
    Faults = {}
    ErrBytes <- MCErrBytes
PROPERTY LinesAreIndependent
