SPECIFICATION FairSpec
CONSTANTS
    sfp0 = sfp0
    sfp1 = sfp1
    NoGpio = NoGpio
    Clients <- MCClients
    Gpios <- MCGpios
    Owns <- MCOwns
    gpio_list <- SharedList
    Bits = {0, 2, 3}
    Inputs <- MCInputs
    RetryCount = 2
    Faults = {"read", "write"}
    ErrBytes <- MCErrBytes
PROPERTIES CallsReturn ForeignBitsKept 
