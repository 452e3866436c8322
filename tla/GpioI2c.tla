------------------------------- MODULE GpioI2c -------------------------------
(***************************************************************************)
(* The gpio-i2c driver: GPIO lines that are bits of CPLD registers behind  *)
(* an I2C bus.                                                             *)
(*                                                                         *)
(* Every SFP cage has its own thread, which reads the cage's los and pres  *)
(* lines and sets its tx_dis line.  A set is a read of the register, a     *)
(* change of the line's bits and a write; the driver holds no lock over    *)
(* the three, and the device tree puts the same line of all cages into one *)
(* register.  A transfer is atomic (the adapter locks the bus) and may     *)
(* fail; the driver then sleeps and tries again, ten times.                *)
(*                                                                         *)
(* A byte is the set of its bits that are 1: & is \cap, | is \cup.         *)
(***************************************************************************)
EXTENDS Integers, Sequences

CONSTANTS
    Clients,     \* the threads that call the driver
    Gpios,       \* the gpio numbers they use
    Owns,        \* Owns[c]: the gpios client c has requested; gpiolib lends a
                 \* gpio to one client only
    gpio_list,   \* the driver's list: records of num, addr, mask
    Bits,        \* the bits of a register
    Inputs,      \* the pairs of address and bit that the hardware drives
    RetryCount,  \* GPIO_I2C_RETRY_COUNT
    Faults,      \* the transfers, "read" and "write", that may fail
    ErrBytes,    \* the low bytes of the error codes a transfer returns
    NoGpio       \* the client is in no call

Kinds == {"get", "high", "low"}

ASSUME ClientsAssumption ==
    /\ Owns \in [Clients -> SUBSET Gpios]
    /\ \A c, d \in Clients : c # d => Owns[c] \cap Owns[d] = {}
    /\ NoGpio \notin Gpios

ASSUME MapAssumption ==
    /\ gpio_list \in Seq([num : Nat, addr : Nat, mask : SUBSET Bits])
    /\ Inputs \subseteq Nat \X Bits

ASSUME BusAssumption ==
    /\ RetryCount \in Nat \ {0}
    /\ Faults \subseteq {"read", "write"}
    /\ ErrBytes \subseteq SUBSET Bits /\ ErrBytes # {}

Entries(g) == {i \in DOMAIN gpio_list : gpio_list[i].num = g}
Lines == {g \in Gpios : Entries(g) # {}}

\* The first entry of the list wins.
gpio_i2c_reg_by_num ==
    [g \in Lines |->
        gpio_list[CHOOSE i \in Entries(g) : \A j \in Entries(g) : i <= j]]

\* gpio_i2c_read and gpio_i2c_write take the address as a u8.
Addr(g) == gpio_i2c_reg_by_num[g].addr % 256
Mask(g) == gpio_i2c_reg_by_num[g].mask

Addrs == {Addr(g) : g \in Lines}
InputsOf(a) == {b \in Bits : <<a, b>> \in Inputs}
InputLines == {g \in Lines : Mask(g) \cap InputsOf(Addr(g)) # {}}

VARIABLES
    reg,    \* the CPLD's registers
    pc,     \* where each client's call is: idle, read or write
    kind,   \* the call it is in: none, get, high or low
    gpio,   \* and the gpio it is for
    retry,  \* tries left in its read or write loop
    val,    \* the byte it is about to write
    ret,    \* what its last get returned
    misread \* history: the registers of which a set took an error code for
            \* the byte

vars == <<reg, pc, kind, gpio, retry, val, ret, misread>>

-----------------------------------------------------------------------------
Level(g, byte) == IF byte \cap Mask(g) # {} THEN "high" ELSE "low"

Init ==
    /\ reg \in [Addrs -> SUBSET Bits]
    /\ pc = [c \in Clients |-> "idle"]
    /\ kind = [c \in Clients |-> "none"]
    /\ gpio = [c \in Clients |-> NoGpio]
    /\ retry = [c \in Clients |-> RetryCount]
    /\ val = [c \in Clients |-> {}]
    /\ ret = [c \in Clients |-> "low"]
    /\ misread = {}

\* gpio_i2c_get_value and gpio_i2c_set_value up to the first transfer.  A gpio
\* that is not in the list is refused before it.
Begin(c) ==
    /\ pc[c] = "idle" /\ pc' = [pc EXCEPT ![c] = "read"]
    /\ \E k \in Kinds, g \in Owns[c] \cap Lines :
        /\ kind' = [kind EXCEPT ![c] = k]
        /\ gpio' = [gpio EXCEPT ![c] = g]
    /\ UNCHANGED <<reg, retry, val, ret, misread>>

\* The call ends and its variables with it.
Return(c) ==
    /\ pc' = [pc EXCEPT ![c] = "idle"]
    /\ kind' = [kind EXCEPT ![c] = "none"]
    /\ gpio' = [gpio EXCEPT ![c] = NoGpio]
    /\ val' = [val EXCEPT ![c] = {}]

\* Mutant of Changed: the byte read is thrown away.
ChangedFromNothing(k, g, byte) == IF k = "high" THEN Mask(g) ELSE {}

\* Mutant of Changed: if (set) is if (!set).
ChangedInverted(k, g, byte) ==
    (byte \ Mask(g)) \cup (IF k = "low" THEN Mask(g) ELSE {})

\* What set_value does to the byte it read.
Changed(k, g, byte) ==
    (byte \ Mask(g)) \cup (IF k = "high" THEN Mask(g) ELSE {})

\* The read loop is over; its caller goes on with the byte.
Fetched(c, byte) ==
    /\ pc[c] = "read"
    /\ retry' = [retry EXCEPT ![c] = RetryCount]
    /\ \/ /\ kind[c] = "get"
          /\ ret' = [ret EXCEPT ![c] = Level(gpio[c], byte)]
          /\ Return(c)
       \/ /\ kind[c] # "get"
          /\ pc' = [pc EXCEPT ![c] = "write"]
          /\ val' = [val EXCEPT ![c] = Changed(kind[c], gpio[c], byte)]
          /\ UNCHANGED <<kind, gpio, ret>>
    /\ UNCHANGED reg

ReadOk(c) == Fetched(c, reg[Addr(gpio[c])]) /\ UNCHANGED misread

\* The last try failed, and the caller takes the error code for the byte.
ReadFailed(c) ==
    /\ "read" \in Faults /\ retry[c] = 1
    /\ \E e \in ErrBytes : Fetched(c, e)
    /\ misread' = IF kind[c] = "get" THEN misread ELSE misread \cup {Addr(gpio[c])}

\* Mutant of TryAgain: retry is set again when it runs out.
TryAgainForever(c) ==
    /\ pc[c] \in Faults
    /\ retry' = [retry EXCEPT ![c] = IF @ = 1 THEN RetryCount ELSE @ - 1]
    /\ UNCHANGED <<reg, pc, kind, gpio, val, ret, misread>>

\* A failed transfer costs a try.
TryAgain(c) ==
    /\ pc[c] \in Faults
    /\ retry[c] > 1 /\ retry' = [retry EXCEPT ![c] = retry[c] - 1]
    /\ UNCHANGED <<reg, pc, kind, gpio, val, ret, misread>>

Written(c) ==
    /\ pc[c] = "write" /\ Return(c)
    /\ retry' = [retry EXCEPT ![c] = RetryCount]
    /\ UNCHANGED <<ret, misread>>

\* A write moves the bits that the hardware does not drive.
WriteOk(c) ==
    LET a == Addr(gpio[c])
    IN  /\ Written(c)
        /\ reg' = [reg EXCEPT ![a] =
                      (val[c] \ InputsOf(a)) \cup (reg[a] \cap InputsOf(a))]

\* set_value ignores what the write loop returns.
WriteFailed(c) ==
    /\ "write" \in Faults /\ retry[c] = 1
    /\ Written(c)
    /\ UNCHANGED reg

\* The hardware moves an input.
Move(a, b) ==
    /\ reg' = [reg EXCEPT ![a] = IF b \in reg[a] THEN reg[a] \ {b}
                                                 ELSE reg[a] \cup {b}]
    /\ UNCHANGED <<pc, kind, gpio, retry, val, ret, misread>>

Work(c) == ReadOk(c) \/ ReadFailed(c) \/ TryAgain(c) \/ WriteOk(c) \/ WriteFailed(c)

Next ==
    \/ \E c \in Clients : Begin(c) \/ Work(c)
    \/ \E a \in Addrs : \E b \in InputsOf(a) : Move(a, b)

Spec == Init /\ [][Next]_vars

\* A transfer, and the sleep before the next one, take a bounded time.
FairSpec == Spec /\ \A c \in Clients : WF_vars(Work(c))

-----------------------------------------------------------------------------
TypeOK ==
    /\ reg \in [Addrs -> SUBSET Bits]
    /\ pc \in [Clients -> {"idle", "read", "write"}]
    /\ kind \in [Clients -> Kinds \cup {"none"}]
    /\ gpio \in [Clients -> Gpios \cup {NoGpio}]
    /\ \A c \in Clients : IF pc[c] = "idle"
                         THEN kind[c] = "none" /\ gpio[c] = NoGpio
                         ELSE kind[c] \in Kinds /\ gpio[c] \in Owns[c] \cap Lines
    /\ retry \in [Clients -> 1..RetryCount]
    /\ val \in [Clients -> SUBSET Bits]
    /\ ret \in [Clients -> {"high", "low"}]
    /\ misread \subseteq Addrs

\* Every call returns, even on a bus where no transfer ever succeeds again.
CallsReturn == \A c \in Clients : pc[c] # "idle" ~> pc[c] = "idle"

\* The bits of the CPLD that are no line of the driver keep their values
\* however the read-modify-write cycles of the clients overlap, as long as no set
\* of their register goes on after a read that failed for good.
Foreign ==
    [a \in Addrs |-> {b \in Bits \ InputsOf(a) :
                        \A g \in Lines : Addr(g) = a => b \notin Mask(g)}]
ForeignBitsKept ==
    [][\A a \in Addrs \ misread :
         reg'[a] \cap Foreign[a] = reg[a] \cap Foreign[a]]_reg

\* A line that is an output changes its level only when a set of that very line
\* ends: lines that share a register do not disturb one another.
LinesAreIndependent ==
    [][\A g \in Lines \ InputLines :
         Level(g, reg'[Addr(g)]) # Level(g, reg[Addr(g)]) =>
            \E c \in Clients : pc[c] = "write" /\ pc'[c] = "idle" /\ gpio[c] = g]_reg

-----------------------------------------------------------------------------
(* The driver as a bank of lines, whether or not they share registers.     *)

\* A device tree in which no bit is two lines, and no line is both read from the
\* hardware and written to it.
SeparateLines ==
    /\ \A g, h \in Lines :
         g # h /\ Addr(g) = Addr(h) => Mask(g) \cap Mask(h) = {}
    /\ \A g \in Lines : Mask(g) # {}
    /\ \A g \in InputLines : Mask(g) \subseteq InputsOf(Addr(g))

OutputsBeside ==
    [g \in Lines |-> {h \in Lines \ InputLines : h # g /\ Addr(h) = Addr(g)}]

LineLevels == [g \in Lines |-> Level(g, reg[Addr(g)])]

\* What the byte on its way to the register would change besides its own line.
WouldChange ==
    [c \in Clients |->
        IF pc[c] # "write" THEN {}
        ELSE {h \in OutputsBeside[gpio[c]] : Level(h, val[c]) # LineLevels[h]}]

Bank == INSTANCE GpioBank WITH level <- LineLevels, doing <- kind,
            undoes <- WouldChange, Beside <- OutputsBeside,
            ReadsFail <- "read" \in Faults

\* The driver keeps GpioBank's promise: a set takes effect at one moment or is lost,
\* and all it may do besides is to undo what sets of other lines of its register did
\* between its read and its write; a get is true of one moment.
BankSpec == Bank!Spec
=============================================================================
