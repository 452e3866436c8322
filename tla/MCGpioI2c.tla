----------------------------- MODULE MCGpioI2c -----------------------------
(* Two SFP cages on a CPLD.  Bit 2 belongs to sfp0, bit 3 to sfp1; bit 0 is *)
(* no line, and neither is bit 3 of 0x41.  Transfers fail with -EIO, whose     *)
(* low byte is 0xfb.                                                        *)
EXTENDS GpioI2c

CONSTANTS sfp0, sfp1

MCClients == {sfp0, sfp1}
MCErrBytes == {{0, 3} \cap Bits}

\* The lines of ac5x_rd_trampoline.dts: pres at 0x41, tx_dis at 0x42.
MCGpios == {1, 2, 5, 19}
MCOwns == [c \in MCClients |-> IF c = sfp0 THEN {1, 2, 19} ELSE {5}]
MCInputs == {<<65, 2>>}
Line(n, a, m) == [num |-> n, addr |-> a, mask |-> m]
\* The last entry loses to the first one of its number.
SharedList == << Line(5, 66, {3}), Line(2, 66, {2}), Line(1, 65, {2}), Line(5, 65, {3}) >>
=============================================================================
