--------------------------- MODULE GpioI2c_proofs ---------------------------
(* What holds of the gpio-i2c driver for every device tree, every number of  *)
(* clients and every number of tries.                                       *)
EXTENDS GpioI2c, WellFoundedInduction, TLAPS

(* The lookup of a gpio that is in the list returns an entry of the list.    *)
LEMMA LookupTyped ==
    ASSUME NEW g \in Lines
    PROVE  gpio_i2c_reg_by_num[g] \in [num : Nat, addr : Nat, mask : SUBSET Bits]
<1>1. Entries(g) \subseteq Nat /\ Entries(g) # {}
  BY MapAssumption DEF Entries, Lines
<1>2. PICK i \in Entries(g) : \A j \in Entries(g) : ~(<<j, i>> \in OpToRel(<, Nat))
  BY <1>1, NatLessThanWellFounded, WFMin, Zenon
<1>3. \A x, y \in Nat : x < y => <<x, y>> \in OpToRel(<, Nat)
  BY Zenon DEF OpToRel
<1>4. \A j \in Entries(g) : ~(j < i)
  BY <1>1, <1>2, <1>3, Zenon
<1>5. \A j \in Entries(g) : i <= j
  BY <1>1, <1>4
<1>6. (CHOOSE k \in Entries(g) : \A j \in Entries(g) : k <= j) \in Entries(g)
  BY <1>5
<1> DEFINE Entry == [num : Nat, addr : Nat, mask : SUBSET Bits]
<1>7. gpio_list \in Seq(Entry)
  BY MapAssumption
<1> HIDE DEF Entry
<1>8. \A k \in DOMAIN gpio_list : gpio_list[k] \in Entry
  BY <1>7
<1>9. gpio_i2c_reg_by_num[g] \in Entry
  BY <1>6, <1>8 DEF gpio_i2c_reg_by_num, Entries
<1> QED
  BY <1>9 DEF Entry

LEMMA LineTyped ==
    ASSUME NEW g \in Lines
    PROVE  Mask(g) \subseteq Bits /\ Addr(g) \in Addrs
BY LookupTyped DEF Mask, Addrs

(***************************************************************************)
(* The driver's state keeps its types; in particular a retry counter never *)
(* leaves 1..RetryCount, and a client in a call is in one for a line that  *)
(* exists and that it owns.                                                *)
(***************************************************************************)
THEOREM TypeCorrect == Spec => []TypeOK
<1>1. Init => TypeOK
  BY BusAssumption DEF Init, TypeOK
<1>2. TypeOK /\ [Next]_vars => TypeOK'
  <2> SUFFICES ASSUME TypeOK, [Next]_vars PROVE TypeOK'
    OBVIOUS
  <2> USE ClientsAssumption, BusAssumption DEF TypeOK, Kinds
  <2>1. ASSUME NEW c \in Clients, Begin(c) PROVE TypeOK'
    BY <2>1 DEF Begin
  <2>2. ASSUME NEW c \in Clients, NEW byte \in SUBSET Bits, Fetched(c, byte),
               misread' \subseteq Addrs
        PROVE  TypeOK'
    <3>1. CASE kind[c] = "get"
      BY <2>2, <3>1 DEF Fetched, Return, Level
    <3>2. CASE kind[c] # "get"
      <4>1. gpio[c] \in Lines
        BY <2>2 DEF Fetched
      <4>2. Changed(kind[c], gpio[c], byte) \in SUBSET Bits
        BY <4>1, LineTyped DEF Changed
      <4> QED
        BY <2>2, <3>2, <4>2 DEF Fetched
    <3> QED
      BY <3>1, <3>2
  <2>3. ASSUME NEW c \in Clients, ReadOk(c) PROVE TypeOK'
    <3>1. gpio[c] \in Lines
      BY <2>3 DEF ReadOk, Fetched
    <3>2. PICK byte \in SUBSET Bits : Fetched(c, byte)
      BY <2>3, <3>1, LineTyped DEF ReadOk
    <3> QED
      BY <2>2, <2>3, <3>2 DEF ReadOk
  <2>4. ASSUME NEW c \in Clients, ReadFailed(c) PROVE TypeOK'
    <3>1. PICK byte \in SUBSET Bits : Fetched(c, byte)
      BY <2>4 DEF ReadFailed
    <3>2. gpio[c] \in Lines
      BY <3>1 DEF Fetched
    <3>3. misread' \subseteq Addrs
      BY <2>4, <3>2, LineTyped DEF ReadFailed
    <3> QED
      BY <2>2, <3>1, <3>3
  <2>5. ASSUME NEW c \in Clients, TryAgain(c) PROVE TypeOK'
    BY <2>5 DEF TryAgain
  <2>6. ASSUME NEW c \in Clients, Written(c), reg' \in [Addrs -> SUBSET Bits]
        PROVE  TypeOK'
    BY <2>6 DEF Written, Return
  <2>7. ASSUME NEW c \in Clients, WriteOk(c) PROVE TypeOK'
    BY <2>6, <2>7 DEF WriteOk
  <2>8. ASSUME NEW c \in Clients, WriteFailed(c) PROVE TypeOK'
    BY <2>6, <2>8 DEF WriteFailed
  <2>9. ASSUME NEW a \in Addrs, NEW b \in InputsOf(a), Move(a, b) PROVE TypeOK'
    BY <2>9 DEF Move, InputsOf
  <2>10. CASE UNCHANGED vars
    BY <2>10 DEF vars
  <2> QED
    BY <2>1, <2>3, <2>4, <2>5, <2>7, <2>8, <2>9, <2>10 DEF Next, Work
<1> QED
  BY <1>1, <1>2, PTL DEF Spec

-----------------------------------------------------------------------------
(***************************************************************************)
(* ForeignBitsKept.  The inductive invariant is about the bytes on their   *)
(* way: a client about to write has the present value of every bit that is *)
(* no line, for nobody changes those, however old its read is.             *)
(***************************************************************************)
FreshForeign ==
    \A c \in Clients : pc[c] = "write" /\ Addr(gpio[c]) \notin misread =>
        LET a == Addr(gpio[c]) IN val[c] \cap Foreign[a] = reg[a] \cap Foreign[a]

ForeignKept ==
    \A a \in Addrs \ misread : reg'[a] \cap Foreign[a] = reg[a] \cap Foreign[a]

LEMMA ForeignStep ==
    ASSUME TypeOK, FreshForeign, Next
    PROVE  ForeignKept
<1>1. ASSUME NEW c \in Clients, WriteOk(c) PROVE ForeignKept
  <2> DEFINE a == Addr(gpio[c])
  <2>1. a \in Addrs /\ pc[c] = "write"
    BY <1>1, LineTyped DEF TypeOK, WriteOk, Written
  <2>2. a \notin misread => val[c] \cap Foreign[a] = reg[a] \cap Foreign[a]
    BY <2>1 DEF FreshForeign
  <2>3. Foreign[a] \cap InputsOf(a) = {}
    BY <2>1 DEF Foreign
  <2>4. reg' = [reg EXCEPT ![a] = (val[c] \ InputsOf(a)) \cup (reg[a] \cap InputsOf(a))]
    BY <1>1 DEF WriteOk
  <2> HIDE DEF a
  <2>5. reg'[a] = (val[c] \ InputsOf(a)) \cup (reg[a] \cap InputsOf(a))
    BY <2>1, <2>4 DEF TypeOK
  <2>6. \A b \in Addrs : b # a => reg'[b] = reg[b]
    BY <2>4 DEF TypeOK
  <2> QED
    BY <2>2, <2>3, <2>5, <2>6 DEF ForeignKept
<1>2. ASSUME NEW a \in Addrs, NEW b \in InputsOf(a), Move(a, b) PROVE ForeignKept
  <2>1. b \notin Foreign[a]
    BY DEF Foreign
  <2>2. \A d \in Addrs : d # a => reg'[d] = reg[d]
    BY <1>2 DEF Move, TypeOK
  <2>3. reg'[a] = reg[a] \cup {b} \/ reg'[a] = reg[a] \ {b}
    BY <1>2 DEF Move, TypeOK
  <2> QED
    BY <2>1, <2>2, <2>3 DEF ForeignKept
<1>3. ASSUME UNCHANGED reg PROVE ForeignKept
  BY <1>3 DEF ForeignKept
<1> QED
  BY <1>1, <1>2, <1>3 DEF Next, Work, Begin, ReadOk, ReadFailed, Fetched, TryAgain, WriteFailed

LEMMA MisreadGrows ==
    ASSUME Next PROVE misread \subseteq misread'
BY DEF Next, Work, Begin, ReadOk, ReadFailed, TryAgain, WriteOk, WriteFailed, Written, Move

LEMMA FreshForeignStep ==
    ASSUME TypeOK, FreshForeign, [Next]_vars
    PROVE  FreshForeign'
<1>1. SUFFICES ASSUME NEW c \in Clients, pc'[c] = "write", Addr(gpio'[c]) \notin misread'
               PROVE  LET a == Addr(gpio'[c])
                      IN  val'[c] \cap Foreign[a] = reg'[a] \cap Foreign[a]
  BY DEF FreshForeign
<1>2. CASE UNCHANGED vars
  BY <1>1, <1>2 DEF vars, FreshForeign
<1>3. CASE Next
  <2>1. ForeignKept
    BY <1>3, ForeignStep
  <2>2. CASE pc[c] = "write" /\ gpio'[c] = gpio[c] /\ val'[c] = val[c]
    <3>1. Addr(gpio[c]) \in Addrs
      BY <2>2, LineTyped DEF TypeOK
    <3>2. misread \subseteq misread'
      BY <1>3, MisreadGrows
    <3>3. Addr(gpio[c]) \notin misread
      BY <1>1, <2>2, <3>2
    <3> QED
      BY <2>1, <2>2, <3>1, <3>3 DEF FreshForeign, ForeignKept
  <2>3. CASE ReadOk(c)
    <3> DEFINE a == Addr(gpio[c])
    <3>1. /\ val'[c] = Changed(kind[c], gpio[c], reg[a])
          /\ gpio'[c] = gpio[c] /\ reg' = reg
      BY <1>1, <2>3 DEF ReadOk, Fetched, Return, TypeOK
    <3>2. gpio[c] \in Lines /\ a \in Addrs
      BY <2>3, LineTyped DEF ReadOk, Fetched, TypeOK
    <3>3. Mask(gpio[c]) \cap Foreign[a] = {}
      BY <3>2 DEF Foreign
    <3> QED
      BY <3>1, <3>3 DEF Changed
  <2>4. ASSUME NEW d \in Clients, Begin(d) \/ Work(d)
        PROVE  \/ pc[c] = "write" /\ gpio'[c] = gpio[c] /\ val'[c] = val[c]
               \/ ReadOk(c)
    BY <1>1, <2>4 DEF Work, Begin, ReadOk, ReadFailed, Fetched, TryAgain, WriteOk,
                      WriteFailed, Written, Return, TypeOK
  <2>5. ASSUME NEW a \in Addrs, NEW b \in InputsOf(a), Move(a, b)
        PROVE  pc[c] = "write" /\ gpio'[c] = gpio[c] /\ val'[c] = val[c]
    BY <1>1, <2>5 DEF Move
  <2> QED
    BY <1>3, <2>2, <2>3, <2>4, <2>5 DEF Next
<1> QED
  BY <1>2, <1>3

(***************************************************************************)
(* Until a set goes on after a read that failed for good, the bits of its  *)
(* register that are no line of the driver are never changed, although the *)
(* clients' sets overlap in every way and each writes the whole register.  *)
(***************************************************************************)
THEOREM ForeignBitsSafe == Spec => ForeignBitsKept
<1>1. Init => FreshForeign
  BY DEF Init, FreshForeign
<1>2. TypeOK /\ FreshForeign /\ [Next]_vars => [ForeignKept]_reg
  BY ForeignStep DEF vars
<1> QED
  BY <1>1, <1>2, FreshForeignStep, TypeCorrect, PTL
     DEF Spec, ForeignBitsKept, ForeignKept

-----------------------------------------------------------------------------
(***************************************************************************)
(* The refinement, with shared registers, reads and writes that fail and   *)
(* sets that overlap.  The byte on its way has the line of its own call    *)
(* right, whatever became of the others since it was read.                 *)
(***************************************************************************)
OwnLine ==
    \A c \in Clients : pc[c] = "write" =>
        kind[c] \in {"high", "low"} /\ Level(gpio[c], val[c]) = kind[c]

\* What a set computes from any byte has its line right.
LEMMA ChangedOwn ==
    ASSUME SeparateLines, NEW k \in {"high", "low"}, NEW g \in Lines, NEW byte
    PROVE  Level(g, Changed(k, g, byte)) = k
<1>1. Mask(g) # {}
  BY DEF SeparateLines
<1> QED
  BY <1>1 DEF Level, Changed

LEMMA OwnLineStep ==
    ASSUME SeparateLines, TypeOK, OwnLine, [Next]_vars
    PROVE  OwnLine'
<1> SUFFICES ASSUME NEW c \in Clients, pc'[c] = "write"
             PROVE  kind'[c] \in {"high", "low"} /\ Level(gpio'[c], val'[c]) = kind'[c]
  BY DEF OwnLine, Level
<1>1. ASSUME NEW d \in Clients, NEW byte, Fetched(d, byte)
      PROVE  kind'[c] \in {"high", "low"} /\ Level(gpio'[c], val'[c]) = kind'[c]
  <2>1. CASE d # c
    BY <1>1, <2>1 DEF Fetched, Return, TypeOK, OwnLine
  <2>2. CASE d = c
    <3>1. /\ kind[c] \in {"high", "low"} /\ gpio[c] \in Lines
          /\ val'[c] = Changed(kind[c], gpio[c], byte) /\ UNCHANGED <<kind, gpio>>
      BY <1>1, <2>2 DEF Fetched, Return, TypeOK, Kinds
    <3> QED
      BY <3>1, ChangedOwn
  <2> QED
    BY <2>1, <2>2
<1>2. CASE \A d \in Clients : ~ReadOk(d) /\ ~ReadFailed(d)
  <2>1. /\ pc[c] = "write" /\ gpio'[c] = gpio[c] /\ kind'[c] = kind[c]
        /\ val'[c] = val[c]
    BY <1>2 DEF Next, Work, Begin, TryAgain, WriteOk, WriteFailed, Written, Return,
                Move, vars, TypeOK
  <2> QED
    BY <2>1 DEF OwnLine
<1> QED
  BY <1>1, <1>2 DEF ReadOk, ReadFailed

\* What a write does to the level of a line.
LEMMA WriteOnLines ==
    ASSUME SeparateLines, TypeOK, OwnLine, NEW c \in Clients, WriteOk(c), NEW h \in Lines
    PROVE  LineLevels'[h] =
               IF h = gpio[c] /\ h \notin InputLines THEN kind[c]
               ELSE IF h \in WouldChange[c] THEN Bank!Opposite(LineLevels[h])
               ELSE LineLevels[h]
<1> DEFINE a == Addr(gpio[c])
           ins == InputsOf(a)
<1>1. pc[c] = "write" /\ gpio[c] \in Lines /\ a \in Addrs
  BY LineTyped DEF WriteOk, Written, TypeOK
<1>2. /\ reg'[a] = (val[c] \ ins) \cup (reg[a] \cap ins)
      /\ Addr(h) # a => reg'[Addr(h)] = reg[Addr(h)]
  BY <1>1, LineTyped DEF WriteOk, TypeOK
<1>3. LineLevels'[h] = Level(h, reg'[Addr(h)]) /\ LineLevels[h] = Level(h, reg[Addr(h)])
  BY DEF LineLevels
<1>4. WouldChange[c] = {x \in OutputsBeside[gpio[c]] : Level(x, val[c]) # LineLevels[x]}
  BY <1>1 DEF WouldChange
<1>5. OutputsBeside[gpio[c]] = {x \in Lines \ InputLines : x # gpio[c] /\ Addr(x) = a}
  BY <1>1 DEF OutputsBeside
<1>6. CASE Addr(h) # a
  BY <1>2, <1>3, <1>4, <1>5, <1>6
<1>7. CASE Addr(h) = a /\ h \in InputLines
  <2>1. Mask(h) \subseteq ins
    BY <1>7 DEF SeparateLines
  <2>2. reg'[a] \cap Mask(h) = reg[a] \cap Mask(h)
    <3> HIDE DEF a, ins
    <3> QED
      BY <1>2, <2>1
  <2>3. LineLevels'[h] = LineLevels[h]
    BY <1>3, <1>7, <2>2 DEF Level
  <2> QED
    BY <1>4, <1>5, <1>7, <2>3
<1>8. CASE Addr(h) = a /\ h \notin InputLines
  <2>1. Mask(h) \cap ins = {}
    BY <1>8, LineTyped DEF InputLines
  <2>2. reg'[a] \cap Mask(h) = val[c] \cap Mask(h)
    <3> HIDE DEF a, ins
    <3> QED
      BY <1>2, <2>1
  <2>3. LineLevels'[h] = Level(h, val[c])
    BY <1>3, <1>8, <2>2 DEF Level
  <2>4. CASE h = gpio[c]
    BY <1>1, <1>8, <2>3, <2>4 DEF OwnLine
  <2>5. CASE h # gpio[c]
    <3>1. LineLevels'[h] \in {"high", "low"} /\ LineLevels[h] \in {"high", "low"}
      BY <1>3 DEF Level
    <3>2. h \in WouldChange[c] <=> LineLevels'[h] # LineLevels[h]
      BY <1>4, <1>5, <1>8, <2>3, <2>5
    <3> QED
      BY <2>5, <3>1, <3>2 DEF Bank!Opposite
  <2> QED
    BY <2>4, <2>5
<1> QED
  BY <1>6, <1>7, <1>8

\* What a write leaves to the sets of others.
LEMMA OthersUndo ==
    ASSUME TypeOK, OwnLine, NEW c \in Clients, WriteOk(c), NEW d \in Clients \ {c},
           NEW h \in WouldChange'[d] \ WouldChange[d]
    PROVE  /\ kind[d] \in {"high", "low"} /\ h \in OutputsBeside[gpio[d]]
           /\ LineLevels'[h] # LineLevels[h]
<1>1. pc'[d] = pc[d] /\ val'[d] = val[d] /\ gpio'[d] = gpio[d]
  BY DEF WriteOk, Written, Return, TypeOK
<1>2. pc[d] = "write"
  BY <1>1 DEF WouldChange
<1>3. /\ WouldChange[d] = {x \in OutputsBeside[gpio[d]] : Level(x, val[d]) # LineLevels[x]}
      /\ WouldChange'[d] = {x \in OutputsBeside[gpio[d]] : Level(x, val[d]) # LineLevels'[x]}
  BY <1>1, <1>2 DEF WouldChange, Level
<1> QED
  BY <1>2, <1>3 DEF OwnLine

\* An input moves at most the line it belongs to, and that line is an input.
LEMMA MoveMovesOneLine ==
    ASSUME SeparateLines, TypeOK, NEW a \in Addrs, NEW b \in InputsOf(a), Move(a, b)
    PROVE  /\ \A h \in Lines \ InputLines : LineLevels'[h] = LineLevels[h]
           /\ \/ LineLevels' = LineLevels
              \/ \E g \in InputLines :
                    LineLevels' = [LineLevels EXCEPT ![g] = Bank!Opposite(@)]
<1>1. reg' = [reg EXCEPT ![a] = IF b \in reg[a] THEN reg[a] \ {b} ELSE reg[a] \cup {b}]
  BY DEF Move
<1>2. \A d \in Addrs : d # a => reg'[d] = reg[d]
  BY <1>1 DEF TypeOK
<1>3. reg'[a] \ {b} = reg[a] \ {b}
  BY <1>1 DEF TypeOK
<1>4. ASSUME NEW h \in Lines, ~(Addr(h) = a /\ b \in Mask(h))
      PROVE  LineLevels'[h] = LineLevels[h]
  <2>1. CASE Addr(h) # a
    BY <1>2, <2>1, LineTyped DEF LineLevels
  <2>2. CASE Addr(h) = a /\ b \notin Mask(h)
    <3>1. reg'[a] \cap Mask(h) = reg[a] \cap Mask(h)
      BY <1>3, <2>2
    <3> QED
      BY <2>2, <3>1 DEF Level, LineLevels
  <2> QED
    BY <1>4, <2>1, <2>2
<1>5. \A h \in Lines \ InputLines : ~(Addr(h) = a /\ b \in Mask(h))
  BY DEF InputLines
<1>6. CASE \A h \in Lines : LineLevels'[h] = LineLevels[h]
  BY <1>4, <1>5, <1>6 DEF LineLevels
<1>7. ASSUME NEW g \in Lines, LineLevels'[g] # LineLevels[g]
      PROVE  /\ g \in InputLines
             /\ LineLevels' = [LineLevels EXCEPT ![g] = Bank!Opposite(@)]
  <2>1. Addr(g) = a /\ b \in Mask(g)
    BY <1>4, <1>7
  <2>2. g \in InputLines
    BY <2>1, <1>5
  <2>3. ASSUME NEW h \in Lines, h # g PROVE LineLevels'[h] = LineLevels[h]
    <3>1. ~(Addr(h) = a /\ b \in Mask(h))
      BY <2>1, <2>3 DEF SeparateLines
    <3> QED
      BY <1>4, <3>1
  <2>4. LineLevels'[g] \in {"high", "low"} /\ LineLevels[g] \in {"high", "low"}
    BY DEF LineLevels, Level
  <2>5. LineLevels'[g] = Bank!Opposite(LineLevels[g])
    BY <2>4, <1>7 DEF Bank!Opposite
  <2>6. LineLevels' = [LineLevels EXCEPT ![g] = Bank!Opposite(@)]
    BY <2>3, <2>5 DEF LineLevels
  <2> QED
    BY <2>2, <2>6
<1> QED
  BY <1>4, <1>5, <1>6, <1>7

\* What a call would change depends on the outputs and on the byte it has.
LEMMA SameByte ==
    ASSUME TypeOK, UNCHANGED <<pc, gpio, val>>,
           \A h \in Lines \ InputLines : LineLevels'[h] = LineLevels[h]
    PROVE  UNCHANGED WouldChange
<1>1. ASSUME NEW c \in Clients, pc[c] = "write"
      PROVE  {h \in OutputsBeside[gpio[c]] : Level(h, val[c]) # LineLevels'[h]}
               = {h \in OutputsBeside[gpio[c]] : Level(h, val[c]) # LineLevels[h]}
  <2>1. OutputsBeside[gpio[c]] \subseteq Lines \ InputLines
    BY <1>1 DEF OutputsBeside, TypeOK
  <2> QED
    BY <2>1
<1> QED
  BY <1>1 DEF WouldChange, Level

\* The end of a call, seen from the others.
LEMMA EndOfCall ==
    ASSUME TypeOK, NEW c \in Clients, Return(c), UNCHANGED reg
    PROVE  WouldChange' = [WouldChange EXCEPT ![c] = {}]
<1>1. pc'[c] = "idle" /\ \A d \in Clients \ {c} :
          pc'[d] = pc[d] /\ val'[d] = val[d] /\ gpio'[d] = gpio[d]
  BY DEF Return, TypeOK
<1>2. UNCHANGED LineLevels
  BY DEF LineLevels, Level
<1> QED
  BY <1>1, <1>2 DEF WouldChange, Level

LEMMA BankStep ==
    ASSUME SeparateLines, TypeOK, OwnLine, [Next]_vars
    PROVE  [Bank!Next]_(Bank!vars)
<1>1. CASE UNCHANGED vars
  BY <1>1 DEF vars, Bank!vars, LineLevels, WouldChange, Level
<1>2. ASSUME NEW c \in Clients, Begin(c) PROVE Bank!Next
  <2>1. LineLevels' = LineLevels
    BY <1>2 DEF Begin, LineLevels, Level
  <2>2. kind[c] = "none" /\ pc[c] = "idle" /\ pc'[c] = "read"
    BY <1>2 DEF Begin, TypeOK
  <2>3. \A d \in Clients \ {c} : pc'[d] = pc[d] /\ gpio'[d] = gpio[d] /\ val'[d] = val[d]
    BY <1>2 DEF Begin, TypeOK
  <2>4. WouldChange' = WouldChange
    BY <2>1, <2>2, <2>3 DEF WouldChange, Level
  <2>5. Bank!Begin(c)
    BY <1>2, <2>1, <2>2, <2>4 DEF Begin, Kinds, Bank!Begin
  <2> QED
    BY <2>5 DEF Bank!Next
\* The two ends of the read loop.
<1>f. ASSUME NEW c \in Clients, NEW byte, Fetched(c, byte)
      PROVE  /\ UNCHANGED LineLevels /\ gpio[c] \in Lines /\ pc[c] = "read"
             /\ kind[c] = "get" => Bank!Answer(c, Level(gpio[c], byte))
             /\ kind[c] # "get" =>
                  /\ UNCHANGED <<kind, gpio, ret>> /\ kind[c] \in {"high", "low"}
                  /\ WouldChange' = [WouldChange EXCEPT ![c] =
                       {h \in OutputsBeside[gpio[c]] :
                          Level(h, Changed(kind[c], gpio[c], byte)) # LineLevels[h]}]
  <2>1. UNCHANGED LineLevels /\ pc[c] = "read"
    BY <1>f DEF Fetched, LineLevels, Level
  <2>2. gpio[c] \in Lines
    BY <1>f DEF Fetched, TypeOK
  <2>3. ASSUME kind[c] = "get" PROVE Bank!Answer(c, Level(gpio[c], byte))
    <3>1. Return(c) /\ UNCHANGED reg /\ ret' = [ret EXCEPT ![c] = Level(gpio[c], byte)]
      BY <1>f, <2>3 DEF Fetched
    <3>2. UNCHANGED WouldChange
      <4>1. WouldChange' = [WouldChange EXCEPT ![c] = {}]
        BY <3>1, EndOfCall
      <4>2. WouldChange[c] = {}
        BY <2>1 DEF WouldChange
      <4> QED
        BY <4>1, <4>2 DEF WouldChange
    <3> QED
      BY <2>1, <2>3, <3>1, <3>2 DEF Return, Bank!Answer, Bank!Return
  <2>4. ASSUME kind[c] # "get"
        PROVE  /\ UNCHANGED <<kind, gpio, ret>> /\ kind[c] \in {"high", "low"}
               /\ WouldChange' = [WouldChange EXCEPT ![c] =
                    {h \in OutputsBeside[gpio[c]] :
                       Level(h, Changed(kind[c], gpio[c], byte)) # LineLevels[h]}]
    <3>1. /\ UNCHANGED <<kind, gpio, ret>> /\ kind[c] \in {"high", "low"}
          /\ pc'[c] = "write" /\ val'[c] = Changed(kind[c], gpio[c], byte)
          /\ \A d \in Clients \ {c} : pc'[d] = pc[d] /\ val'[d] = val[d]
      BY <1>f, <2>4 DEF Fetched, TypeOK, Kinds
    <3> DEFINE new == {h \in OutputsBeside[gpio[c]] :
                         Level(h, Changed(kind[c], gpio[c], byte)) # LineLevels[h]}
    <3>2. WouldChange'[c] = new
      BY <3>1, <2>1 DEF WouldChange, Level
    <3>3. \A d \in Clients \ {c} : WouldChange'[d] = WouldChange[d]
      BY <3>1, <2>1 DEF WouldChange, Level
    <3> HIDE DEF new
    <3>4. WouldChange' = [WouldChange EXCEPT ![c] = new]
      BY <3>2, <3>3 DEF WouldChange
    <3> QED
      BY <3>1, <3>4 DEF new
  <2> QED
    BY <2>1, <2>2, <2>3, <2>4
<1>3. ASSUME NEW c \in Clients, ReadOk(c) PROVE Bank!Next \/ UNCHANGED Bank!vars
  <2> DEFINE byte == reg[Addr(gpio[c])]
  <2>1. Fetched(c, byte)
    BY <1>3 DEF ReadOk
  <2>2. gpio[c] \in Lines /\ LineLevels[gpio[c]] = Level(gpio[c], byte)
    BY <2>1, <1>f DEF LineLevels
  <2>3. CASE kind[c] = "get"
    <3>1. Bank!Sample(c)
      BY <2>1, <2>2, <2>3, <1>f DEF Bank!Sample
    <3> QED
      BY <3>1 DEF Bank!Next
  <2>4. CASE kind[c] # "get"
    <3> DEFINE new == {h \in OutputsBeside[gpio[c]] :
                         Level(h, Changed(kind[c], gpio[c], byte)) # LineLevels[h]}
    <3>1. ASSUME NEW h \in OutputsBeside[gpio[c]]
          PROVE  Level(h, Changed(kind[c], gpio[c], byte)) = LineLevels[h]
      <4>1. h \in Lines /\ h # gpio[c] /\ Addr(h) = Addr(gpio[c])
        BY <2>2, <3>1 DEF OutputsBeside
      <4>2. Mask(h) \cap Mask(gpio[c]) = {}
        BY <2>2, <4>1 DEF SeparateLines
      <4>3. Changed(kind[c], gpio[c], byte) \cap Mask(h) = byte \cap Mask(h)
        <5> HIDE DEF byte
        <5> QED
          BY <4>2 DEF Changed
      <4> QED
        BY <4>1, <4>3 DEF Level, LineLevels
    <3>2. new = {}
      BY <3>1
    <3>3. WouldChange[c] = {}
      BY <2>1, <1>f DEF WouldChange
    <3>4. UNCHANGED <<LineLevels, kind, gpio, ret>>
      BY <2>1, <2>4, <1>f
    <3>5. WouldChange' = [WouldChange EXCEPT ![c] = new]
      BY <2>1, <2>4, <1>f
    <3> HIDE DEF new
    <3>6. WouldChange' = WouldChange
      BY <3>2, <3>3, <3>5 DEF WouldChange
    <3> QED
      BY <3>4, <3>6 DEF Bank!vars
  <2> QED
    BY <2>3, <2>4
<1>4. ASSUME NEW c \in Clients, ReadFailed(c) PROVE Bank!Next
  <2>1. PICK byte : Fetched(c, byte)
    BY <1>4 DEF ReadFailed
  <2>2. "read" \in Faults
    BY <1>4 DEF ReadFailed
  <2>3. CASE kind[c] = "get"
    <3>1. Level(gpio[c], byte) \in {"high", "low"}
      BY DEF Level
    <3>2. Bank!Guess(c)
      BY <2>1, <2>2, <2>3, <3>1, <1>f DEF Bank!Guess
    <3> QED
      BY <3>2 DEF Bank!Next
  <2>4. CASE kind[c] # "get"
    <3> DEFINE new == {h \in OutputsBeside[gpio[c]] :
                         Level(h, Changed(kind[c], gpio[c], byte)) # LineLevels[h]}
    <3>1. /\ UNCHANGED <<LineLevels, kind, gpio, ret>> /\ kind[c] \in {"high", "low"}
          /\ WouldChange' = [WouldChange EXCEPT ![c] = new]
      BY <2>1, <2>4, <1>f
    <3>2. new \in SUBSET OutputsBeside[gpio[c]]
      OBVIOUS
    <3> HIDE DEF new
    <3>3. Bank!Misread(c)
      BY <2>2, <3>1, <3>2 DEF Bank!Misread, Bank!Sets
    <3> QED
      BY <3>3 DEF Bank!Next
  <2> QED
    BY <2>3, <2>4
<1>5. ASSUME NEW c \in Clients, TryAgain(c) PROVE UNCHANGED Bank!vars
  BY <1>5 DEF TryAgain, Bank!vars, LineLevels, WouldChange, Level
<1>6. ASSUME NEW c \in Clients, WriteOk(c) PROVE Bank!Next
  <2>1. /\ kind[c] \in {"high", "low"} /\ Bank!Return(c) /\ ret' = ret
        /\ pc'[c] = "idle"
    BY <1>6 DEF WriteOk, Written, Return, OwnLine, TypeOK, Bank!Return
  <2>2. LineLevels' = [g \in Lines |->
           IF g = gpio[c] /\ g \notin InputLines THEN kind[c]
           ELSE IF g \in WouldChange[c] THEN Bank!Opposite(LineLevels[g])
           ELSE LineLevels[g]]
    <3>1. LineLevels' = [g \in Lines |-> LineLevels'[g]]
      BY DEF LineLevels
    <3> QED
      BY <3>1, <1>6, WriteOnLines
  <2>3. WouldChange'[c] = {}
    BY <2>1 DEF WouldChange
  <2>4. WouldChange' \in [Clients -> SUBSET Lines]
    <3>1. ASSUME NEW d \in Clients, pc'[d] = "write"
          PROVE  OutputsBeside[gpio'[d]] \subseteq Lines
      <4>1. d # c /\ pc[d] = "write" /\ gpio'[d] = gpio[d]
        BY <3>1, <2>1, <1>6 DEF WriteOk, Written, Return, TypeOK
      <4>2. gpio[d] \in Lines
        BY <4>1 DEF TypeOK
      <4> QED
        BY <4>1, <4>2 DEF OutputsBeside
    <3> QED
      BY <3>1 DEF WouldChange
  <2>5. \A d \in Clients \ {c} : \A h \in WouldChange'[d] \ WouldChange[d] :
           /\ Bank!Sets(d) /\ h \in OutputsBeside[gpio[d]]
           /\ LineLevels'[h] # LineLevels[h]
    BY <1>6, OthersUndo DEF Bank!Sets
  <2>6. Bank!Take(c)
    BY <2>1, <2>2, <2>3, <2>4, <2>5 DEF Bank!Take, Bank!Sets
  <2> QED
    BY <2>6 DEF Bank!Next
<1>7. ASSUME NEW c \in Clients, WriteFailed(c) PROVE Bank!Next
  <2>1. /\ kind[c] \in {"high", "low"} /\ Return(c) /\ UNCHANGED <<ret, reg>>
    BY <1>7 DEF WriteFailed, Written, OwnLine
  <2>2. WouldChange' = [WouldChange EXCEPT ![c] = {}] /\ UNCHANGED LineLevels
    BY <2>1, EndOfCall DEF LineLevels, Level
  <2>3. Bank!Lose(c)
    BY <2>1, <2>2 DEF Return, Bank!Lose, Bank!Return, Bank!Sets
  <2> QED
    BY <2>3 DEF Bank!Next
<1>8. ASSUME NEW a \in Addrs, NEW b \in InputsOf(a), Move(a, b)
      PROVE  Bank!Next \/ UNCHANGED Bank!vars
  <2>1. UNCHANGED WouldChange /\ UNCHANGED <<kind, gpio, ret>>
    BY <1>8, MoveMovesOneLine, SameByte DEF Move
  <2>2. CASE LineLevels' = LineLevels
    BY <2>1, <2>2 DEF Bank!vars
  <2>3. CASE \E g \in InputLines :
                LineLevels' = [LineLevels EXCEPT ![g] = Bank!Opposite(@)]
    <3>1. PICK g \in InputLines : Bank!Move(g)
      BY <2>1, <2>3 DEF Bank!Move
    <3> QED
      BY <3>1 DEF Bank!Next
  <2> QED
    BY <1>8, <2>2, <2>3, MoveMovesOneLine
<1> QED
  BY <1>1, <1>2, <1>3, <1>4, <1>5, <1>6, <1>7, <1>8 DEF Next, Work

(***************************************************************************)
(* For every device tree that keeps its lines apart, with any sharing of   *)
(* registers, any number of clients and any transfers that may fail, the   *)
(* driver implements GpioBank: a set takes effect at one moment or is      *)
(* lost, and besides it undoes no more than what other sets did to lines   *)
(* of its register between its read and its write.                         *)
(***************************************************************************)
THEOREM BankImplemented == ASSUME SeparateLines PROVE Spec => BankSpec
<1>1. Init => OwnLine
  BY DEF Init, OwnLine
<1>2. Init => Bank!Init
  <2> SUFFICES ASSUME Init PROVE Bank!Init
    OBVIOUS
  <2>1. LineLevels \in [Lines -> {"high", "low"}]
    BY DEF LineLevels, Level
  <2>2. WouldChange = [c \in Clients |-> {}]
    BY DEF Init, WouldChange
  <2> QED
    BY <2>1, <2>2 DEF Init, Bank!Init
<1> QED
  BY <1>1, <1>2, BankStep, OwnLineStep, TypeCorrect, PTL
     DEF Spec, BankSpec, Bank!Spec
=============================================================================
