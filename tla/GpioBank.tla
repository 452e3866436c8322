------------------------------ MODULE GpioBank ------------------------------
(***************************************************************************)
(* What a bank of GPIO lines promises its clients where lines share        *)
(* registers and nobody locks them.  A set call gives its own line the     *)
(* level asked for, at one moment of the call, or is lost.  At that moment *)
(* it may also undo what other sets have done to the lines beside it, but  *)
(* only what they did while its call was under way: a call begins with     *)
(* nothing to undo.  Nothing else changes an output.  A get call returns   *)
(* the level that its line has at one moment of the call.  Where reads may *)
(* fail for good, a set may change lines beside it at will, and a get      *)
(* return anything.                                                        *)
(***************************************************************************)
CONSTANTS
    Clients,    \* the threads that call the driver
    Owns,       \* Owns[c]: the lines client c has requested
    Lines,      \* the lines that exist
    InputLines, \* the lines the hardware drives
    Beside,     \* Beside[g]: the other outputs in the register of line g
    ReadsFail,  \* a read may fail for good
    NoGpio      \* the client is in no call

VARIABLES
    level,      \* level[g]: line g is "high" or "low"
    doing,      \* the call each client is in: none, get, high or low
    gpio,       \* and the line it is for
    ret,        \* what its last get returned
    undoes      \* the lines whose level its call would change besides

vars == <<level, doing, gpio, ret, undoes>>

Init ==
    /\ level \in [Lines -> {"high", "low"}]
    /\ doing = [c \in Clients |-> "none"]
    /\ gpio = [c \in Clients |-> NoGpio]
    /\ ret = [c \in Clients |-> "low"]
    /\ undoes = [c \in Clients |-> {}]

Sets(c) == doing[c] \in {"high", "low"}

Begin(c) ==
    /\ doing[c] = "none"
    /\ \E k \in {"get", "high", "low"}, g \in Owns[c] \cap Lines :
        /\ doing' = [doing EXCEPT ![c] = k]
        /\ gpio' = [gpio EXCEPT ![c] = g]
    /\ UNCHANGED <<level, ret, undoes>>

Return(c) ==
    /\ doing' = [doing EXCEPT ![c] = "none"]
    /\ gpio' = [gpio EXCEPT ![c] = NoGpio]

Opposite(l) == IF l = "high" THEN "low" ELSE "high"

\* The set takes effect; sets of lines beside those it changes have more to undo.
Take(c) ==
    /\ Sets(c)
    /\ level' = [g \in Lines |->
           IF g = gpio[c] /\ g \notin InputLines THEN doing[c]
           ELSE IF g \in undoes[c] THEN Opposite(level[g]) ELSE level[g]]
    /\ undoes' \in [Clients -> SUBSET Lines] /\ undoes'[c] = {}
    /\ \A d \in Clients \ {c} : \A g \in undoes'[d] \ undoes[d] :
          Sets(d) /\ g \in Beside[gpio[d]] /\ level'[g] # level[g]
    /\ Return(c)
    /\ UNCHANGED ret

Lose(c) ==
    /\ Sets(c)
    /\ undoes' = [undoes EXCEPT ![c] = {}]
    /\ Return(c)
    /\ UNCHANGED <<level, ret>>

\* The set goes on with a byte it has not read.
Misread(c) ==
    /\ ReadsFail /\ Sets(c)
    /\ \E B \in SUBSET Beside[gpio[c]] : undoes' = [undoes EXCEPT ![c] = B]
    /\ UNCHANGED <<level, doing, gpio, ret>>

Answer(c, l) ==
    /\ doing[c] = "get"
    /\ ret' = [ret EXCEPT ![c] = l]
    /\ Return(c)
    /\ UNCHANGED <<level, undoes>>

Sample(c) == Answer(c, level[gpio[c]])
Guess(c)  == ReadsFail /\ \E l \in {"high", "low"} : Answer(c, l)

Move(g) ==
    /\ level' = [level EXCEPT ![g] = Opposite(@)]
    /\ UNCHANGED <<doing, gpio, ret, undoes>>

Next ==
    \/ \E c \in Clients : \/ Begin(c) \/ Take(c) \/ Lose(c) \/ Misread(c)
                          \/ Sample(c) \/ Guess(c)
    \/ \E g \in InputLines : Move(g)

Spec == Init /\ [][Next]_vars
=============================================================================
