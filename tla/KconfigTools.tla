----------------------------- MODULE KconfigTools ----------------------------
(***************************************************************************)
(* conf and menuconfig, one after the other, on one set of configuration   *)
(* files, while releases come and .config is edited by hand.               *)
(***************************************************************************)
EXTENDS KconfigConf, KconfigMconf
LOCAL INSTANCE SequencesExt

vars == <<shared, confvars, mconfvars>>

Init == ProcessInit /\ ConfInit /\ MconfInit

Next ==
    \/ ConfNext /\ UNCHANGED mconfvars
    \/ MconfNext /\ UNCHANGED confvars
    \/ Environment /\ UNCHANGED <<confvars, mconfvars>>

Spec == Init /\ [][Next]_vars

----------------------------------------------------------------------------
Values(lines) == {lines[i] : i \in DOMAIN lines}
Reread(name) == conf_read(NewTable, files[name])
Configs == {name \in wrote : name # "defconfig"}

\* What a front end has written is what it would write again: reading the file finds
\* nothing to complain about, and writing it gives the same lines.
WrittenIsStable ==
    ~Running => \A name \in Configs :
        \A u \in {Reread(name)} : ~u.changed /\ conf_write(u).lines = files[name]

\* SYMBOL_VALID means that curr is up to date: calculating everything again would
\* change nothing.
ValidIsFresh ==
    Running /\ ~setnew =>
        \A again \in {CalcAll(sym_clear_all_valid(t), for_all_symbols)} :
           \A s \in t.flags["VALID"] : t.curr[s] = again.curr[s] /\ t.visible[s] = again.visible[s]

\* The values of a written file are a solution of what the Kconfig files say, where all
\* other symbols have the values of the file: a visible symbol is at least what selects
\* it, a hidden one exactly what its default, selects and implies give; an int is within
\* its range; of a choice that is shown exactly one value is y.
RulesHold(lines) ==
    LET vals == Values(lines)
        Str1(s) == IF \E x \in vals : x[1] = s THEN (CHOOSE x \in vals : x[1] = s)[2]
                   ELSE IF s \in ConstSymbols THEN s ELSE IF IsBool(s) THEN "n" ELSE ""
        chosen == {c \in ChoiceSyms : \E s \in ToSet(sym_choice_values(c)) : <<s, "y">> \in vals}
        v == [s \in Symbols |->
                [tri |-> CASE s \in {"y"} \cup chosen \/ <<s, "y">> \in vals -> yes
                           [] s = "m" -> mod
                           [] OTHER -> no,
                 str |-> IF s \in chosen THEN "y" ELSE Str1(s)]]
        Val(e) == Value(e, Types(k), v)
        Given(e) == IF e.type # "NULL" /\ Val(e) # no THEN yes ELSE no
        Seen(s) == \E p \in ToSet(PropsOf(k, s)) : p.type \in {"PROMPT", "MENU"} /\ Val(p.visible) # no
        Applying(s, type) == SelectSeq(PropsOf(k, s), LAMBDA p : p.type = type /\ Val(p.visible) # no)
        Default(s) == IF Applying(s, "DEFAULT") = <<>> THEN no ELSE Val(Head(Applying(s, "DEFAULT")).expr)
        Implied(s) == IF Given(k.syms[s].dir_dep) = no /\ k.syms[s].dir_dep.type # "NULL"
                      THEN no ELSE Given(k.syms[s].implied)
        Selected(s) == Given(k.syms[s].rev_dep)
        Hidden(s) == MaxTri({Default(s), Implied(s), Selected(s)})
    IN /\ \A s \in Symbols \ ChoiceSyms : IsBool(s) /\ ~k.syms[s].choiceval =>
             /\ v[s].tri >= Selected(s)
             /\ ~Seen(s) => v[s].tri = Hidden(s)
             /\ (\E x \in vals : x[1] = s) = (Seen(s) \/ Hidden(s) # no)
       /\ \A s \in Symbols : Types(k)[s] = "INT" /\ (\E x \in vals : x[1] = s) /\ Applying(s, "RANGE") # <<>> =>
             LET r == Head(Applying(s, "RANGE")).expr
                 n == strtoll("INT", v[s].str)
             IN strtoll("INT", v[r.sym].str) <= n /\ n <= strtoll("INT", v[r.with].str)
       /\ \A c \in ChoiceSyms :
             LET shown == {s \in ToSet(sym_choice_values(c)) : \E x \in vals : x[1] = s}
             IN shown # {} => Cardinality({s \in shown : v[s].tri = yes}) = 1

WrittenFollowsRules == ~Running => \A name \in Configs : RulesHold(files[name])

----------------------------------------------------------------------------
\* A value that the front end accepts from the user is the one that the symbol then has.
Setting == tool' = tool /\ Running /\ ~setnew /\ (stack # <<>> => Head(stack)[1] # "load")
UserIsHeard ==
    [][Setting => \A s \in Symbols : IsBool(s) /\ t'.def[s].tri # t.def[s].tri =>
            LET tt == t' IN sym_calc_value(tt, s).curr[s].tri = t'.def[s].tri]_vars

\* olddefconfig keeps every answer that .config has and that is still possible.
AnswersAreKept ==
    [][tool = "olddefconfig" /\ ~Running' /\ files[".config"] # NoFile =>
        \A x \in Values(files[".config"]) :
            LET s == x[1]
                others == IF s \in Symbols /\ k.syms[s].choiceval
                          THEN {y \in Values(files[".config"]) : /\ y[2] = "y" /\ y # x
                                                                 /\ y[1] \in ToSet(sym_choice_values(ChoiceOf(k, s)))}
                          ELSE {}
                same == {y \in Values(files[".config"]) : y[1] = s /\ y # x}
            IN s \in Symbols /\ same = {} /\ others = {} /\ t.visible[s] # no /\ t.rev_dep[s] = no
               /\ (k.syms[s].choiceval => x[2] = "y")
               /\ (~IsBool(s) => sym_string_within_range(t, s, x[2]).r)
               => x \in Values(files'[".config"])]_vars

\* A defconfig leaves out only what the defaults give anyway.
DefconfigIsComplete ==
    [][tool = "savedefconfig" /\ ~Running' =>
        \A read \in {conf_read(NewTable, files'["defconfig"])} :
        \A u \in {conf_set_all_new_symbols(read, "default", <<>>, <<>>)} :
            Values(conf_write(u.t).lines) = Values(conf_write(t).lines)]_vars

\* menuconfig that ends without a question leaves nothing behind that its file, the one
\* last loaded or saved, lacks.  The exception is the code's: after a Load of a name
\* without a file it ends without a question whatever was set before, as conf_read has
\* set the change count to 0 by then.
SilentExitLosesNothing ==
    [][tool = "mconf" /\ ~Running' /\ ~t.changed /\ ~missed =>
        files[filename] # NoFile /\ Values(files[filename]) = Values(conf_write(t).lines)]_vars

\* conf ends: it asks a question once, since a pass over the menus that is followed by
\* another has answered something (a choice may be asked again when it offers other
\* values); and where it goes through a choice without a question, the choice's value is
\* among the entries it lists, without which it would list them for ever.
ConfGetsOn ==
    /\ \A i, j \in DOMAIN asked : asked[i] = asked[j] => i = j
    /\ tool = "oldconfig" /\ work # <<>> /\ Head(work)[1] = "choice" =>
          \A c \in {k.menus[Head(work)[2]].sym} :
          \A found \in {ShownOf(sym_calc_value(t, c), Children(k, Head(work)[2]))} :
             found.t.curr[c].tri = yes => \E m \in ToSet(found.shown) : k.menus[m].sym = found.t.curr[c].val
=============================================================================
