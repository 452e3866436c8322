----------------------------- MODULE KconfigData -----------------------------
(***************************************************************************)
(* How kconfig reads and writes .config (confdata.c), which entries it     *)
(* shows (menu.c), and how it gives every new symbol a value.  A file is a *)
(* sequence of lines, a line a symbol with its value: "n" stands for       *)
(* "# SYMBOL is not set" too.                                              *)
(***************************************************************************)
EXTENDS KconfigSymbol
LOCAL INSTANCE SequencesExt

\* An entry is shown: [t, r].  A symbol with a hidden prompt that has a visible child
\* gets SYMBOL_DEF_USER.
RECURSIVE menu_is_visible(_, _), AnyVisible(_, _)
AnyVisible(t, menus) ==
    IF menus = <<>> THEN [t |-> t, r |-> FALSE]
    ELSE With(menu_is_visible(t, Head(menus)), LAMBDA v : IF v.r THEN v ELSE AnyVisible(v.t, Tail(menus)))

\* How visible an entry's prompt is: [t, r].
PromptShown(t, m) ==
    LET e == k.menus[m]
        cond == k.props[e.prompt].visible
    IN With(CalcAll(t, IF e.sym = NoSym THEN SymbolSeq(cond) ELSE <<e.sym>>), LAMBDA u :
            [t |-> u, r |-> IF e.sym = NoSym THEN ValueOf(u, cond) ELSE u.shown[e.prompt]])

ShownByChild(t, m) ==
    LET s == k.menus[m].sym
    IN IF s = NoSym \/ sym_get_tristate_value(t, s) = no THEN [t |-> t, r |-> FALSE]
       ELSE With(AnyVisible(t, Children(k, m)), LAMBDA child :
                IF child.r THEN [child EXCEPT !.t = SetFlag(@, "DEF_USER", {s})] ELSE child)

menu_is_visible(t, m) ==
    IF k.menus[m].prompt = 0 THEN [t |-> t, r |-> FALSE]
    ELSE With(expr_calc_value(t, k.menus[m].visibility), LAMBDA block :
         IF block.r = no THEN [t |-> block.t, r |-> FALSE]
         ELSE With(PromptShown(block.t, m), LAMBDA shown :
              IF shown.r # no THEN [t |-> shown.t, r |-> TRUE] ELSE ShownByChild(shown.t, m)))

----------------------------------------------------------------------------
(* Reading.  c is the table with the number of warnings.                   *)

conf_warning(c) == [c EXCEPT !.warned = TRUE]

\* setsym: the value of a choice follows from its values' lines.
SetChoice(c, s) ==
    LET choice == ChoiceOf(k, s)
        tri == c.t.def[s].tri
        t1 == IF tri = yes THEN [c.t EXCEPT !.def[choice].val = s] ELSE c.t
        t2 == IF tri = mod /\ c.t.def[choice].tri = yes THEN Clear(t1, "DEF_USER", {choice}) ELSE t1
        clash == \/ tri = mod /\ c.t.def[choice].tri = yes
                 \/ tri = yes /\ c.t.def[choice].tri # no
    IN [t |-> [t2 EXCEPT !.def[choice].tri = EXPR_OR(@, tri)], warned |-> c.warned \/ clash]

\* Mutant of conf_set_sym_val: "is not set" leaves no user's value.
conf_set_sym_valUnset(c, s, str) ==
    LET t1 == SetFlag(c.t, "DEF_USER", {s})
        tri == IF str = "y" THEN yes ELSE no
        t2 == IF IsBool(s) THEN [t1 EXCEPT !.def[s].tri = tri] ELSE [t1 EXCEPT !.def[s].val = str]
    IN IF Types(k)[s] = "UNKNOWN" \/ str = "n" THEN c
       ELSE IF k.syms[s].choiceval THEN SetChoice([c EXCEPT !.t = t2], s) ELSE [c EXCEPT !.t = t2]

\* conf_set_sym_val, after the warning about a second line for the symbol.
conf_set_sym_val(c, s, str) ==
    LET c1 == IF sym_has_value(c.t, s) THEN conf_warning(c) ELSE c
        tri == CASE str = "y" -> yes [] str = "m" -> mod [] OTHER -> no
        valid == IF IsBool(s) THEN str \in {"y", "n"} \/ (str = "m" /\ Types(k)[s] = "TRISTATE")
                 ELSE sym_string_valid(Types(k)[s], str)
        t1 == SetFlag(c1.t, "DEF_USER", {s})
        t2 == IF IsBool(s) THEN [t1 EXCEPT !.def[s].tri = tri] ELSE [t1 EXCEPT !.def[s].val = str]
    IN CASE Types(k)[s] = "UNKNOWN" -> c1
         [] Types(k)[s] # "UNKNOWN" /\ ~valid -> conf_warning(c1)
         [] OTHER -> IF k.syms[s].choiceval THEN SetChoice([c1 EXCEPT !.t = t2], s)
                     ELSE [c1 EXCEPT !.t = t2]

ReadLine(c, line) ==
    IF line[1] \in Symbols THEN conf_set_sym_val(c, line[1], line[2])
    ELSE [c EXCEPT !.t.changed = TRUE]      \* a symbol that the Kconfig files have no longer

ChoiceSyms == {s \in Symbols : k.syms[s].choice}

conf_read_simple(t, file) ==
    LET t1 == [Clear(t, "VALID", Symbols \ Tristates) EXCEPT
                  !.flags["DEF_USER"] = ChoiceSyms,
                  !.def = [s \in Symbols |-> [tri |-> no, val |-> NoVal]]]
    IN FoldLeft(ReadLine, [t |-> t1, warned |-> FALSE], file)

\* Symbols whose value in the file is not what it is worth now.
Disagrees(t, s) ==
    IF sym_has_value(t, s) /\ Is(t, "WRITE", s)
    THEN IF IsBool(s) THEN t.def[s].tri # sym_get_tristate_value(t, s)
         ELSE t.def[s].val # t.curr[s].val
    ELSE sym_has_value(t, s) \/ Is(t, "WRITE", s)

\* Mutant of ForgetValue: forgets values of visible symbols too.
ForgetValueSeen(u, s) ==
    IF u.unsaved \/ ~sym_has_value(u.t, s) \/ k.syms[s].choiceval THEN u
    ELSE [u EXCEPT !.t = Clear(u.t, "DEF_USER", {s})]

\* The second loop of conf_read at one symbol: u is [t, unsaved].
ForgetValue(u, s) ==
    LET hidden == u.t.visible[s] = no /\ ~u.unsaved
        Checked(in) == IF in.r THEN [u EXCEPT !.t = in.t]
                       ELSE [t |-> Clear(Clear(in.t, "VALID", {s}), "DEF_USER", {s}), unsaved |-> TRUE]
    IN IF ~sym_has_value(u.t, s) \/ k.syms[s].choiceval THEN u
       ELSE With(IF hidden THEN Clear(u.t, "DEF_USER", {s}) ELSE u.t, LAMBDA w :
                IF Types(k)[s] \notin {"INT", "STRING"} THEN [u EXCEPT !.t = w]
                ELSE Checked(sym_string_within_range(w, s, w.def[s].val)))

\* conf_read of a file that exists.
conf_read(t, file) ==
    LET Unsaved(u) == \E s \in Symbols \ ChoiceSyms : Types(k)[s] # "UNKNOWN" /\ Disagrees(u, s)
    IN With(conf_read_simple([t EXCEPT !.changed = FALSE], file), LAMBDA c :
       With(CalcAll(c.t, for_all_symbols), LAMBDA w :
       With(FoldLeft(ForgetValue, [t |-> w, unsaved |-> Unsaved(w)], for_all_symbols), LAMBDA u :
            [u.t EXCEPT !.changed = @ \/ c.warned \/ u.unsaved])))

----------------------------------------------------------------------------
(* Writing.  w is the table with the lines so far.                         *)

WriteLine(w, t, s) ==
    [t |-> t, lines |-> IF Types(k)[s] = "UNKNOWN" THEN w.lines
                        ELSE Append(w.lines, <<s, sym_get_string_value(t, s)>>)]

WriteEntry(w, m) ==
    LET s == k.menus[m].sym
        Line(u) == IF Is(u, "WRITE", s) THEN WriteLine(w, Clear(u, "WRITE", {s}), s) ELSE [w EXCEPT !.t = u]
    IN CASE s = NoSym -> [w EXCEPT !.t = menu_is_visible(@, m).t]
         [] s # NoSym /\ k.syms[s].choice -> w
         [] OTHER -> Line(sym_calc_value(w.t, s))

conf_write(t) ==
    With(FoldLeft(WriteEntry, [t |-> IF t.changed THEN t ELSE sym_clear_all_valid(t), lines |-> <<>>],
                  Tail(WalkFrom(k, Root))),
         LAMBDA w : [w EXCEPT !.t.changed = FALSE])

\* The symbol is the value that its choice, which has no other way out, takes by default.
IsDefaultChoice(u, s) ==
    With(sym_choice_default(u, ChoiceOf(k, s)), LAMBDA cd :
        [t |-> cd.t, r |-> /\ ~k.syms[ChoiceOf(k, s)].optional /\ s = cd.r
                           /\ Types(k)[s] = "BOOLEAN" /\ sym_get_tristate_value(cd.t, s) = yes])

\* Mutant of IsDefault: whatever value a choice has needs no line.
IsDefaultChosen(u, s) ==
    With(sym_get_string_default(u, s), LAMBDA d :
        [d EXCEPT !.r = \/ sym_get_string_value(u, s) = d.r
                        \/ k.syms[s].choiceval /\ sym_get_tristate_value(u, s) = yes])

\* The defaults give the symbol the value that it has: [t, r].
IsDefault(u, s) ==
    With(sym_get_string_default(u, s), LAMBDA d :
        IF sym_get_string_value(u, s) # d.r /\ k.syms[s].choiceval THEN IsDefaultChoice(d.t, s)
        ELSE [d EXCEPT !.r = sym_get_string_value(u, s) = d.r])

DefLine(w, t, s) ==
    LET u == Clear(t, "WRITE", {s})
    IN CASE ~Is(t, "WRITE", s) -> [w EXCEPT !.t = t]
         [] Is(t, "WRITE", s) /\ ~sym_is_changable(u, s) -> [w EXCEPT !.t = u]
         [] OTHER -> With(IsDefault(u, s), LAMBDA d :
                        IF d.r THEN [w EXCEPT !.t = d.t] ELSE WriteLine(w, d.t, s))

\* An entry of conf_write_defconfig: what the defaults give anyway is left out.
WriteDefEntry(w, m) ==
    LET s == k.menus[m].sym
    IN CASE s = NoSym -> [w EXCEPT !.t = menu_is_visible(@, m).t]
         [] s # NoSym /\ k.syms[s].choice -> w
         [] OTHER -> DefLine(w, sym_calc_value(w.t, s), s)

conf_write_defconfig(t) ==
    FoldLeft(WriteDefEntry, [t |-> sym_clear_all_valid(t), lines |-> <<>>], Tail(WalkFrom(k, Root)))

----------------------------------------------------------------------------
(* Values for all new symbols.                                             *)

\* The symbols that the first loop gives a value.
NewSymbols(t) ==
    {s \in Symbols : ~sym_has_value(t, s) /\ ~Is(t, "VALID", s) /\ sym_get_type(t, s) = "BOOLEAN"}

\* The loop over the choices; pick says which value a random choice takes.
RandomChoice(t, c, pick) ==
    LET values == ToSet(sym_choice_values(c))
        t1 == [t EXCEPT !.def = [s \in values |-> [@[s] EXCEPT !.tri = IF s = pick[c] THEN yes ELSE no]] @@
                                [@ EXCEPT ![c].val = pick[c]]]
    IN IF t.curr[c].tri # yes THEN [t |-> t, r |-> FALSE]
       ELSE [t |-> Clear(SetFlag(t1, "DEF_USER", values \cup {c}), "VALID", values \cup {c}), r |-> TRUE]

NewChoice(u, c, mode, pick) ==
    IF sym_has_value(u.t, c) \/ c \notin ChoiceSyms THEN u
    ELSE With(sym_calc_value(u.t, c), LAMBDA w :
            IF mode = "random" THEN RandomChoice(w, c, pick)
            ELSE [t |-> set_all_choice_values(w, c), r |-> TRUE])

\* mode is "default", "no", "yes" or "random"; random gives a random value to each symbol.
conf_set_all_new_symbols(t, mode, random, pick) ==
    LET new == NewSymbols(t)
        Tri(s) == CASE mode = "yes" -> yes [] mode = "no" -> no [] mode = "random" -> random[s]
        t1 == IF mode = "default" THEN t
              ELSE SetFlag([t EXCEPT !.def = [s \in new |-> [@[s] EXCEPT !.tri = Tri(s)]] @@ @],
                           "DEF_USER", IF mode = "random" THEN new \ ChoiceSyms ELSE new)
        t2 == sym_clear_all_valid(t1)
        need == {c \in Symbols : \/ c \in ChoiceSyms /\ ~sym_has_value(t2, c)
                                 \/ k.syms[c].choiceval}
        t3 == IF mode = "random" THEN t2 ELSE SetFlag(t2, "NEED_SET_CHOICE_VALUES", need)
    IN FoldLeft(LAMBDA u, c : NewChoice(u, c, mode, pick), [t |-> t3, r |-> new # {}], for_all_symbols)
=============================================================================
