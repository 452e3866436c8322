---------------------------- MODULE KconfigSymbol ----------------------------
(***************************************************************************)
(* The values of kconfig's symbols (symbol.c): how they are calculated and *)
(* cached, and what an attempt to set one does.                            *)
(*                                                                         *)
(* A handler of the code is a function of the table t, the part of the     *)
(* symbols that changes; it returns the new table, or the table and a      *)
(* result r.  Hex symbols are left out, and so is what only marks a symbol *)
(* for display (SYMBOL_CHANGED).  No tristate is ever m: modules_val is no.*)
(***************************************************************************)
EXTENDS KconfigMenu, TLC
LOCAL INSTANCE SequencesExt

CONSTANTS
    HashOrder,  \* all symbols, in the order of for_all_symbols
    IntText     \* the strings that sym_string_valid accepts for an int

VARIABLE k      \* the finalized tables of the Kconfig files

ASSUME IntTextAssumption == IntText \subseteq DOMAIN Number["INT"]

Symbols == DOMAIN k.syms
for_all_symbols == SelectSeq(HashOrder, LAMBDA s : s \in DOMAIN k.syms)
NoVal == "(null)"      \* no string and no symbol in def[S_DEF_USER].val
Flags == {"VALID", "DEF_USER", "WRITE", "NEED_SET_CHOICE_VALUES"}

\* The symbols after conf_parse.  A flag is the set of the symbols that have it.
NewTable ==
    [curr |-> [s \in Symbols |-> [tri |-> CASE s = "y" -> yes [] s = "m" -> mod [] OTHER -> no,
                                  val |-> s]],
     def  |-> [s \in Symbols |-> [tri |-> no, val |-> NoVal]],
     flags |-> [f \in Flags |-> IF f = "VALID" THEN Tristates ELSE {}],
     visible |-> [s \in Symbols |-> no],
     dir_dep |-> [s \in Symbols |-> no], rev_dep |-> [s \in Symbols |-> no],
     implied |-> [s \in Symbols |-> no],
     shown |-> [p \in DOMAIN k.props |-> no],     \* a prompt's visible.tri
     changed |-> FALSE]                           \* sym_change_count # 0

Is(t, f, s) == s \in t.flags[f]
SetFlag(t, f, set) == [t EXCEPT !.flags[f] = @ \cup set]
Clear(t, f, set) == [t EXCEPT !.flags[f] = @ \ set]

sym_has_value(t, s) == Is(t, "DEF_USER", s)
modules_val == no
IsBool(s) == Types(k)[s] \in {"BOOLEAN", "TRISTATE"}
\* sym_get_type is S_BOOLEAN: a tristate is as good as a bool without modules.
sym_get_type(t, s) ==
    IF Types(k)[s] = "TRISTATE" /\ (modules_val = no \/ (k.syms[s].choiceval /\ t.visible[s] = yes))
    THEN "BOOLEAN" ELSE Types(k)[s]
Bool(t, s, tri) == IF tri = mod /\ sym_get_type(t, s) = "BOOLEAN" THEN yes ELSE tri

sym_get_tristate_value(t, s) == t.curr[s].tri
sym_get_string_value(t, s) ==
    IF IsBool(s)
    THEN IF t.curr[s].tri = mod /\ modules_val = no THEN "n" ELSE TriName(t.curr[s].tri)
    ELSE t.curr[s].val

sym_get_choice_prop(s) == CHOOSE p \in ToSet(PropsOf(k, s)) : p.type = "CHOICE"
PropIds(s, types) ==
    SetToSortSeq({p \in DOMAIN k.props : k.props[p].sym = s /\ k.props[p].type \in types}, <)

\* An expression's value when its symbols have been calculated.
ValueOf(t, e) ==
    Value(e, Types(k), [s \in Symbols |-> [tri |-> t.curr[s].tri, str |-> sym_get_string_value(t, s)]])

sym_choice_values(c) == sym_get_choice_prop(c).expr.syms

set_all_choice_values(t, c) ==
    LET unset == ToSet(sym_choice_values(c)) \ t.flags["DEF_USER"]
    IN [t EXCEPT !.def = [s \in unset |-> [@[s] EXCEPT !.tri = no]] @@ @,
                 !.flags = [@ EXCEPT !["DEF_USER"] = @ \cup {c}, !["VALID"] = @ \ {c},
                                     !["NEED_SET_CHOICE_VALUES"] = @ \ {c}]]

----------------------------------------------------------------------------
(* Calculating.  Where the code calculates the symbols of an expression on *)
(* the way through it, CalcAll does so first.                              *)

RECURSIVE sym_calc_value(_, _), CalcAll(_, _), expr_calc_value(_, _), FirstVisible(_, _)

CalcAll(t, symbols) ==
    IF symbols = <<>> THEN t
    ELSE With(sym_calc_value(t, Head(symbols)), LAMBDA u : CalcAll(u, Tail(symbols)))

expr_calc_value(t, e) ==
    With(CalcAll(t, SymbolSeq(e)), LAMBDA u : [t |-> u, r |-> ValueOf(u, e)])

\* The first of some properties that is visible; 0 if none is.
FirstVisible(t, props) ==
    IF props = <<>> THEN [t |-> t, r |-> 0]
    ELSE With(expr_calc_value(t, k.props[Head(props)].visible), LAMBDA v :
            IF v.r # no THEN [t |-> v.t, r |-> Head(props)] ELSE FirstVisible(v.t, Tail(props)))

sym_get_default_prop(t, s) == FirstVisible(t, PropIds(s, {"DEFAULT"}))
sym_get_range_prop(t, s) == FirstVisible(t, PropIds(s, {"RANGE"}))

MaxTri(S) == CHOOSE x \in S \cup {no} : \A y \in S : x >= y

\* The prompts of s and how visible s is through them, when their symbols have been calculated.
ShowPrompts(t, s, prompts) ==
    LET Shown(p) ==
            With(ValueOf(t, k.props[p].visible), LAMBDA tri :
                IF /\ k.syms[s].choiceval /\ Types(k)[s] = "TRISTATE" /\ tri = mod
                   /\ t.curr[ChoiceOf(k, s)].tri = yes
                THEN no ELSE tri)
        Visible(tri) ==
            IF tri = mod /\ (Types(k)[s] # "TRISTATE" \/ modules_val = no) THEN yes ELSE tri
    IN With([p \in prompts |-> Shown(p)], LAMBDA shown :
            [t EXCEPT !.shown = shown @@ @,
                      !.visible[s] = Visible(MaxTri({shown[p] : p \in prompts}))])

\* Who implies s, which counts only where its dependencies, dir, hold.
ImpliedBy(t, s, dir) ==
    IF k.syms[s].implied.type # "NULL" /\ dir # no THEN expr_calc_value(t, k.syms[s].implied)
    ELSE [t |-> t, r |-> no]

\* What s depends on, who selects it and who implies it.
CalcReasons(t, s) ==
    With(expr_calc_value(t, k.syms[s].dir_dep), LAMBDA dir :
    With(expr_calc_value(dir.t, k.syms[s].rev_dep), LAMBDA rev :
    With(ImpliedBy(rev.t, s, Bool(t, s, dir.r)), LAMBDA implied :
        [implied.t EXCEPT
            !.dir_dep[s] = Bool(t, s, dir.r),
            !.rev_dep[s] = IF k.syms[s].rev_dep.type = "NULL" THEN no ELSE Bool(t, s, rev.r),
            !.implied[s] = Bool(t, s, implied.r)])))

sym_calc_visibility(t, s) ==
    LET prompts == PropIds(s, {"PROMPT", "MENU"})
        symbols == FlattenSeq([i \in DOMAIN prompts |-> SymbolSeq(k.props[prompts[i]].visible)])
    IN With(ShowPrompts(CalcAll(t, symbols), s, ToSet(prompts)),
            LAMBDA u : IF k.syms[s].choiceval THEN u ELSE CalcReasons(u, s))

RECURSIVE FirstDefault(_, _)
FirstDefault(t, props) ==
    IF props = <<>> THEN [t |-> t, r |-> NoSym]
    ELSE LET s == k.props[Head(props)].expr.sym
         IN With(expr_calc_value(t, k.props[Head(props)].visible), LAMBDA v :
                IF v.r # no /\ v.t.visible[s] # no THEN [t |-> v.t, r |-> s]
                ELSE FirstDefault(v.t, Tail(props)))

sym_choice_default(t, c) ==
    With(FirstDefault(t, PropIds(c, {"DEFAULT"})), LAMBDA d :
        LET seen == SelectSeq(sym_choice_values(c), LAMBDA s : d.t.visible[s] # no)
        IN IF d.r = NoSym /\ seen # <<>> THEN [d EXCEPT !.r = Head(seen)] ELSE d)

\* A choice takes its default value; without a visible one it is n.
DefaultChoice(t, c) ==
    With(sym_choice_default(t, c), LAMBDA d :
        [d.t EXCEPT !.curr[c] = [tri |-> IF d.r = NoSym THEN no ELSE @.tri, val |-> d.r]])

\* The value of a choice that is y: the user's while it is visible, or the default.  A
\* choice with a visible value that the user has not seen counts as new.
sym_calc_choice(t, c) ==
    LET values == ToSet(sym_choice_values(c))
        Seen(u) == IF \A s \in values : u.visible[s] # no => sym_has_value(u, s)
                   THEN u ELSE Clear(u, "DEF_USER", {c})
    IN With(Seen(FoldLeft(sym_calc_visibility, t, sym_choice_values(c))), LAMBDA u :
            IF u.def[c].val # NoVal /\ u.visible[u.def[c].val] # no
            THEN [u EXCEPT !.curr[c].val = u.def[c].val]
            ELSE DefaultChoice(u, c))

----------------------------------------------------------------------------
(* Ints.  strtoll gives 0 for what is no number.                           *)

strtoll(type, str) == IF str \in DOMAIN Number[type] THEN Number[type][str] ELSE 0
IntString(n) == CHOOSE str \in IntText : Number["INT"][str] = n

sym_get_range_val(t, s) == strtoll("INT", t.curr[s].val)

\* Both bounds of a range, whose symbols are calculated on the way.
RangeOf(t, p) ==
    With(CalcAll(t, <<k.props[p].expr.sym, k.props[p].expr.with>>), LAMBDA u :
        [t |-> u, low |-> sym_get_range_val(u, k.props[p].expr.sym),
         high |-> sym_get_range_val(u, k.props[p].expr.with)])

sym_validate_range(t, s) ==
    LET val == strtoll("INT", t.curr[s].val)
        InRange(b) == IF b.low <= val /\ val <= b.high THEN b.t
                      ELSE [b.t EXCEPT !.curr[s].val = IntString(IF val < b.low THEN b.low ELSE b.high)]
    IN IF Types(k)[s] # "INT" THEN t
       ELSE With(sym_get_range_prop(t, s), LAMBDA p :
                IF p.r = 0 THEN p.t ELSE InRange(RangeOf(p.t, p.r)))

sym_string_valid(type, str) == type = "STRING" \/ (type = "INT" /\ str \in IntText)

sym_string_within_range(t, s, str) ==
    LET Within(b) == [t |-> b.t, r |-> b.low <= strtoll("INT", str) /\ strtoll("INT", str) <= b.high]
    IN CASE ~sym_string_valid(Types(k)[s], str) -> [t |-> t, r |-> FALSE]
         [] sym_string_valid(Types(k)[s], str) /\ Types(k)[s] = "STRING" -> [t |-> t, r |-> TRUE]
         [] OTHER -> With(sym_get_range_prop(t, s), LAMBDA p :
                        IF p.r = 0 THEN [t |-> p.t, r |-> TRUE] ELSE Within(RangeOf(p.t, p.r)))

----------------------------------------------------------------------------
\* The value of the first default whose condition holds: [t, r].
DefaultOf(t, s) ==
    With(sym_get_default_prop(t, s), LAMBDA p :
        IF p.r = 0 THEN [t |-> p.t, r |-> no]
        ELSE With(expr_calc_value(p.t, k.props[p.r].expr), LAMBDA v :
                [t |-> v.t, r |-> EXPR_AND(v.r, ValueOf(v.t, k.props[p.r].visible))]))

\* A bool without a value of the user: its default, and what implies and selects it.
BoolDefault(t, s) ==
    LET WriteIf(u, tri) == IF tri # no THEN SetFlag(u, "WRITE", {s}) ELSE u
        Selected(u) == WriteIf(u, u.rev_dep[s])
    IN IF k.syms[s].choice THEN [t |-> Selected(t), tri |-> t.rev_dep[s]]
       ELSE With(DefaultOf(Selected(t), s), LAMBDA d :
                LET reasons == EXPR_OR(d.r, t.implied[s])
                IN [t |-> WriteIf(d.t, reasons), tri |-> EXPR_OR(reasons, t.rev_dep[s])])

\* Mutant of BoolValue: a user's value is no less than what selects the symbol only if
\* there is no user's value.
BoolValueUnselected(t, s) ==
    CASE k.syms[s].choiceval /\ t.visible[s] = yes ->
           [t |-> t, tri |-> IF t.curr[ChoiceOf(k, s)].val = s THEN yes ELSE no]
      [] t.visible[s] # no /\ sym_has_value(t, s) -> [t |-> t, tri |-> t.def[s].tri]
      [] OTHER -> BoolDefault(t, s)

\* The value of a bool: [t, tri].  t has its visibility and its dependencies.
BoolValue(t, s) ==
    LET isvalue == k.syms[s].choiceval /\ t.visible[s] = yes
        user == t.visible[s] # no /\ sym_has_value(t, s)
        Full(tri) == IF tri = mod /\ (sym_get_type(t, s) = "BOOLEAN" \/ t.implied[s] = yes)
                     THEN yes ELSE tri
    IN With(CASE isvalue -> [t |-> t, tri |-> IF t.curr[ChoiceOf(k, s)].val = s THEN yes ELSE no]
              [] ~isvalue /\ user ->
                   [t |-> t, tri |-> EXPR_OR(EXPR_AND(t.def[s].tri, t.visible[s]), t.rev_dep[s])]
              [] OTHER -> BoolDefault(t, s),
            LAMBDA b : [b EXCEPT !.tri = Full(@)])

StringValue(t, s) ==
    LET FromSymbol(u, ds) == [t |-> u, val |-> u.curr[ds].val]
    IN IF t.visible[s] # no /\ sym_has_value(t, s) THEN [t |-> t, val |-> t.def[s].val]
       ELSE With(sym_get_default_prop(t, s), LAMBDA p :
                IF p.r = 0 \/ k.props[p.r].expr.type # "SYMBOL" THEN [t |-> p.t, val |-> ""]
                ELSE With(k.props[p.r].expr.sym, LAMBDA ds :
                        FromSymbol(sym_calc_value(SetFlag(p.t, "WRITE", {s}), ds), ds)))

\* What a choice does for its values once it has one itself.
FinishChoice(t, c) ==
    LET values == ToSet(sym_choice_values(c))
        Mark(u) == IF Is(u, "WRITE", c)
                   THEN SetFlag(u, "WRITE", {s \in values : u.visible[s] # no}) ELSE u
        Set(u) == IF Is(u, "NEED_SET_CHOICE_VALUES", c) THEN set_all_choice_values(u, c) ELSE u
    IN Set(Mark(IF t.curr[c].tri = yes THEN sym_calc_choice(t, c) ELSE t))

\* The value of a symbol with its visibility.
SetBool(b, s) ==
    IF k.syms[s].choice THEN FinishChoice([b.t EXCEPT !.curr[s] = [tri |-> b.tri, val |-> NoSym]], s)
    ELSE [b.t EXCEPT !.curr[s].tri = b.tri]
SetString(str, s) == sym_validate_range([str.t EXCEPT !.curr[s].val = str.val], s)
CalcVisible(t, s) ==
    IF IsBool(s) THEN SetBool(BoolValue([t EXCEPT !.curr[s] = [tri |-> no, val |-> "n"]], s), s)
    ELSE SetString(StringValue([t EXCEPT !.curr[s] = [tri |-> no, val |-> ""]], s), s)

Calculate(t, s) ==
    LET Shown(u) == IF u.visible[s] # no THEN SetFlag(u, "WRITE", {s}) ELSE u
    IN IF Types(k)[s] = "UNKNOWN"
       THEN [SetFlag(t, "VALID", {s}) EXCEPT !.curr[s] = [tri |-> no, val |-> s]]
       ELSE CalcVisible(Shown(sym_calc_visibility(Clear(SetFlag(t, "VALID", {s}), "WRITE", {s}), s)), s)

sym_calc_value(t, s) ==
    LET first == k.syms[s].choiceval /\ Is(t, "NEED_SET_CHOICE_VALUES", s)
    IN IF Is(t, "VALID", s) THEN t
       ELSE Calculate(IF first THEN sym_calc_value(Clear(t, "NEED_SET_CHOICE_VALUES", {s}), ChoiceOf(k, s))
                      ELSE t, s)

\* Mutant of sym_clear_all_valid: does not count as a change.
sym_clear_all_validUncounted(t) == Clear(t, "VALID", Symbols \ Tristates)

sym_clear_all_valid(t) ==
    [Clear(t, "VALID", Symbols \ Tristates) EXCEPT !.changed = TRUE]

----------------------------------------------------------------------------
(* Setting.                                                                *)

sym_is_changable(t, s) == t.visible[s] > t.rev_dep[s]

\* Mutant of sym_tristate_within_range: a selected symbol can be set to less.
sym_tristate_within_rangeSelected(t, s, val) ==
    /\ t.visible[s] # no
    /\ ~(sym_get_type(t, s) = "BOOLEAN" /\ val = mod)
    /\ val <= t.visible[s]

sym_tristate_within_range(t, s, val) ==
    /\ t.visible[s] # no
    /\ ~(sym_get_type(t, s) = "BOOLEAN" /\ val = mod)
    /\ t.visible[s] > t.rev_dep[s]
    /\ ~(t.implied[s] = yes /\ val = mod)
    /\ IF k.syms[s].choiceval /\ t.visible[s] = yes THEN val = yes
       ELSE t.rev_dep[s] <= val /\ val <= t.visible[s]

\* Mutant of sym_set_tristate_value: only the symbol's own value is calculated again.
sym_set_tristate_valueAlone(t, s, val) ==
    LET t1 == [SetFlag(t, "DEF_USER", {s}) EXCEPT !.def[s].tri = val]
    IN IF sym_get_tristate_value(t, s) # val /\ ~sym_tristate_within_range(t, s, val) THEN [t |-> t, r |-> FALSE]
       ELSE [t |-> [Clear(t1, "VALID", {s}) EXCEPT !.changed = TRUE], r |-> TRUE]

\* Mutant of sym_set_tristate_value: the value a symbol has already is no user's value.
sym_set_tristate_valueSame(t, s, val) ==
    LET t1 == [SetFlag(t, "DEF_USER", {s}) EXCEPT !.def[s].tri = val]
    IN CASE sym_get_tristate_value(t, s) = val -> [t |-> t, r |-> TRUE]
         [] sym_get_tristate_value(t, s) # val /\ ~sym_tristate_within_range(t, s, val) -> [t |-> t, r |-> FALSE]
         [] OTHER -> [t |-> sym_clear_all_valid(t1), r |-> TRUE]

sym_set_tristate_value(t, s, val) ==
    LET oldval == sym_get_tristate_value(t, s)
        t1 == SetFlag(t, "DEF_USER", {s})
        c == ChoiceOf(k, s)
        seen == {x \in ToSet(sym_choice_values(c)) : t.visible[x] # no}
        t2 == IF k.syms[s].choiceval /\ val = yes
              THEN [SetFlag(t1, "DEF_USER", {c} \cup seen) EXCEPT !.def[c].val = s] ELSE t1
        t3 == [t2 EXCEPT !.def[s].tri = val]
    IN IF oldval # val /\ ~sym_tristate_within_range(t, s, val) THEN [t |-> t, r |-> FALSE]
       ELSE [t |-> IF oldval # val THEN sym_clear_all_valid(t3) ELSE t3, r |-> TRUE]

sym_set_choice_value(t, s) == sym_set_tristate_value(t, s, yes)

\* The next value, from oldval on, that is accepted.
sym_toggle_tristate_value(t, s) ==
    LET oldval == sym_get_tristate_value(t, s)
        tried == SelectSeq([i \in 1..3 |-> (oldval + i) % 3],
                           LAMBDA val : sym_set_tristate_value(t, s, val).r)
    IN IF tried = <<>> THEN t ELSE sym_set_tristate_value(t, s, Head(tried)).t

sym_set_string_value(t, s, str) ==
    LET Set(u) == IF t.def[s].val = str THEN u ELSE sym_clear_all_valid([u EXCEPT !.def[s].val = str])
    IN With(sym_string_within_range(t, s, str), LAMBDA in :
            IF ~in.r THEN in ELSE [t |-> Set(SetFlag(in.t, "DEF_USER", {s})), r |-> TRUE])

\* The value that a symbol would have without the user: [t, the string].
sym_get_string_default(t, s) ==
    LET Full(tri) == IF /\ tri = mod
                        /\ \/ ~k.syms[s].choiceval /\ modules_val = no
                           \/ Types(k)[s] = "BOOLEAN"
                     THEN yes ELSE tri
        FromSymbol(u, ds) == [t |-> u, r |-> u.curr[ds].val]
    IN With(sym_calc_visibility(t, s), LAMBDA u :
            IF IsBool(s)
            THEN With(DefaultOf(u, s), LAMBDA d :
                    [d EXCEPT !.r = TriName(EXPR_OR(Full(EXPR_OR(@, u.rev_dep[s])), u.implied[s]))])
            ELSE With(sym_get_default_prop(u, s), LAMBDA p :
                    IF p.r = 0 \/ k.props[p.r].expr.type # "SYMBOL" THEN [t |-> p.t, r |-> ""]
                    ELSE With(k.props[p.r].expr.sym, LAMBDA ds : FromSymbol(sym_calc_value(p.t, ds), ds))))
=============================================================================
