----------------------------- MODULE KconfigMenu ----------------------------
(***************************************************************************)
(* kconfig's tables of menu entries, properties and symbols: how the       *)
(* parser fills them (zconf.y, menu.c), how menu_finalize hands the        *)
(* dependencies down and rearranges the tree, and how sym_check_deps looks *)
(* for recursive dependencies.                                             *)
(*                                                                         *)
(* A handler of the code is a function of the tables k, which it returns   *)
(* changed.  Entries and properties are numbered in the order in which     *)
(* they are made; 0 is the null pointer and NoSym the null symbol.         *)
(***************************************************************************)
EXTENDS KconfigExpr, Sequences, FiniteSets
LOCAL INSTANCE SequencesExt

NoSym == ""
Root == 1

NewEntry(sym, parent) ==
    [sym |-> sym, parent |-> parent, next |-> 0, list |-> 0, dep |-> NULL,
     visibility |-> NULL, prompt |-> 0]

NewSymbol == [type |-> "UNKNOWN", choice |-> FALSE, choiceval |-> FALSE, optional |-> FALSE,
              rev_dep |-> NULL, dir_dep |-> NULL, implied |-> NULL]

MainPrompt == [type |-> "MENU", sym |-> NoSym, menu |-> Root, expr |-> NULL, visible |-> NULL]

\* _menu_init, and the main menu's prompt
_menu_init(symbols) ==
    [menus |-> <<[NewEntry(NoSym, 0) EXCEPT !.prompt = 1]>>,
     props |-> <<MainPrompt>>,
     syms  |-> [s \in symbols \cup ConstSymbols |-> NewSymbol],
     current_entry |-> Root, current_menu |-> Root, last_entry_ptr |-> <<Root, "list">>]

Types(k) == [s \in DOMAIN k.syms |-> k.syms[s].type]
PropsAt(k, m) == SetToSortSeq({i \in DOMAIN k.props : k.props[i].menu = m}, <)
PropsOf(k, s) == SelectSeq(k.props, LAMBDA p : p.sym = s)
sym_is_choice(k, s) == s # NoSym /\ k.syms[s].choice
PromptDep(k, m) == k.props[k.menus[m].prompt].visible

----------------------------------------------------------------------------
(* What the parser's rules call.                                           *)

menu_add_prop(k, type, expr, dep) ==
    [k EXCEPT !.props = Append(@, [type |-> type, sym |-> k.menus[k.current_entry].sym,
                                   menu |-> k.current_entry, expr |-> expr, visible |-> dep])]

menu_add_entry(k, sym) ==
    LET m == Len(k.menus) + 1
        linked == [k EXCEPT !.menus[k.last_entry_ptr[1]][k.last_entry_ptr[2]] = m]
        added == [linked EXCEPT !.menus = Append(@, NewEntry(sym, k.current_menu)),
                                !.last_entry_ptr = <<m, "next">>,
                                !.current_entry = m]
    IN IF sym = NoSym THEN added ELSE menu_add_prop(added, "SYMBOL", SymbolExpr(sym), NULL)

menu_add_menu(k) ==
    [k EXCEPT !.last_entry_ptr = <<k.current_entry, "list">>, !.current_menu = k.current_entry]

menu_end_menu(k) ==
    [k EXCEPT !.last_entry_ptr = <<k.current_menu, "next">>,
              !.current_menu = k.menus[k.current_menu].parent]

menu_add_dep(k, dep) == [k EXCEPT !.menus[k.current_entry].dep = expr_alloc_and(@, dep)]
menu_add_visibility(k, e) == [k EXCEPT !.menus[k.current_entry].visibility = expr_alloc_and(@, e)]

SetType(k, s, type) == IF k.syms[s].type = "UNKNOWN" THEN [k EXCEPT !.syms[s].type = type] ELSE k
menu_set_type(k, type) == SetType(k, k.menus[k.current_entry].sym, type)

\* A prompt is also subject to "visible if" of every menu around it.
RECURSIVE AndVisibilities(_, _, _)
AndVisibilities(k, m, dep) ==
    IF m = 0 THEN dep
    ELSE AndVisibilities(k, k.menus[m].parent, expr_alloc_and(dep, k.menus[m].visibility))

menu_add_prompt(k, type, dep) ==
    LET around == k.menus[k.current_entry].parent
        added == menu_add_prop(k, type, NULL,
                               IF type = "PROMPT" THEN AndVisibilities(k, around, dep) ELSE dep)
    IN [added EXCEPT !.menus[k.current_entry].prompt = Len(added.props)]

menu_add_symbol(k, type, sym, dep) == menu_add_prop(k, type, SymbolExpr(sym), dep)

----------------------------------------------------------------------------
(* The statements of a Kconfig file.  cond is the expression after "if".   *)

config_entry_start(k, s) == menu_add_entry([k EXCEPT !.syms[s].optional = TRUE], s)
config_type(k, type) == menu_set_type(k, type)
config_prompt(k, cond) == menu_add_prompt(k, "PROMPT", cond)
config_default(k, e, cond) == menu_add_prop(k, "DEFAULT", e, cond)
config_select(k, s, cond) == menu_add_symbol(k, "SELECT", s, cond)
config_imply(k, s, cond) == menu_add_symbol(k, "IMPLY", s, cond)
config_range(k, lo, hi, cond) == menu_add_prop(k, "RANGE", CompExpr("RANGE", lo, hi), cond)
\* The end of a menuconfig's options.
menuconfig_stmt(k) ==
    LET p == k.menus[k.current_entry].prompt
    IN IF p = 0 THEN k ELSE [k EXCEPT !.props[p].type = "MENU"]

choice_start(k, s) ==
    menu_add_prop(menu_add_entry([k EXCEPT !.syms[s].choice = TRUE], s),
                  "CHOICE", [type |-> "LIST", syms |-> <<>>], NULL)
choice_optional(k) == [k EXCEPT !.syms[k.menus[k.current_entry].sym].optional = TRUE]
choice_default(k, s, cond) == menu_add_symbol(k, "DEFAULT", s, cond)

if_entry(k, e) == menu_add_menu(menu_add_dep(menu_add_entry(k, NoSym), e))
menu_start(k) == menu_add_prompt(menu_add_entry(k, NoSym), "MENU", NULL)
comment_stmt(k) == menu_add_prompt(menu_add_entry(k, NoSym), "COMMENT", NULL)

----------------------------------------------------------------------------
(* menu_finalize                                                           *)

RECURSIVE Siblings(_, _)
Siblings(k, m) == IF m = 0 THEN <<>> ELSE <<m>> \o Siblings(k, k.menus[m].next)
Children(k, m) == Siblings(k, k.menus[m].list)

\* The condition of a property becomes dep; a symbol that it selects or implies hears of it.
Tell(k, m, p, dep, reason) ==
    LET prop == k.props[p]
        k1 == [k EXCEPT !.props[p].visible = dep]
    IN CASE prop.type = "SELECT" -> [k1 EXCEPT !.syms[prop.expr.sym].rev_dep = expr_alloc_or(@, reason)]
         [] prop.type = "IMPLY"  -> [k1 EXCEPT !.syms[prop.expr.sym].implied = expr_alloc_or(@, reason)]
         [] OTHER -> k1

\* Mutant of PropagateToProp: a select tells only its own condition.
PropagateToPropAlone(k, m, p) ==
    Tell(k, m, p, Simplified(k.menus[m].dep, k.props[p].visible, Types(k)),
         expr_alloc_and(SymbolExpr(k.menus[m].sym), k.props[p].visible))

\* A property gets the entry's dependencies, and tells a selected or implied symbol.
PropagateToProp(k, m, p) ==
    LET ty == Types(k)
        s == k.menus[m].sym
        Bools(e) == IF s # NoSym /\ ty[s] # "TRISTATE" THEN expr_trans_bool(e, ty) ELSE e
    IN With(Bools(Simplified(k.menus[m].dep, k.props[p].visible, ty)), LAMBDA dep :
            Tell(k, m, p, dep, expr_alloc_and(SymbolExpr(s), dep)))

\* Every property that was defined at the entry.
PropagateToProps(k, m) == FoldLeft(LAMBDA kk, p : PropagateToProp(kk, m, p), k, PropsAt(k, m))

PropagateToChild(k, parentdep, m) ==
    PropagateToProps([k EXCEPT !.menus[m].dep = Simplified(parentdep, @, Types(k))], m)

\* A choice without a type takes its first value's; values without one take the choice's.
ChoiceTypes(k, parent) ==
    LET s == k.menus[parent].sym
        symbols == {k.menus[m].sym : m \in ToSet(Children(k, parent))} \ {NoSym}
        typed == SelectSeq(Children(k, parent),
                           LAMBDA m : k.menus[m].sym \in symbols /\ Types(k)[k.menus[m].sym] # "UNKNOWN")
        k1 == IF typed = <<>> THEN k ELSE SetType(k, s, Types(k)[k.menus[Head(typed)].sym])
    IN [k1 EXCEPT !.syms = [t \in DOMAIN @ |-> IF t \in symbols /\ @[t].type = "UNKNOWN"
                                               THEN [@[t] EXCEPT !.type = k1.syms[s].type] ELSE @[t]]]

\* Mutant of PropagateToChildren: a choice's values depend on what the choice depends on.
PropagateToChildrenNoMode(k, parent) ==
    LET m == k.menus[parent]
        k1 == IF sym_is_choice(k, m.sym) THEN ChoiceTypes(k, parent) ELSE k
        parentdep == IF m.prompt # 0 THEN PromptDep(k, parent) ELSE m.dep
    IN FoldLeft(LAMBDA kk, c : PropagateToChild(kk, parentdep, c), k1, Children(k, parent))

PropagateToChildren(k, parent) ==
    LET m == k.menus[parent]
        k1 == IF sym_is_choice(k, m.sym) THEN ChoiceTypes(k, parent) ELSE k
        parentdep == CASE sym_is_choice(k, m.sym) -> SymbolExpr(m.sym)
                       [] ~sym_is_choice(k, m.sym) /\ m.prompt # 0 -> PromptDep(k, parent)
                       [] OTHER -> m.dep
    IN FoldLeft(LAMBDA kk, c : PropagateToChild(kk, parentdep, c), k1, Children(k, parent))

EntryDep(k, m) == IF k.menus[m].prompt # 0 THEN PromptDep(k, m) ELSE k.menus[m].dep

\* p: whether an entry is shown, and whether the one before it is.  Nothing but what both have in
\* common shows the one before it.
BaseIsCovered(p) == expr_is_yes(expr_eliminate_eq(p[1], p[2])[2])

\* Entry m belongs into an automatic submenu of entry parent, a symbol.
DependsOnEntry(k, parent, m) ==
    LET s == k.menus[parent].sym
        dep == EntryDep(k, m)
        base == IF k.menus[parent].prompt # 0 THEN PromptDep(k, parent) ELSE NULL
    IN /\ expr_contains_symbol(dep, s)
       /\ \/ expr_depends_symbol(dep, s)
          \/ BaseIsCovered([i \in 1..2 |-> NotNo(<<dep, base>>[i], Types(k))])

\* The loop over the children, which grows as blocks without a prompt are flattened.
RegisterChoiceValue(k, parent, m) ==
    LET choice == k.menus[parent].sym
        s == k.menus[m].sym
        yesdep == CompExpr("EQUAL", choice, "y")
        k1 == IF Types(k)[choice] = "TRISTATE" /\ Types(k)[s] # "TRISTATE"
              THEN [k EXCEPT !.menus[m].dep = expr_alloc_and(yesdep, @),
                             !.props = [p \in DOMAIN @ |->
                                IF @[p].sym = s /\ @[p].menu = m
                                THEN [@[p] EXCEPT !.visible = expr_alloc_and(yesdep, @)] ELSE @[p]]]
              ELSE k
        k2 == menu_add_symbol([k1 EXCEPT !.current_entry = m, !.syms[s].choiceval = TRUE],
                              "CHOICE", choice, NULL)
        list == CHOOSE p \in DOMAIN k2.props :
                    k2.props[p].sym = choice /\ k2.props[p].type = "CHOICE"
    IN [k2 EXCEPT !.props[list].expr.syms = Append(@, s)]

\* Mutant of Flatten: the last entry of the block is not linked to what follows the block.
FlattenNoTail(k, parent, m) ==
    LET inner == Children(k, m)
    IN [k EXCEPT !.menus = [i \in DOMAIN @ |->
            CASE i = m -> [@[i] EXCEPT !.next = Head(inner), !.list = 0]
              [] i \in ToSet(inner) -> [@[i] EXCEPT !.parent = parent]
              [] OTHER -> @[i]]]

Flatten(k, parent, m) ==
    LET inner == Children(k, m)
    IN [k EXCEPT !.menus = [i \in DOMAIN @ |->
            CASE i = m -> [@[i] EXCEPT !.next = Head(inner), !.list = 0]
              [] i \in ToSet(inner) -> [@[i] EXCEPT !.parent = parent,
                                                    !.next = IF i = Last(inner) THEN k.menus[m].next ELSE @]
              [] OTHER -> @[i]]]

RECURSIVE AdoptFrom(_, _, _)
AdoptFrom(k, parent, m) ==
    LET s == k.menus[m].sym
        Register == IF /\ sym_is_choice(k, k.menus[parent].sym)
                       /\ s # NoSym /\ ~k.syms[s].choiceval
                    THEN RegisterChoiceValue(k, parent, m) ELSE k
        Flat(kk) == IF kk.menus[m].list # 0 /\ kk.menus[m].prompt = 0 THEN Flatten(kk, parent, m) ELSE kk
    IN IF m = 0 THEN k
       ELSE With(Flat(Register), LAMBDA kk : AdoptFrom(kk, parent, kk.menus[m].next))

\* A choice that is not optional is as good as selected, as m, while it is visible.
ForceChoice(k, parent) ==
    LET m == k.menus[parent]
    IN IF m.sym # NoSym /\ ~k.syms[m.sym].optional /\ m.prompt # 0
       THEN [k EXCEPT !.syms[m.sym].rev_dep =
                expr_alloc_or(@, expr_alloc_and(PromptDep(k, parent), SymbolExpr("m")))]
       ELSE k

RECURSIVE menu_finalize(_, _), FinalizeFrom(_, _), Absorb(_, _, _, _)

FinalizeFrom(k, m) ==
    IF m = 0 THEN k ELSE With(menu_finalize(k, m), LAMBDA kk : FinalizeFrom(kk, kk.menus[m].next))

\* Finalizes the entries from m on that depend on parent; last is the last one so far.
Absorb(k, parent, m, last) ==
    IF m # 0 /\ DependsOnEntry(k, parent, m)
    THEN With([menu_finalize(k, m) EXCEPT !.menus[m].parent = parent], LAMBDA kk :
              Absorb(kk, parent, kk.menus[m].next, m))
    ELSE IF last = 0 THEN k
    ELSE [k EXCEPT !.menus[parent].list = k.menus[parent].next,
                   !.menus[parent].next = k.menus[last].next,
                   !.menus[last].next = 0]

AutomaticSubmenu(k, parent) ==
    With(Absorb(k, parent, k.menus[parent].next, 0), LAMBDA kk :
        [kk EXCEPT !.syms[k.menus[parent].sym].dir_dep = expr_alloc_or(@, kk.menus[parent].dep)])

menu_finalize(k, parent) ==
    LET m == k.menus[parent]
    IN With(IF m.list # 0 THEN FinalizeFrom(PropagateToChildren(k, parent), m.list)
            ELSE IF m.sym # NoSym THEN AutomaticSubmenu(k, parent) ELSE k,
            LAMBDA kk : ForceChoice(AdoptFrom(kk, parent, kk.menus[parent].list), parent))

\* The tree as conf_write and the front ends walk it: an entry, then its list, then
\* what follows it or the nearest entry above it that has a successor.
RECURSIVE WalkUp(_, _), WalkFrom(_, _)
WalkUp(k, m) ==
    CASE m = 0 -> 0
      [] m # 0 /\ k.menus[m].next # 0 -> k.menus[m].next
      [] OTHER -> WalkUp(k, k.menus[m].parent)
WalkFrom(k, m) ==
    IF m = 0 THEN <<>>
    ELSE <<m>> \o WalkFrom(k, IF k.menus[m].list # 0 THEN k.menus[m].list ELSE WalkUp(k, m))

----------------------------------------------------------------------------
(* sym_check_deps.  c: the symbols with SYMBOL_CHECK and SYMBOL_CHECKED,   *)
(* those reported as recursive, and the result of the last call.           *)

ChoiceOf(k, s) ==
    LET p == SelectSeq(PropsOf(k, s), LAMBDA q : q.type = "CHOICE") IN Head(p).expr.sym
ChoiceValues(k, s) ==
    LET p == SelectSeq(PropsOf(k, s), LAMBDA q : q.type = "CHOICE") IN Head(p).expr.syms

CheckedProps(k, s) == SelectSeq(PropsOf(k, s), LAMBDA p : p.type \notin {"CHOICE", "SELECT"})

RECURSIVE SymbolSeq(_)
SymbolSeq(e) ==
    CASE e.type \in Connectives -> SymbolSeq(e.left) \o SymbolSeq(e.right)
      [] e.type = "NOT" -> SymbolSeq(e.arg)
      [] e.type = "SYMBOL" -> <<e.sym>>
      [] e.type \in Relations -> <<e.sym, e.with>>
      [] OTHER -> <<>>

\* Mutant of CheckedSymbols: who selects the symbol is not followed.
CheckedSymbolsNoSelect(k, s) ==
    FlattenSeq([i \in DOMAIN CheckedProps(k, s) |->
        LET p == CheckedProps(k, s)[i]
        IN SymbolSeq(p.visible) \o
           (IF p.type = "DEFAULT" /\ ~sym_is_choice(k, s) THEN SymbolSeq(p.expr) ELSE <<>>)])

\* The symbols that sym_check_sym_deps follows, in its order.
CheckedSymbols(k, s) ==
    SymbolSeq(k.syms[s].rev_dep) \o
    FlattenSeq([i \in DOMAIN CheckedProps(k, s) |->
        LET p == CheckedProps(k, s)[i]
        IN SymbolSeq(p.visible) \o
           (IF p.type = "DEFAULT" /\ ~sym_is_choice(k, s) THEN SymbolSeq(p.expr) ELSE <<>>)])

RECURSIVE sym_check_deps(_, _, _), CheckSymbols(_, _, _)

\* Checks symbols up to the first that returns a culprit.
CheckSymbols(k, c, symbols) ==
    IF symbols = <<>> THEN [c EXCEPT !.found = NoSym]
    ELSE With(sym_check_deps(k, c, Head(symbols)), LAMBDA r :
            IF r.found # NoSym THEN r ELSE CheckSymbols(k, r, Tail(symbols)))

sym_check_choice_deps(k, c, choice) ==
    LET values == ChoiceValues(k, choice)
        marks == ToSet(values) \cup {choice}
        Marked == [c EXCEPT !.check = @ \cup marks, !.checked = @ \cup marks]
        Values(r) == IF r.found # NoSym THEN r
                     ELSE CheckSymbols(k, [r EXCEPT !.check = @ \ {choice}],
                                       FlattenSeq([i \in DOMAIN values |-> CheckedSymbols(k, values[i])]))
    IN [Values(CheckSymbols(k, Marked, CheckedSymbols(k, choice))) EXCEPT
            !.check = @ \ marks, !.found = IF @ \in ToSet(values) THEN choice ELSE @]

sym_check_deps(k, c, s) ==
    LET Own(r) == [r EXCEPT !.found = IF @ = s THEN NoSym ELSE @]
        c1 == [c EXCEPT !.check = @ \cup {s}, !.checked = @ \cup {s}]
    IN CASE s \in c.check -> [c EXCEPT !.reported = @ \cup {s}, !.found = s]
         [] s \in c.checked \ c.check -> [c EXCEPT !.found = NoSym]
         [] OTHER ->
              Own(CASE k.syms[s].choiceval -> sym_check_deps(k, c, ChoiceOf(k, s))
                    [] sym_is_choice(k, s) -> sym_check_choice_deps(k, c, s)
                    [] OTHER -> [CheckSymbols(k, c1, CheckedSymbols(k, s)) EXCEPT !.check = @ \ {s}])

\* conf_parse's loop over all symbols; errors counts those that return a culprit.
RECURSIVE CheckAllFrom(_, _, _)
CheckAllFrom(k, c, symbols) ==
    LET Count(r) == IF r.found = NoSym THEN r ELSE [r EXCEPT !.errors = @ + 1]
    IN IF symbols = <<>> THEN c
       ELSE CheckAllFrom(k, Count(sym_check_deps(k, c, Head(symbols))), Tail(symbols))

NotChecked == [check |-> {}, checked |-> {}, reported |-> {}, found |-> NoSym, errors |-> 0]
=============================================================================
