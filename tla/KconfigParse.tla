---------------------------- MODULE KconfigParse ----------------------------
(***************************************************************************)
(* conf_parse: a Kconfig file is read statement by statement, then the     *)
(* tables are finalized and checked for recursive dependencies.  Every     *)
(* legal file within the bounds is a behaviour.                            *)
(***************************************************************************)
EXTENDS KconfigMenu
LOCAL INSTANCE SequencesExt

CONSTANTS
    ConfigSymbols,   \* the symbols that the file may define
    ChoiceSymbols,   \* names for the choices, which have none in the file
    TypeOf,          \* symbol |-> the type in its definitions
    Starts,          \* symbol |-> "config", "menuconfig" or both
    Prompts,         \* symbol |-> whether its definitions may have a prompt, or not
    Deps,            \* symbol or kind of block |-> the conditions it may depend on
    Relatives,      \* symbol |-> <<"SELECT", "IMPLY" or "DEFAULT", a symbol>>
    ChoiceDefaults,  \* what a choice may have for its default
    LongExprs,       \* conditions that are tried one at a time, with a comment,
    LongSymbols,     \* after definitions of these symbols
    MaxEntries,      \* entries of a file
    MaxDefs,         \* definitions of a symbol
    HashOrder        \* the symbols as for_all_symbols finds them

VARIABLES
    k,         \* the tables
    options,   \* whose options are being read, and how many of them have been
    source,    \* history: the tables before menu_finalize
    check      \* the outcome of the check; NotRun before it

vars == <<k, options, source, check>>

NotRun == [reported |-> {}, errors |-> -1]
Parsing == check.errors = -1
Done == ~Parsing

Init ==
    /\ k = _menu_init(ConfigSymbols \cup ChoiceSymbols)
    /\ options = [of |-> "none", stage |-> 0]
    /\ source = k
    /\ check = NotRun

----------------------------------------------------------------------------
(* Bounds: the options of an entry come in one order, each at most once.   *)
\* A definition needs its type and a choice its prompt.
Complete == options.of \in {"config", "menuconfig", "choice"} => options.stage >= 1

Option(kinds, stage) ==
    /\ Parsing
    /\ options.of \in kinds /\ options.stage < stage
    /\ stage > 1 => Complete
    /\ options' = [options EXCEPT !.stage = stage]
    /\ UNCHANGED <<source, check>>

\* The grammar's actions at the end of the options of an entry.
EndOptions ==
    CASE options.of \in {"menu", "choice"} -> menu_add_menu(k)
      [] options.of = "menuconfig" -> menuconfig_stmt(k)
      [] OTHER -> k

Definitions(s) == Cardinality({m \in DOMAIN k.menus : k.menus[m].sym = s})
InChoice == sym_is_choice(k, k.menus[EndOptions.current_menu].sym)

Statement(kind) ==
    /\ Parsing /\ Complete
    /\ Len(k.menus) <= MaxEntries
    /\ options.of # "long"
    /\ options' = [of |-> kind, stage |-> 0]
    /\ UNCHANGED <<source, check>>

Config(s, kind) ==
    /\ Statement(kind)
    /\ Definitions(s) < MaxDefs
    /\ k' = config_entry_start(EndOptions, s)

Choice(s) ==
    /\ Statement("choice")
    /\ Definitions(s) = 0 /\ ~InChoice
    /\ k' = choice_start(EndOptions, s)

If(e) == Statement("none") /\ k' = if_entry(EndOptions, e)
Menu == Statement("menu") /\ ~InChoice /\ k' = menu_start(EndOptions)
Comment == Statement("comment") /\ k' = comment_stmt(EndOptions)

\* endif, endmenu or endchoice
End ==
    /\ Parsing /\ Complete
    /\ EndOptions.current_menu # Root
    /\ k' = menu_end_menu(EndOptions)
    /\ options' = [of |-> "none", stage |-> 0]
    /\ UNCHANGED <<source, check>>

----------------------------------------------------------------------------
Here == k.menus[k.current_entry].sym

\* "bool", with a prompt or without
Type(prompt) ==
    /\ Option({"config", "menuconfig"}, 1)
    /\ options.of = "menuconfig" => prompt
    /\ LET k1 == config_type(k, TypeOf[Here])
       IN k' = IF prompt THEN config_prompt(k1, NULL) ELSE k1

ChoicePrompt(cond) == Option({"choice"}, 1) /\ k' = config_prompt(k, cond)

VisibleIf(e) == Option({"menu"}, 1) /\ k' = menu_add_visibility(k, e)

DepKind == IF options.of \in {"config", "menuconfig"} THEN Here ELSE options.of
DependsOn(e) ==
    /\ Option({"config", "menuconfig", "choice", "menu", "comment"}, 2)
    /\ k' = menu_add_dep(k, e)

\* A long condition is tried in a file with nothing but plain definitions.
LongDependsOn ==
    /\ Parsing
    /\ options = [of |-> "comment", stage |-> 0]
    /\ Len(k.menus) = Len(LongSymbols) + 2
    /\ Len(k.props) = 2 * Len(LongSymbols) + 2
    /\ \A i \in DOMAIN LongSymbols :
          /\ k.menus[i + 1].sym = LongSymbols[i]
          /\ k.menus[i + 1].dep = NULL
    /\ options' = [of |-> "long", stage |-> 0]
    /\ \E e \in LongExprs : k' = menu_add_dep(k, e)
    /\ UNCHANGED <<source, check>>

Select(s) == Option({"config"}, 3) /\ k' = config_select(k, s, NULL)
Imply(s) == Option({"config"}, 3) /\ k' = config_imply(k, s, NULL)
Default(s) == Option({"config"}, 3) /\ k' = config_default(k, SymbolExpr(s), NULL)
Optional == Option({"choice"}, 3) /\ k' = choice_optional(k)
ChoiceDefault(s) == Option({"choice"}, 3) /\ k' = choice_default(k, s, NULL)

\* The end of the file; conf_parse finalizes and checks.
EndOfFile ==
    /\ Parsing /\ Complete
    /\ EndOptions.current_menu = Root
    /\ source' = EndOptions
    /\ k' = menu_finalize(EndOptions, Root)
    /\ check' = CheckAllFrom(k', NotChecked, HashOrder)
    /\ UNCHANGED options

Next ==
    \/ \E s \in ConfigSymbols : \E kind \in Starts[s] : Config(s, kind)
    \/ \E s \in ChoiceSymbols : Choice(s)
    \/ \E e \in Deps["if"] : If(e)
    \/ Menu
    \/ Comment
    \/ End
    \/ Here \in ConfigSymbols /\ \E prompt \in Prompts[Here] : Type(prompt)
    \/ \E e \in Deps["prompt"] \cup {NULL} : ChoicePrompt(e)
    \/ \E e \in Deps["visible"] : VisibleIf(e)
    \/ options.of \notin {"none", "long"} /\ \E e \in Deps[DepKind] : DependsOn(e)
    \/ LongDependsOn
    \/ Here \in ConfigSymbols /\ \E r \in Relatives[Here] :
          \/ r[1] = "SELECT" /\ Select(r[2])
          \/ r[1] = "IMPLY" /\ Imply(r[2])
          \/ r[1] = "DEFAULT" /\ Default(r[2])
    \/ Optional
    \/ \E s \in ChoiceDefaults : ChoiceDefault(s)
    \/ EndOfFile

Spec == Init /\ [][Next]_vars

----------------------------------------------------------------------------
(* What the tables should say.  A valuation gives every symbol a value it  *)
(* can have: a tristate symbol is never m, as no file has "option modules",*)
(* and a symbol nobody defines is n and its string is its name.            *)

Typed == {s \in DOMAIN k.syms : Types(k)[s] # "UNKNOWN"}
ValueIn(s, set) ==      \* where the symbols in set are y
    CASE s \in Typed -> IF s \in set THEN [tri |-> yes, str |-> "y"] ELSE [tri |-> no, str |-> "n"]
      [] s = "m" -> [tri |-> mod, str |-> "m"]
      [] s = "y" -> [tri |-> yes, str |-> "y"]
      [] OTHER -> [tri |-> no, str |-> s]
Valuations == {[s \in DOMAIN k.syms |-> ValueIn(s, set)] : set \in SUBSET Typed}

Val(e, v) == Value(e, Types(k), v)
Asked(e, v) == Val(rewrite_m(e, MODULES), v)      \* of a condition as the file has it

\* What the file asks of entry m: its own conditions, and of every block around it
\* the conditions, the prompt's condition, or the mode of the choice.
RECURSIVE EntryHolds(_, _)
EntryHolds(m, v) ==
    LET around == source.menus[m].parent
        block == source.menus[around]
        inherited == CASE around = 0 -> yes
                       [] around # 0 /\ sym_is_choice(source, block.sym) -> v[block.sym].tri
                       [] OTHER -> EntryHolds(around, v)
    IN EXPR_AND(Asked(source.menus[m].dep, v), inherited)

PropHolds(p, v) ==
    EXPR_AND(EntryHolds(source.props[p].menu, v), Asked(source.props[p].visible, v))

MaxOf(S) == CHOOSE x \in S \cup {no} : \A y \in S : x >= y

\* menu_is_visible
RECURSIVE menu_is_visible(_, _)
menu_is_visible(m, v) ==
    /\ k.menus[m].prompt # 0
    /\ Val(k.menus[m].visibility, v) # no
    /\ \/ Val(PromptDep(k, m), v) # no
       \/ /\ k.menus[m].sym # NoSym
          /\ v[k.menus[m].sym].tri # no
          /\ \E c \in ToSet(Children(k, m)) : menu_is_visible(c, v)

RECURSIVE Above(_)
Above(m) == IF k.menus[m].parent = 0 THEN {} ELSE {k.menus[m].parent} \cup Above(k.menus[m].parent)

----------------------------------------------------------------------------
\* However menu_finalize rewrites, joins and hands down conditions, each property ends
\* up with the condition the file gives it, under every valuation of the symbols: its own
\* one and those of every menu, if and choice around it.
ConditionsPropagate ==
    Done => \A v \in Valuations, p \in DOMAIN source.props :
                Val(k.props[p].visible, v) = PropHolds(p, v)

\* rev_dep and implied say exactly who selects and implies a symbol, under which
\* condition; a choice that is not optional counts as selected, as m, while it is visible.
ReasonsAreComplete ==
    Done => \A v \in Valuations, s \in ConfigSymbols \cup ChoiceSymbols :
        LET Reasons(type) == {EXPR_AND(v[source.props[p].sym].tri, PropHolds(p, v)) :
                p \in {q \in DOMAIN source.props :
                         source.props[q].type = type /\ IsSymbol(source.props[q].expr, s)}}
            forced == {EXPR_AND(PropHolds(source.menus[m].prompt, v), mod) :
                m \in {n \in DOMAIN source.menus : /\ source.menus[n].sym = s
                                                   /\ source.menus[n].prompt # 0
                                                   /\ ~source.syms[s].optional}}
            Given(e) == IF e.type = "NULL" THEN no ELSE Val(e, v)
        IN /\ Given(k.syms[s].rev_dep) = MaxOf(Reasons("SELECT") \cup forced)
           /\ Given(k.syms[s].implied) = MaxOf(Reasons("IMPLY"))

\* A choice is never y while nobody sees its prompt.
ChoicesVisible(v) ==
    \A m \in DOMAIN k.menus :
        sym_is_choice(k, k.menus[m].sym) /\ k.menus[m].prompt # 0 =>
            v[k.menus[m].sym].tri <= Val(PromptDep(k, m), v)

\* Rearranging the tree loses no entry, doubles none and keeps the order of the file:
\* conf_write, which walks it, writes each symbol where the file defines it.  And no
\* automatic submenu or flattened block hides a question: whoever can answer an entry's
\* prompt gets to it, because each entry above it is shown (conf and menuconfig descend
\* into an entry only then).
TreeIsOfFile ==
    Done =>
      /\ WalkFrom(k, Root) = [m \in DOMAIN k.menus |-> m]
      /\ \A v \in {w \in Valuations : ChoicesVisible(w)}, m \in DOMAIN k.menus :
            /\ k.menus[m].prompt # 0
            /\ k.props[k.menus[m].prompt].type = "PROMPT"
            /\ Val(PromptDep(k, m), v) # no
            => \A a \in Above(m) : menu_is_visible(a, v)

\* What a symbol's value is calculated from: who selects it, its conditions and its
\* defaults.  A choice and its values are one node, in which the values may depend on
\* the choice.
CalculatedFrom(s) ==
    SymbolsOf(k.syms[s].rev_dep) \cup
    UNION {SymbolsOf(p.visible) \cup
           (IF p.type = "DEFAULT" /\ ~k.syms[s].choice THEN SymbolsOf(p.expr) ELSE {}) :
           p \in {q \in ToSet(k.props) : q.sym = s /\ q.type \notin {"CHOICE", "SELECT"}}}
Group(s) == IF k.syms[s].choiceval THEN ChoiceOf(k, s) ELSE s
Uses(s) == {t \in CalculatedFrom(s) :
                ~(k.syms[s].choiceval /\ sym_is_choice(k, t) /\ t = Group(s))}
GroupUses(g) == UNION {{Group(t) : t \in Uses(s)} : s \in {x \in DOMAIN k.syms : Group(x) = g}}
RECURSIVE Reach(_)
Reach(S) == LET T == S \cup UNION {GroupUses(g) : g \in S} IN IF T = S THEN S ELSE Reach(T)
Recursive(g) == g \in Reach(GroupUses(g))

\* A recursive dependency is reported, and only one that exists.
CyclesAreReported ==
    Done => (check.reported # {}) = (\E s \in DOMAIN k.syms : Recursive(Group(s)))

=============================================================================
