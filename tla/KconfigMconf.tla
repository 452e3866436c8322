----------------------------- MODULE KconfigMconf ----------------------------
(***************************************************************************)
(* mconf.c: menuconfig.  The functions that call each other, each with a   *)
(* dialog of its own, are a stack of frames; an action is a key press in   *)
(* the topmost dialog, up to the next one.  MENUCONFIG_MODE is not set.    *)
(***************************************************************************)
EXTENDS KconfigProcess
LOCAL INSTANCE SequencesExt

CONSTANTS
    Entries,     \* what a user may enter for a string
    LoadNames, SaveNames,   \* names entered at "Load" and "Save"
    MaxKeys      \* bound: key presses of a session

VARIABLES
    stack,             \* <<the dialog, its menu>>, the topmost first
    filename,
    show_all_options,
    child_count,       \* whether it is above 0: nothing ever resets it
    keys,
    missed             \* history: "Load" was given a name without a file, which sets the
                       \* change count to 0, and nothing has been changed or saved since

mconfvars == <<stack, filename, show_all_options, child_count, keys, missed>>

MconfInit ==
    /\ stack = <<>>
    /\ filename = ".config"
    /\ show_all_options = FALSE
    /\ child_count = FALSE
    /\ keys = 0
    /\ missed = FALSE

Menuconfig ==
    /\ Start("mconf", ReadConfig(NewTable))
    /\ stack' = <<<<"conf", Root>>>>
    /\ filename' = ".config"
    /\ show_all_options' = FALSE
    /\ child_count' = FALSE
    /\ keys' = 0
    /\ UNCHANGED missed

----------------------------------------------------------------------------
(* The items of a menu: <<tag, menu>>.  d: the table and the items so far. *)

Item(d, tag, m) == [d EXCEPT !.items = Append(@, <<tag, m>>)]
PromptType(m) == IF k.menus[m].prompt = 0 THEN "none" ELSE k.props[k.menus[m].prompt].type

\* The shown entry with the choice's value, 0 if there is none.
RECURSIVE DefMenu(_, _, _, _)
DefMenu(tt, menus, value, found) ==
    LET m == Head(menus)
    IN IF menus = <<>> THEN [t |-> tt, r |-> found]
       ELSE With(menu_is_visible(tt, m), LAMBDA v :
                DefMenu(v.t, Tail(menus), value, IF v.r /\ k.menus[m].sym = value THEN m ELSE found))

RECURSIVE build_conf(_, _, _)

\* The items of an entry's children.
BuildChildren(d, m, current) == FoldLeft(LAMBDA x, c : build_conf(x, c, current), d, Children(k, m))

\* A choice; while it is y its values are a dialog of their own.
BuildChoice(d, m, current) ==
    LET s == k.menus[m].sym
        Inner(dd, def) ==
            CASE sym_get_tristate_value(dd.t, s) # yes -> BuildChildren(dd, m, current)
              [] sym_get_tristate_value(dd.t, s) = yes /\ def # 0 /\ k.menus[def].list # 0 ->
                   build_conf(dd, def, current)
              [] OTHER -> dd
    IN With(DefMenu(d.t, Children(k, m), d.t.curr[s].val, 0), LAMBDA def :
            Inner(Item([d EXCEPT !.t = def.t],
                       IF def.r # 0 \/ sym_is_changable(def.t, s) THEN "t" ELSE ":", m), def.r))

BuildSymbol(d, m, current) ==
    LET s == k.menus[m].sym
        isvalue == k.syms[s].choiceval /\ sym_get_tristate_value(d.t, s) = yes
        tag == CASE m = current \/ isvalue -> ":"
                 [] ~(m = current \/ isvalue) /\ IsBool(s) -> "t"
                 [] OTHER -> "s"
        closed == m # current /\ PromptType(m) = "MENU" /\ (isvalue \/ IsBool(s))
    IN IF closed THEN Item(d, tag, m) ELSE BuildChildren(Item(d, tag, m), m, current)

\* A menu, a comment, or a block without a prompt.
BuildBlock(d, m, current) ==
    IF m = current \/ k.menus[m].prompt = 0 THEN BuildChildren(d, m, current)
    ELSE IF PromptType(m) = "MENU" THEN Item(d, "m", m)
    ELSE BuildChildren(Item(d, ":", m), m, current)

build_conf(d, m, current) ==
    LET s == k.menus[m].sym
        Build(dd) == IF s = NoSym THEN BuildBlock(dd, m, current)
                     ELSE IF k.syms[s].choice THEN BuildChoice(dd, m, current)
                     ELSE BuildSymbol(dd, m, current)
    IN With(menu_is_visible(d.t, m), LAMBDA v :
            With([d EXCEPT !.t = v.t], LAMBDA dd :
                IF IF show_all_options THEN k.menus[m].prompt = 0 ELSE ~v.r THEN dd ELSE Build(dd)))

----------------------------------------------------------------------------
(* The dialogs                                                             *)

Top(what) == /\ tool = "mconf"
             /\ stack # <<>> /\ Head(stack)[1] = what
             /\ keys < MaxKeys
             /\ keys' = keys + 1
TopMenu == Head(stack)[2]
Unsaved == UNCHANGED <<k, tool, files, wrote, processes>> /\ missed' = (missed /\ ~t'.changed)

\* The items that conf shows, d.items, and what finding them leaves behind, d.t.
Shown == build_conf([t |-> t, items |-> <<>>], TopMenu, TopMenu)
Counted(d) == \E i \in DOMAIN d.items : d.items[i][2] # TopMenu

Return(tt) ==
    /\ t' = tt
    /\ stack' = Tail(stack)
    /\ Unsaved

\* Exit, ESC, or a menu without any entry.
LeaveMenu(d) ==
    /\ Return(d.t)
    /\ UNCHANGED show_all_options

\* A key on an item: the symbols become tt, the frames in push come on top.
Key(tt, push) ==
    /\ t' = tt
    /\ stack' = push \o stack
    /\ Unsaved
    /\ UNCHANGED show_all_options

\* <Select> on an item.
SelectItem(d, tag, m) ==
    LET s == k.menus[m].sym
        choice == k.syms[s].choice /\ sym_get_tristate_value(d.t, s) = yes
    IN Key(d.t, CASE tag = "m" -> <<<<"conf", m>>>>
                  [] tag = "t" -> IF choice THEN <<<<"choice", m>>>>
                                  ELSE IF PromptType(m) = "MENU" THEN <<<<"conf", m>>>> ELSE <<>>
                  [] tag = "s" -> <<<<"string", m>>>>
                  [] OTHER -> <<>>)

\* y, m and n; y falls back to m.
SetItem(d, tag, m, val) ==
    LET s == k.menus[m].sym
        set == sym_set_tristate_value(d.t, s, val)
    IN /\ tag = "t"
       /\ Key(IF val = yes /\ ~set.r THEN sym_set_tristate_value(d.t, s, mod).t ELSE set.t, <<>>)

\* The space bar.
ToggleItem(d, tag, m) ==
    \/ tag = "t" /\ Key(sym_toggle_tristate_value(d.t, k.menus[m].sym), <<>>)
    \/ tag = "m" /\ Key(d.t, <<<<"conf", m>>>>)

OpenLoad(d) == LoadNames # {} /\ Key(d.t, <<<<"load", Root>>>>)
OpenSave(d) == SaveNames # {} /\ Key(d.t, <<<<"save", Root>>>>)

\* "/" and the name of a symbol.
Search(d) ==
    \E m \in DOMAIN k.menus :
        /\ k.menus[m].sym \notin ChoiceSyms \cup {NoSym}
        /\ Key(CalcAll(d.t, <<k.menus[m].sym>>), <<<<"search", m>>>>)

ShowAll(d) ==
    /\ t' = d.t
    /\ show_all_options' = ~show_all_options
    /\ Unsaved
    /\ UNCHANGED stack

\* conf shows a menu and waits for a key.
conf_menu ==
    /\ Top("conf")
    /\ \E d \in {Shown} :
          /\ child_count' = (child_count \/ Counted(d))
          /\ \/ LeaveMenu(d)
             \/ /\ child_count'
                /\ \/ \E i \in DOMAIN d.items :
                         LET tag == d.items[i][1]
                             m == d.items[i][2]
                         IN \/ SelectItem(d, tag, m)
                            \/ \E val \in {no, mod, yes} : SetItem(d, tag, m, val)
                            \/ ToggleItem(d, tag, m)
                   \/ OpenLoad(d) \/ OpenSave(d) \/ ShowAll(d) \/ Search(d)
    /\ UNCHANGED filename

----------------------------------------------------------------------------
(* search_conf: the results of a search for symbol s, and the entries to   *)
(* jump to: for each prompt below a menu that is shown, its entry, or the  *)
(* nearest one around it where it is not shown itself.                     *)

RECURSIVE Around(_, _)
Around(tt, m) ==       \* the nearest shown entry between m and the main menu, or 0
    IF m = Root THEN [t |-> tt, r |-> 0]
    ELSE With(menu_is_visible(tt, m), LAMBDA v :
            With(Around(v.t, k.menus[m].parent), LAMBDA rest :
                IF v.r THEN [rest EXCEPT !.r = m] ELSE rest))

AddTarget(d, p) ==
    LET m == k.props[p].menu
        Target(near) == With(menu_is_visible(near.t, m), LAMBDA v :
                            [t |-> v.t, targets |-> d.targets \cup {IF v.r THEN m ELSE near.r}])
    IN With(Around(d.t, k.menus[m].parent), LAMBDA near :
            IF near.r = 0 THEN [d EXCEPT !.t = near.t] ELSE Target(near))

get_relations_str(tt, s) ==
    LET ranged == IF Types(k)[s] = "INT" THEN sym_get_range_prop(tt, s).t ELSE tt
    IN [FoldLeft(AddTarget, [t |-> ranged, targets |-> {}], PropIds(s, {"PROMPT", "MENU"})) EXCEPT
            !.t = CalcAll(@, SymbolSeq(k.syms[s].rev_dep) \o SymbolSeq(k.syms[s].implied))]

\* The results come back when the menu is left that the user jumped to.
Jump(d) ==
    /\ \E m \in d.targets : stack' = <<<<"conf", k.menus[m].parent>>>> \o stack
    /\ t' = d.t
    /\ Unsaved

LeaveResults(d) == Return(d.t)

search_conf ==
    /\ Top("search")
    /\ \E d \in {get_relations_str(t, k.menus[TopMenu].sym)} : Jump(d) \/ LeaveResults(d)
    /\ UNCHANGED <<filename, show_all_options, child_count>>

----------------------------------------------------------------------------
\* conf_choice's list.
ChooseItem ==
    /\ Top("choice")
    /\ \E c \in ToSet(Children(k, TopMenu)) : \E v \in {menu_is_visible(t, c)} :
          /\ v.r
          /\ IF k.menus[c].sym = NoSym THEN t' = v.t /\ stack' = stack /\ Unsaved
             ELSE Return(sym_set_tristate_value(v.t, k.menus[c].sym, yes).t)
    /\ UNCHANGED <<filename, show_all_options, child_count>>

EnterString ==
    /\ Top("string")
    /\ \E str \in Entries : \E set \in {sym_set_string_value(t, k.menus[TopMenu].sym, str)} :
          IF set.r THEN Return(set.t) ELSE t' = set.t /\ stack' = stack /\ Unsaved
    /\ UNCHANGED <<filename, show_all_options, child_count>>

Escape ==
    /\ \E what \in {"choice", "string", "load", "save"} : Top(what)
    /\ Return(t)
    /\ UNCHANGED <<filename, show_all_options, child_count>>

conf_load ==
    /\ Top("load")
    /\ \E name \in LoadNames :
          \E read \in {Read(t, name)} :
              IF files[name] = NoFile
              THEN t' = read /\ missed' = TRUE /\ UNCHANGED <<k, tool, files, wrote, processes, stack, filename>>
              ELSE Return([read EXCEPT !.changed = TRUE]) /\ filename' = name
    /\ UNCHANGED <<show_all_options, child_count>>

conf_save ==
    /\ Top("save")
    /\ \E name \in SaveNames : Write(name) /\ filename' = name
    /\ stack' = Tail(stack)
    /\ missed' = FALSE
    /\ UNCHANGED <<tool, show_all_options, child_count>>

----------------------------------------------------------------------------
(* handle_exit, after conf has returned from the main menu, or at SIGINT   *)

MconfEnd ==
    /\ stack' = <<>>
    /\ filename' = ".config"
    /\ show_all_options' = FALSE
    /\ child_count' = FALSE
    /\ keys' = 0
    /\ missed' = FALSE

\* It asks only if something is changed.
ExitSilently ==
    /\ tool = "mconf" /\ ~t.changed
    /\ End
    /\ MconfEnd

ExitAndSave ==
    /\ tool = "mconf" /\ t.changed
    /\ WriteAndEnd(filename)
    /\ MconfEnd

ExitWithoutSaving ==
    /\ tool = "mconf" /\ t.changed
    /\ End
    /\ MconfEnd

\* ESC at the question: back to the main menu.
ExitEscape ==
    /\ tool = "mconf" /\ t.changed /\ stack = <<>>
    /\ stack' = <<<<"conf", Root>>>>
    /\ UNCHANGED <<shared, filename, show_all_options, child_count, keys, missed>>

MconfNext ==
    \/ Menuconfig
    \/ conf_menu \/ search_conf
    \/ ChooseItem \/ EnterString \/ Escape \/ conf_load \/ conf_save
    \/ ExitSilently \/ ExitAndSave \/ ExitWithoutSaving \/ ExitEscape
=============================================================================
