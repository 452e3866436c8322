----------------------------- MODULE KconfigConf -----------------------------
(***************************************************************************)
(* conf.c: the command line front end.  Some modes only read and write;    *)
(* oldconfig asks for every new symbol that can be changed, oldaskconfig   *)
(* for every one.  The recursion of conf and check_conf over the menus is  *)
(* a stack of frames, the questions are frames of their own.               *)
(***************************************************************************)
EXTENDS KconfigProcess
LOCAL INSTANCE SequencesExt

CONSTANTS
    Answers,     \* what a user may type at a string's prompt
    NewValues    \* what rand() may give to the new symbols: a set of sets, those that are y

VARIABLES
    work,        \* the stack: <<what is to be done, the menu>>
    conf_cnt,    \* new symbols that this pass has met
    rootEntry,
    setnew,      \* conf_set_all_new_symbols is to be called (once more)
    asked        \* history: the answered questions: <<frame, symbol, values on offer>>

confvars == <<work, conf_cnt, rootEntry, setnew, asked>>

AllModes == {"oldconfig", "oldaskconfig", "olddefconfig", "defconfig", "savedefconfig",
             "allnoconfig", "allyesconfig", "alldefconfig", "randconfig"}

ReadModes == {"oldconfig", "oldaskconfig", "olddefconfig", "savedefconfig"}
SetModes == [allnoconfig |-> "no", allyesconfig |-> "yes", alldefconfig |-> "default",
             defconfig |-> "default", randconfig |-> "random"]
AskModes == {"oldconfig", "oldaskconfig"}

ConfInit ==
    /\ work = <<>>
    /\ conf_cnt = 0
    /\ rootEntry = Root
    /\ setnew = FALSE
    /\ asked = <<>>

\* The process and its variables are gone.
ConfEnd ==
    /\ work' = <<>>
    /\ conf_cnt' = 0
    /\ rootEntry' = Root
    /\ setnew' = FALSE
    /\ asked' = <<>>

\* main, up to the switch over what the mode does.  No KCONFIG_ALLCONFIG is set, and
\* defconfig needs its file.
Main(mode) ==
    /\ mode = "defconfig" => files["defconfig"] # NoFile
    /\ Start(mode, CASE mode \in ReadModes -> ReadConfig(NewTable)
                     [] mode = "defconfig" -> Read(NewTable, "defconfig")
                     [] OTHER -> NewTable)
    /\ work' = CASE mode = "oldconfig" -> <<<<"check", Root>>>>
                 [] mode = "oldaskconfig" -> <<<<"conf", Root>>>>
                 [] OTHER -> <<>>
    /\ conf_cnt' = 0
    /\ rootEntry' = Root
    /\ setnew' = (mode \in DOMAIN SetModes)
    /\ asked' = <<>>

\* randconfig repeats it until it changes nothing.
SetAllNew ==
    /\ setnew
    /\ LET mode == SetModes[tool]
       IN \E ones \in IF mode = "random" THEN NewValues ELSE {{}} :
          \E pick \in IF mode = "random"
                      THEN {f \in [ChoiceSyms -> Symbols] : \A c \in ChoiceSyms : f[c] \in ToSet(sym_choice_values(c))}
                      ELSE {<<>>} :
          \E u \in {conf_set_all_new_symbols(t, mode, [s \in Symbols |-> IF s \in ones THEN yes ELSE no], pick)} :
             /\ t' = u.t
             /\ setnew' = (mode = "random" /\ u.r)
    /\ UNCHANGED <<k, tool, files, wrote, processes, work, conf_cnt, rootEntry, asked>>

----------------------------------------------------------------------------
(* The walk over the menus                                                 *)

RECURSIVE menu_get_parent_menu(_)
menu_get_parent_menu(m) ==
    IF m = Root \/ (k.menus[m].prompt # 0 /\ k.props[k.menus[m].prompt].type = "MENU")
    THEN m ELSE menu_get_parent_menu(k.menus[m].parent)

Frame(what) == /\ tool \in AskModes
               /\ work # <<>>
               /\ Head(work)[1] = what
Here == Head(work)[2]
Each(what, menus) == [i \in DOMAIN menus |-> <<what, menus[i]>>]

\* The top frame gives way to frames; the symbols become tt.
Continue(tt, frames) ==
    /\ t' = tt
    /\ work' = frames \o Tail(work)
    /\ UNCHANGED <<k, tool, files, wrote, processes, setnew>>

check_conf ==
    /\ Frame("check")
    /\ \E v \in {menu_is_visible(t, Here)} :
          LET s == k.menus[Here].sym
              asks == /\ v.r
                      /\ s # NoSym /\ ~sym_has_value(v.t, s)
                      /\ \/ sym_is_changable(v.t, s)
                         \/ k.syms[s].choice /\ sym_get_tristate_value(v.t, s) = yes
              root == menu_get_parent_menu(Here)
              children == IF v.r THEN Each("check", Children(k, Here)) ELSE <<>>
          IN /\ conf_cnt' = IF asks THEN conf_cnt + 1 ELSE conf_cnt
             /\ rootEntry' = IF asks THEN root ELSE rootEntry
             /\ Continue(v.t, (IF asks THEN <<<<"conf", root>>>> ELSE <<>>) \o children)
    /\ UNCHANGED asked

conf ==
    /\ Frame("conf")
    /\ \E v \in {menu_is_visible(t, Here)} :
          LET e == k.menus[Here]
              children == Each("conf", Children(k, Here))
              closed == e.prompt # 0 /\ k.props[e.prompt].type = "MENU"
                        /\ tool # "oldaskconfig" /\ rootEntry # Here
              new == ~sym_has_value(v.t, e.sym)
              Choice == IF sym_is_changable(v.t, e.sym) THEN IF new THEN "newmode" ELSE "mode"
                        ELSE IF new THEN "newchoice" ELSE "choice"
          IN Continue(v.t,
                CASE ~v.r -> <<>>
                  [] v.r /\ closed -> <<<<"check", Here>>>>
                  [] v.r /\ ~closed /\ e.sym = NoSym -> children
                  [] OTHER -> IF k.syms[e.sym].choice THEN <<<<Choice, Here>>>>
                              ELSE <<<<IF IsBool(e.sym) THEN "tristate" ELSE "string", Here>>>> \o children)
    /\ UNCHANGED <<conf_cnt, rootEntry, asked>>

----------------------------------------------------------------------------
(* The questions                                                           *)

\* conf_askvalue waits for the user; otherwise the symbol stays as it is.
conf_askvalue(s) == sym_is_changable(t, s) /\ (tool = "oldaskconfig" \/ ~sym_has_value(t, s))

\* What comes after a question: a choice whose mode is settled asks for its value.
AfterQuestion(what) ==
    CASE what = "mode" -> <<<<"choice", Here>>>>
      [] what = "newmode" -> <<<<"newchoice", Here>>>>
      [] OTHER -> <<>>

NotAsked ==
    /\ \E what \in {"mode", "newmode", "tristate", "string"} :
          Frame(what) /\ ~conf_askvalue(k.menus[Here].sym) /\ Continue(t, AfterQuestion(what))
    /\ UNCHANGED <<conf_cnt, rootEntry, asked>>

\* y, m, n, or nothing for the value it has; another answer is asked for again.
conf_sym ==
    LET s == k.menus[Here].sym
    IN /\ \E what \in {"mode", "newmode", "tristate"}, newval \in {no, mod, yes} :
          /\ Frame(what) /\ conf_askvalue(s)
          /\ asked' = Append(asked, <<what, s, {}>>)
          /\ \E set \in {sym_set_tristate_value(t, s, newval)} :
                set.r /\ Continue(set.t, AfterQuestion(what))
       /\ UNCHANGED <<conf_cnt, rootEntry>>

conf_string ==
    LET s == k.menus[Here].sym
    IN /\ Frame("string") /\ conf_askvalue(s)
       /\ \E str \in Answers \cup {sym_get_string_value(t, s)} :
          \E set \in {sym_set_string_value(t, s, str)} :
             /\ Continue(set.t, IF set.r THEN <<>> ELSE <<Head(work)>>)
             /\ asked' = IF set.r THEN Append(asked, <<"string", s, {}>>) ELSE asked
       /\ UNCHANGED <<conf_cnt, rootEntry>>

\* The entries of a choice that are shown, and the table when they have been found.
RECURSIVE ShownOf(_, _)
ShownOf(tt, menus) ==
    LET Add(m, r, rest) == [rest EXCEPT !.shown = IF r THEN <<m>> \o @ ELSE @]
    IN IF menus = <<>> THEN [t |-> tt, shown |-> <<>>]
       ELSE With(menu_is_visible(tt, Head(menus)), LAMBDA v : Add(Head(menus), v.r, ShownOf(v.t, Tail(menus))))

\* conf_choice, once its mode is settled.  The number of an entry is its place among
\* those shown; 0 stands for one that is not there, and is asked for again.
conf_choice ==
    LET c == k.menus[Here].sym
        Values(found) == SelectSeq(found.shown, LAMBDA m : k.menus[m].sym # NoSym)
        Pick(i, found, values, asks) ==
            /\ IF i = 0 THEN Continue(found.t, <<Head(work)>>)
               ELSE Continue(sym_set_choice_value(found.t, k.menus[values[i]].sym).t,
                             Each("conf", Children(k, values[i])))
            /\ asked' = IF asks /\ i # 0 THEN Append(asked, <<"choice", c, ToSet(values)>>) ELSE asked
    IN /\ Frame("choice") \/ Frame("newchoice")
       /\ \E tt \in {sym_calc_value(t, c)} :
          \/ tt.curr[c].tri = no /\ Continue(tt, <<>>) /\ UNCHANGED asked
          \/ /\ tt.curr[c].tri # no
             /\ \E found \in {ShownOf(tt, Children(k, Here))} :
                LET values == Values(found)
                    asks == Len(values) # 1 /\ (Frame("newchoice") \/ tool = "oldaskconfig")
                    def == {i \in DOMAIN values : k.menus[values[i]].sym = tt.curr[c].val}
                IN \E i \in CASE Len(values) = 1 -> {1}
                             [] asks -> 0..Len(values)
                             [] OTHER -> IF def = {} THEN {0} ELSE def :
                      Pick(i, found, values, asks)
       /\ UNCHANGED <<conf_cnt, rootEntry>>

----------------------------------------------------------------------------
\* Update until a loop caused no more changes; oldaskconfig goes on as oldconfig.
NextPass ==
    /\ tool \in AskModes /\ work = <<>>
    /\ tool = "oldaskconfig" \/ conf_cnt # 0
    /\ tool' = "oldconfig"
    /\ work' = <<<<"check", Root>>>>
    /\ conf_cnt' = 0
    /\ UNCHANGED <<k, t, files, wrote, processes, rootEntry, setnew, asked>>

Finished ==
    /\ tool \in AllModes \ {"oldaskconfig"}
    /\ work = <<>> /\ conf_cnt = 0 /\ ~setnew

WriteConfig == Finished /\ tool # "savedefconfig" /\ WriteAndEnd(".config") /\ ConfEnd

WriteDefconfig ==
    /\ Finished /\ tool = "savedefconfig"
    /\ files' = [files EXCEPT !["defconfig"] = conf_write_defconfig(t).lines]
    /\ wrote' = wrote \cup {"defconfig"}
    /\ t' = NoTable
    /\ tool' = "none"
    /\ UNCHANGED <<k, processes>>
    /\ ConfEnd

Walk == check_conf \/ conf \/ NotAsked \/ conf_sym \/ conf_string \/ conf_choice \/ NextPass
ConfNext ==
    \/ \E mode \in AllModes : Main(mode)
    \/ SetAllNew
    \/ Walk
    \/ WriteConfig
    \/ WriteDefconfig
=============================================================================
