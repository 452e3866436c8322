--------------------------- MODULE MCKconfigTools ---------------------------
(* Two releases of some Kconfig files.                                     *)
EXTENDS KconfigTools

MCConsts == {"n", "m", "y", "1", "2", "3", "5"}
MCSymbols == {"A", "B", "C", "D", "X", "Y", "Z", "N", "ch"}
MCInts == {"1", "2", "3", "5", "7"}
MCIntValue == [s \in MCInts |-> CASE s = "1" -> 1 [] s = "2" -> 2 [] s = "3" -> 3 [] s = "5" -> 5 [] s = "7" -> 7]
MCNumber == [type \in {"INT", "HEX", "STRING", "UNKNOWN"} |->
                IF type \in {"INT", "UNKNOWN"} THEN MCIntValue ELSE [s \in {} |-> 0]]
MCOrder == <<"1", "2", "3", "5", "7", "A", "B", "C", "D", "N", "X", "Y", "Z", "ch", "m", "n", "y", "">>
MCStr == {MCOrder[i] : i \in DOMAIN MCOrder}
MCRank == [s \in MCStr |-> CHOOSE i \in DOMAIN MCOrder : MCOrder[i] = s]
MCHashOrder == <<"N", "D", "ch", "A", "Y", "C", "X", "B", "Z", "1", "2", "3", "5", "y", "m", "n">>

\* A definition with a prompt if the condition is not NoPrompt.
NoPrompt == [type |-> "NoPrompt"]
Config(kk, s, type, prompt, dep) ==
    LET k1 == config_type(config_entry_start(kk, s), type)
        k2 == IF prompt = NoPrompt THEN k1 ELSE config_prompt(k1, prompt)
    IN menu_add_dep(k2, dep)
S(s) == SymbolExpr(s)

\* A selects C, which needs B otherwise; a choice that needs A; a number whose range
\* and default depend on B; a menu with a symbol that is y by default.
OldFirst(k0) ==
    LET k1 == config_select(Config(k0, "A", "BOOLEAN", NULL, NULL), "C", NULL)
        k2 == Config(k1, "B", "BOOLEAN", NULL, NULL)
        k3 == Config(k2, "C", "BOOLEAN", NULL, S("B"))
        k4 == choice_default(menu_add_dep(config_prompt(choice_start(k3, "ch"), NULL), S("A")), "Y", S("B"))
    IN Config(menu_add_menu(k4), "X", "BOOLEAN", NULL, NULL)
OldRest(k5) ==
    LET k6 == menu_end_menu(Config(k5, "Y", "BOOLEAN", NULL, NULL))
        k7 == config_range(Config(k6, "N", "INT", NULL, NULL), "1", "5", NULL)
        k8 == config_default(config_default(k7, S("3"), S("B")), S("2"), NULL)
        k9 == menu_add_menu(menu_start(k8))
    IN menu_end_menu(config_default(Config(k9, "D", "BOOLEAN", NULL, S("X")), S("y"), NULL))
Old == OldRest(OldFirst(_menu_init({"A", "B", "C", "D", "X", "Y", "N", "ch"})))

\* X has become Z, Y needs B, which A implies, and D is a menu of its own that is there by
\* default if N is 3.  Where narrow, the range of N is 1 to 2 without B.
UpgradeFirst(k0) ==
    LET k1 == config_imply(config_select(Config(k0, "A", "BOOLEAN", NULL, NULL), "C", NULL), "B", NULL)
        k2 == Config(k1, "B", "BOOLEAN", NULL, NULL)
        k3 == Config(k2, "C", "BOOLEAN", NULL, S("B"))
        k4 == choice_default(menu_add_dep(config_prompt(choice_start(k3, "ch"), NULL), S("A")), "Z", S("C"))
    IN Config(menu_add_menu(k4), "Z", "BOOLEAN", NULL, NULL)
UpgradeRest(k5, narrow) ==
    LET k6 == menu_end_menu(Config(k5, "Y", "BOOLEAN", NULL, S("B")))
        k7 == Config(k6, "N", "INT", NULL, NULL)
        k8 == config_range(IF narrow THEN config_range(k7, "1", "2", NotExpr(S("B"))) ELSE k7, "1", "5", NULL)
        k9 == config_default(config_default(k8, S("3"), S("B")), S("2"), NULL)
        k10 == menuconfig_stmt(Config(k9, "D", "BOOLEAN", NULL, NULL))
    IN config_default(k10, S("y"), CompExpr("EQUAL", "N", "3"))
Upgrade(narrow) == UpgradeRest(UpgradeFirst(_menu_init({"A", "B", "C", "D", "Z", "Y", "N", "ch"})), narrow)

Finalized(tables) == {menu_finalize(table, Root) : table \in tables}
MCReleases == Finalized({Old, Upgrade(FALSE)})
NarrowReleases == Finalized({Upgrade(TRUE)})
Line(s, val) == <<s, val>>
MCEdits == {<<>>,
            <<Line("A", "y"), Line("X", "y"), Line("Y", "y"), Line("N", "3")>>,
            <<Line("C", "y"), Line("B", "n"), Line("D", "y"), Line("Z", "y"), Line("A", "n")>>,
            <<Line("B", "y"), Line("N", "5"), Line("B", "n")>>}
MCOldFiles == [alt |-> <<Line("C", "y"), Line("X", "n"), Line("A", "y"), Line("N", "5")>>]
MCAnswers == {"5", "7", "Y"}
MCFileNames == {".config", "defconfig", "alt"}
MCNewValues == {{"A", "B", "Z"}, {"C", "D"}}
MCModes == <<{"oldaskconfig", "allyesconfig", "allnoconfig", "alldefconfig", "randconfig", "mconf"},
             {"oldconfig", "olddefconfig", "savedefconfig"},
             {"defconfig"}>>
=============================================================================
