--------------------------- MODULE MCKconfigParse ---------------------------
(* Three symbols and a choice; the conditions give every branch of         *)
(* menu_finalize something to do.                                          *)
EXTENDS KconfigParse

A == SymbolExpr("A")
B == SymbolExpr("B")
C == SymbolExpr("C")
And(e, f) == TwoExpr("AND", e, f)
Or(e, f) == TwoExpr("OR", e, f)
Is(s, t) == CompExpr("EQUAL", s, t)
IsNot(s, t) == CompExpr("UNEQUAL", s, t)

MCSymbols == {"A", "B", "C"}
MCConsts == {"n", "m", "y"}
MCStr == MCConsts \cup MCSymbols \cup {"ch"}
MCRank == [s \in MCStr |-> CASE s = "A" -> 1 [] s = "B" -> 2 [] s = "C" -> 3 [] s = "ch" -> 4
                             [] s = "m" -> 5 [] s = "n" -> 6 [] s = "y" -> 7]
MCNumber == [t \in {"INT", "HEX", "STRING", "UNKNOWN"} |-> [s \in {} |-> 0]]
MCTypeOf == [s \in MCSymbols |-> IF s = "C" THEN "TRISTATE" ELSE "BOOLEAN"]
MCStarts == [A |-> {"config", "menuconfig"}, B |-> {"config"}, C |-> {"config"}]
MCPrompts == [A |-> BOOLEAN, B |-> {TRUE}, C |-> {TRUE}]
MCDeps == [A |-> {NotExpr(C)},
           B |-> {A, Or(A, C)},
           C |-> {And(A, B)},
           if |-> {Is("A", "y")},
           menu |-> {}, choice |-> {A}, comment |-> {},
           prompt |-> {}, visible |-> {B}]
MCRelatives == [A |-> {<<"SELECT", "C">>}, B |-> {<<"IMPLY", "A">>}, C |-> {<<"DEFAULT", "B">>}]
MCLongSymbols == <<"A", "C">>

Leaves == {A, B, C, Is("C", "y"), IsNot("C", "n"), Is("C", "m"), IsNot("A", "y"), SymbolExpr("m")}
Short == Leaves \cup {NotExpr(e) : e \in Leaves}
Middle == Short \cup {TwoExpr(t, e, f) : t \in Connectives, e \in Short, f \in Leaves}
MCLongExprs == Middle \cup {NotExpr(e) : e \in Middle} \cup {TwoExpr(t, e, f) : t \in Connectives, e \in Middle, f \in {NotExpr(A), C, Is("C", "y"), And(A,C), Or(C,A)}}
MCHashOrder == <<"C", "ch", "A", "B">>
=============================================================================
