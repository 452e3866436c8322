------------------------- MODULE KconfigExpr_proofs -------------------------
(***************************************************************************)
(* What expr.c makes of an expression is worth what the expression was,    *)
(* for every symbol table and every valuation that the program can have:   *)
(* what menu_finalize simplifies means what the Kconfig file says.  First  *)
(* the rules at one node (KconfigRules), then the recursions (KconfigExpr).*)
(***************************************************************************)
EXTENDS KconfigExpr, WellFoundedInduction, TLAPS

TypeNames == DOMAIN Number \cup {"BOOLEAN", "TRISTATE"}

\* The types and values that symbols have together: a bool or a tristate has the string
\* of its tristate, a bool is never m, and the constants y, m and n have no type.
Legal(ty, v) ==
    /\ DOMAIN v = DOMAIN ty /\ Tristates \subseteq DOMAIN ty
    /\ \A s \in DOMAIN ty :
          /\ ty[s] \in TypeNames
          /\ v[s].str \in Str
          /\ v[s].tri \in {no, mod, yes}
          /\ ty[s] \in {"BOOLEAN", "TRISTATE"} => v[s].str = TriName(v[s].tri)
          /\ ty[s] = "BOOLEAN" => v[s].tri # mod
    /\ \A t \in Tristates : ty[t] = "UNKNOWN" /\ v[t].str = t /\ t = TriName(v[t].tri)

Operands(ty) ==
    {SymbolExpr(s) : s \in DOMAIN ty} \cup
    {CompExpr(t, s1, s2) : t \in Relations, s1 \in DOMAIN ty, s2 \in DOMAIN ty}
Nodes(ty) == Operands(ty) \cup {NotExpr(e) : e \in Operands(ty)}

NodeValue(e, ty, v) ==
    IF e.type = "NOT" THEN EXPR_NOT(OperandValue(e.arg, ty, v)) ELSE OperandValue(e, ty, v)

----------------------------------------------------------------------------
\* A comparison of two symbols is that of two integers.
LEMMA DifferenceInt ==
    ASSUME NEW ty, NEW v, Legal(ty, v), NEW s1 \in DOMAIN ty, NEW s2 \in DOMAIN ty
    PROVE  Difference(ty[s1], v[s1].str, ty[s2], v[s2].str) \in Int
<1> DEFINE p == expr_parse_string(ty[s1], v[s1].str)
           q == expr_parse_string(ty[s2], v[s2].str)
<1>1. ASSUME NEW s \in DOMAIN ty
      PROVE  expr_parse_string(ty[s], v[s].str).num \in Int
  BY <1>1, StringsAssumption DEF Legal, TypeNames, expr_parse_string
<1>2. p.num \in Int /\ q.num \in Int
  BY <1>1
<1>3. Unsigned(p.num) \in Int /\ Unsigned(q.num) \in Int
  BY <1>2, StringsAssumption DEF Unsigned
<1>4. Rank[v[s1].str] \in Int /\ Rank[v[s2].str] \in Int
  BY StringsAssumption DEF Legal
<1> QED
  BY <1>2, <1>3, <1>4 DEF Difference

\* The string of a number that is none decides to compare strings.
LEMMA StringDifference ==
    ASSUME NEW t1, NEW x1, NEW t2, NEW x2, expr_parse_string(t2, x2).kind = "string"
    PROVE  Difference(t1, x1, t2, x2) = Rank[x1] - Rank[x2]
  BY DEF Difference

\* A relation's opposite holds where it does not.
LEMMA OppositeHolds ==
    ASSUME NEW t \in Relations, NEW d \in Int
    PROVE  Opposite(t) \in Relations /\ (Holds(Opposite(t), d) <=> ~Holds(t, d))
<1>1. CASE t \in Equalities
  BY <1>1 DEF Equalities, Relations, Opposite, Holds
<1>2. CASE t = "LTH"
  BY <1>2 DEF Relations, Opposite, Holds
<1>3. CASE t = "LEQ"
  BY <1>3 DEF Relations, Opposite, Holds
<1>4. CASE t = "GTH"
  BY <1>4 DEF Relations, Opposite, Holds
<1>5. CASE t = "GEQ"
  BY <1>5 DEF Relations, Opposite, Holds
<1> QED
  BY <1>1, <1>2, <1>3, <1>4, <1>5 DEF Relations

\* The value of each kind of operand.
LEMMA SymbolValue ==
    ASSUME NEW ty, NEW v, NEW s
    PROVE  /\ OperandValue(SymbolExpr(s), ty, v) = v[s].tri
           /\ NodeValue(SymbolExpr(s), ty, v) = v[s].tri
           /\ NodeValue(NotExpr(SymbolExpr(s)), ty, v) = EXPR_NOT(v[s].tri)
<1>1. OperandValue(SymbolExpr(s), ty, v) = v[s].tri
  BY DEF OperandValue, SymbolExpr, Relations, Equalities
<1> QED
  BY <1>1 DEF NodeValue, SymbolExpr, NotExpr

LEMMA CompValue ==
    ASSUME NEW ty, NEW v, NEW t \in Relations, NEW s1, NEW s2
    PROVE  /\ OperandValue(CompExpr(t, s1, s2), ty, v) =
                  IF Holds(t, Difference(ty[s1], v[s1].str, ty[s2], v[s2].str)) THEN yes ELSE no
           /\ NodeValue(CompExpr(t, s1, s2), ty, v) = OperandValue(CompExpr(t, s1, s2), ty, v)
  BY DEF OperandValue, CompExpr, NodeValue, Relations, Equalities

\* What the constants are worth.
LEMMA TristateValues ==
    ASSUME NEW ty, NEW v, Legal(ty, v)
    PROVE  v["n"].tri = no /\ v["m"].tri = mod /\ v["y"].tri = yes
  BY DEF Legal, Tristates, TriName, no, mod, yes

\* A test of a bool or a tristate against y, m or n compares the strings.
LEMMA TristateTest ==
    ASSUME NEW ty, NEW v, Legal(ty, v), NEW s \in DOMAIN ty, NEW t \in Tristates,
           ty[s] \in {"BOOLEAN", "TRISTATE"}
    PROVE  /\ OperandValue(CompExpr("EQUAL", s, t), ty, v) = IF v[s].str = t THEN yes ELSE no
           /\ OperandValue(CompExpr("UNEQUAL", s, t), ty, v) = IF v[s].str = t THEN no ELSE yes
<1> DEFINE d == Difference(ty[s], v[s].str, ty[t], v[t].str)
<1>1. ty[t] = "UNKNOWN" /\ v[t].str = t
  BY DEF Legal
<1>2. expr_parse_string(ty[t], v[t].str).kind = "string"
  BY <1>1, StringsAssumption DEF expr_parse_string
<1>3. d = Rank[v[s].str] - Rank[t]
  BY <1>1, <1>2, StringDifference
<1>4. v[s].str \in Str /\ t \in Str
  BY StringsAssumption DEF Legal
<1>5. (d = 0) <=> (v[s].str = t)
  BY <1>3, <1>4, StringsAssumption
<1>6. /\ Holds("EQUAL", d) <=> v[s].str = t
      /\ Holds("UNEQUAL", d) <=> v[s].str # t
  BY <1>5 DEF Holds
<1> QED
  BY <1>6, CompValue DEF Relations, Equalities

\* The value of an operand is a tristate.
LEMMA OperandTri ==
    ASSUME NEW ty, NEW v, Legal(ty, v), NEW e \in Operands(ty)
    PROVE  OperandValue(e, ty, v) \in {no, mod, yes}
  BY SymbolValue, CompValue DEF Operands, Legal

----------------------------------------------------------------------------
\* expr_eliminate_yn: dropping a neutral operand or keeping only an absorbing one changes
\* no value.  a and b are what the operands are worth.
THEOREM YnRuleSound ==
    ASSUME NEW ty, NEW v, Legal(ty, v), NEW e1 \in Operands(ty), NEW e2 \in Operands(ty),
           NEW t \in Connectives,
           YnRule(TwoExpr(t, e1, e2)) # TwoExpr(t, e1, e2)
    PROVE  OperandValue(YnRule(TwoExpr(t, e1, e2)), ty, v) =
               IF t = "AND" THEN EXPR_AND(OperandValue(e1, ty, v), OperandValue(e2, ty, v))
                            ELSE EXPR_OR(OperandValue(e1, ty, v), OperandValue(e2, ty, v))
<1> DEFINE a == OperandValue(e1, ty, v)
           b == OperandValue(e2, ty, v)
<1>1. a \in {no, mod, yes} /\ b \in {no, mod, yes}
  BY OperandTri
<1>2. ASSUME NEW e \in Operands(ty), NEW x \in {"y", "n"}, IsSymbol(e, x)
      PROVE  e = SymbolExpr(x) /\ OperandValue(e, ty, v) = IF x = "y" THEN yes ELSE no
  <2>1. e = SymbolExpr(x)
    <3>1. \A c \in Relations, s1, s2 \in DOMAIN ty : CompExpr(c, s1, s2).type # "SYMBOL"
      BY DEF CompExpr, Relations, Equalities
    <3>2. e.type = "SYMBOL"
      BY <1>2 DEF IsSymbol
    <3>3. PICK s \in DOMAIN ty : e = SymbolExpr(s)
      BY <3>1, <3>2 DEF Operands
    <3> QED
      BY <1>2, <3>3 DEF IsSymbol, SymbolExpr
  <2>2. v[x].tri = IF x = "y" THEN yes ELSE no
    BY <1>2, TristateValues
  <2> QED
    BY <2>1, <2>2, SymbolValue
<1>3. CASE t = "AND"
  BY <1>1, <1>2, <1>3 DEF YnRule, TwoExpr, Absorbing, Neutral, SymbolExpr, EXPR_AND, no, mod, yes
<1>4. CASE t = "OR"
  BY <1>1, <1>2, <1>4 DEF YnRule, TwoExpr, Absorbing, Neutral, SymbolExpr, EXPR_OR, no, mod, yes
<1> QED
  BY <1>3, <1>4 DEF Connectives

\* expr_transform: a test of a bool against y, m or n becomes the symbol, its negation or
\* a constant of the same value.
THEOREM BoolTestRuleSound ==
    ASSUME NEW ty, NEW v, Legal(ty, v), NEW s1 \in DOMAIN ty, NEW s2 \in DOMAIN ty,
           NEW t \in Equalities
    PROVE  NodeValue(BoolTestRule(CompExpr(t, s1, s2), ty), ty, v) =
               OperandValue(CompExpr(t, s1, s2), ty, v)
<1> DEFINE e == CompExpr(t, s1, s2)
<1>1. CASE ty[s1] = "BOOLEAN" /\ s2 \in Tristates
  <2>1. v[s1].tri \in {no, yes} /\ v[s1].str = TriName(v[s1].tri)
    BY <1>1 DEF Legal, no, mod, yes
  <2>2. OperandValue(e, ty, v) = IF (v[s1].str = s2) = (t = "EQUAL") THEN yes ELSE no
    BY <1>1, TristateTest DEF Equalities
  <2>3. BoolTestRule(e, ty) = IF s2 = "m" THEN SymbolExpr(IF t = "EQUAL" THEN "n" ELSE "y")
                              ELSE IF (t = "EQUAL") = (s2 = "y") THEN SymbolExpr(s1)
                              ELSE NotExpr(SymbolExpr(s1))
    BY <1>1 DEF BoolTestRule, CompExpr
  <2>4. CASE s2 = "m"
    BY <2>1, <2>2, <2>3, <2>4, SymbolValue, TristateValues DEF TriName, no, mod, yes
  <2>5. CASE s2 = "y"
    BY <2>1, <2>2, <2>3, <2>5, SymbolValue DEF TriName, EXPR_NOT, no, mod, yes
  <2>6. CASE s2 = "n"
    BY <2>1, <2>2, <2>3, <2>6, SymbolValue DEF TriName, EXPR_NOT, no, mod, yes
  <2> QED
    BY <1>1, <2>4, <2>5, <2>6 DEF Tristates
<1>2. CASE ~(ty[s1] = "BOOLEAN" /\ s2 \in Tristates)
  BY <1>2 DEF BoolTestRule, NodeValue, CompExpr, Equalities
<1> QED
  BY <1>1, <1>2

\* expr_transform: negating an operand turns its comparison round or its constant over.
THEOREM NegationRuleSound ==
    ASSUME NEW ty, NEW v, Legal(ty, v), NEW e \in Operands(ty)
    PROVE  NodeValue(NegationRule(e), ty, v) = EXPR_NOT(OperandValue(e, ty, v))
<1>1. ASSUME NEW s \in DOMAIN ty, e = SymbolExpr(s)
      PROVE  NodeValue(NegationRule(e), ty, v) = EXPR_NOT(OperandValue(e, ty, v))
  <2>1. CASE s \in Tristates
    <3>1. NegationRule(e) = SymbolExpr(CASE s = "y" -> "n" [] s = "m" -> "m" [] s = "n" -> "y")
      BY <1>1, <2>1 DEF NegationRule, SymbolExpr, Relations, Equalities
    <3> QED
      BY <1>1, <2>1, <3>1, SymbolValue, TristateValues DEF EXPR_NOT, Tristates, no, mod, yes
  <2>2. CASE s \notin Tristates
    <3>1. NegationRule(e) = NotExpr(e)
      BY <1>1, <2>2 DEF NegationRule, SymbolExpr, Relations, Equalities
    <3> QED
      BY <1>1, <3>1, SymbolValue
  <2> QED
    BY <2>1, <2>2
<1>2. ASSUME NEW t \in Relations, NEW s1 \in DOMAIN ty, NEW s2 \in DOMAIN ty,
             e = CompExpr(t, s1, s2)
      PROVE  NodeValue(NegationRule(e), ty, v) = EXPR_NOT(OperandValue(e, ty, v))
  <2> DEFINE d == Difference(ty[s1], v[s1].str, ty[s2], v[s2].str)
  <2>1. d \in Int
    BY DifferenceInt
  <2>2. NegationRule(e) = CompExpr(Opposite(t), s1, s2) /\ Opposite(t) \in Relations
    BY <1>2 DEF NegationRule, CompExpr, Opposite, Relations, Equalities
  <2>3. Holds(Opposite(t), d) <=> ~Holds(t, d)
    BY <2>1, OppositeHolds
  <2>4. /\ OperandValue(e, ty, v) = IF Holds(t, d) THEN yes ELSE no
        /\ NodeValue(NegationRule(e), ty, v) = IF Holds(Opposite(t), d) THEN yes ELSE no
    BY <1>2, <2>2, CompValue
  <2> QED
    BY <2>3, <2>4 DEF EXPR_NOT, no, yes
<1> QED
  BY <1>1, <1>2 DEF Operands

----------------------------------------------------------------------------
(* Joining two operands of a chain into one.                               *)

\* A bool or a tristate has one of the three strings, which tells its value.
LEMMA TristateString ==
    ASSUME NEW ty, NEW v, Legal(ty, v), NEW s \in DOMAIN ty, ty[s] \in {"BOOLEAN", "TRISTATE"}
    PROVE  /\ v[s].str \in Tristates
           /\ v[s].str = "n" => v[s].tri = no
           /\ v[s].str = "m" => v[s].tri = mod
           /\ v[s].str = "y" => v[s].tri = yes
  BY DEF Legal, TriName, Tristates, no, mod, yes

LEMMA ThirdTristate ==
    ASSUME NEW t1 \in Tristates, NEW t2 \in Tristates
    PROVE  Third(t1, t2) \in Tristates \ {t1, t2}
  BY DEF Third, Tristates

\* (A="y") || (A="m") is A!="n", and so on: two tests that fail only for the third value.
LEMMA EitherTest ==
    ASSUME NEW ty, NEW v, Legal(ty, v), NEW s \in DOMAIN ty, ty[s] = "TRISTATE",
           NEW t1 \in Tristates, NEW t2 \in Tristates, t1 # t2
    PROVE  OperandValue(CompExpr("UNEQUAL", s, Third(t1, t2)), ty, v) =
               EXPR_OR(OperandValue(CompExpr("EQUAL", s, t1), ty, v),
                       OperandValue(CompExpr("EQUAL", s, t2), ty, v))
<1>1. Third(t1, t2) \in Tristates \ {t1, t2}
  BY ThirdTristate
<1>2. v[s].str = Third(t1, t2) <=> v[s].str \notin {t1, t2}
  BY <1>1, TristateString DEF Tristates
<1> QED
  BY <1>1, <1>2, TristateTest DEF EXPR_OR, no, yes

\* (A!="y") && (A!="m") is A="n", and so on.
LEMMA NeitherTest ==
    ASSUME NEW ty, NEW v, Legal(ty, v), NEW s \in DOMAIN ty, ty[s] = "TRISTATE",
           NEW t1 \in Tristates, NEW t2 \in Tristates, t1 # t2
    PROVE  OperandValue(CompExpr("EQUAL", s, Third(t1, t2)), ty, v) =
               EXPR_AND(OperandValue(CompExpr("UNEQUAL", s, t1), ty, v),
                        OperandValue(CompExpr("UNEQUAL", s, t2), ty, v))
<1>1. Third(t1, t2) \in Tristates \ {t1, t2}
  BY ThirdTristate
<1>2. v[s].str = Third(t1, t2) <=> v[s].str \notin {t1, t2}
  BY <1>1, TristateString DEF Tristates
<1> QED
  BY <1>1, <1>2, TristateTest DEF EXPR_AND, no, yes

\* A bool is y or its negation is.
LEMMA BoolOrNot ==
    ASSUME NEW ty, NEW v, Legal(ty, v), NEW s \in DOMAIN ty, ty[s] = "BOOLEAN"
    PROVE  /\ EXPR_OR(v[s].tri, EXPR_NOT(v[s].tri)) = yes
           /\ EXPR_OR(EXPR_NOT(v[s].tri), v[s].tri) = yes
  BY DEF Legal, EXPR_OR, EXPR_NOT, no, mod, yes

\* The shapes of operands and nodes.
LEMMA OperandShape ==
    ASSUME NEW ty, NEW e \in Operands(ty)
    PROVE  /\ e.type = "SYMBOL" => e.sym \in DOMAIN ty /\ e = SymbolExpr(e.sym)
           /\ e.type # "SYMBOL" => /\ e.type \in Relations
                                   /\ e.sym \in DOMAIN ty /\ e.with \in DOMAIN ty
                                   /\ e = CompExpr(e.type, e.sym, e.with)
           /\ e.type # "NOT"
<1>1. ASSUME NEW s \in DOMAIN ty, e = SymbolExpr(s)
      PROVE  e.type = "SYMBOL" /\ e.sym = s
  BY <1>1 DEF SymbolExpr
<1>2. ASSUME NEW t \in Relations, NEW s1 \in DOMAIN ty, NEW s2 \in DOMAIN ty,
             e = CompExpr(t, s1, s2)
      PROVE  e.type = t /\ e.sym = s1 /\ e.with = s2 /\ t \notin {"SYMBOL", "NOT"}
  BY <1>2 DEF CompExpr, Relations, Equalities
<1> QED
  BY <1>1, <1>2 DEF Operands

LEMMA NodeShape ==
    ASSUME NEW ty, NEW v, NEW e \in Nodes(ty)
    PROVE  /\ e.type = "NOT" => /\ e.arg \in Operands(ty)
                                /\ NodeValue(e, ty, v) = EXPR_NOT(OperandValue(e.arg, ty, v))
           /\ e.type # "NOT" => /\ e \in Operands(ty)
                                /\ NodeValue(e, ty, v) = OperandValue(e, ty, v)
<1>1. ASSUME NEW a \in Operands(ty), e = NotExpr(a)
      PROVE  e.type = "NOT" /\ e.arg = a
  BY <1>1 DEF NotExpr
<1> QED
  BY <1>1, OperandShape DEF Nodes, NodeValue

\* expr_join_or: the operand that replaces two is worth the greater of them.
THEOREM JoinOrRuleSound ==
    ASSUME NEW ty, NEW v, Legal(ty, v), NEW e1 \in Nodes(ty), NEW e2 \in Nodes(ty),
           JoinOrRule(e1, e2, ty) # NULL
    PROVE  NodeValue(JoinOrRule(e1, e2, ty), ty, v) =
               EXPR_OR(NodeValue(e1, ty, v), NodeValue(e2, ty, v))
<1> DEFINE Tests == /\ e1.type = "EQUAL" /\ e2.type = "EQUAL"
                    /\ e1.sym = e2.sym /\ ty[e1.sym] = "TRISTATE" /\ TwoTristates(e1, e2)
           NotRight == /\ e1.type = "SYMBOL" /\ ty[e1.sym] = "BOOLEAN"
                       /\ e2.type = "NOT" /\ IsSymbol(e2.arg, e1.sym)
           NotLeft == /\ e2.type = "SYMBOL" /\ ty[e2.sym] = "BOOLEAN"
                      /\ e1.type = "NOT" /\ IsSymbol(e1.arg, e2.sym)
<1>1. Tests \/ NotRight \/ NotLeft
  BY DEF JoinOrRule
<1>2. CASE Tests
  <2>1. JoinOrRule(e1, e2, ty) = CompExpr("UNEQUAL", e1.sym, Third(e1.with, e2.with))
    BY <1>2 DEF JoinOrRule
  <2>2. /\ e1 = CompExpr("EQUAL", e1.sym, e1.with) /\ e2 = CompExpr("EQUAL", e1.sym, e2.with)
        /\ e1.sym \in DOMAIN ty
        /\ NodeValue(e1, ty, v) = OperandValue(e1, ty, v)
        /\ NodeValue(e2, ty, v) = OperandValue(e2, ty, v)
    BY <1>2, NodeShape, OperandShape
  <2>3. /\ e1.with \in Tristates /\ e2.with \in Tristates /\ e1.with # e2.with
        /\ ty[e1.sym] = "TRISTATE"
    BY <1>2 DEF TwoTristates
  <2>4. OperandValue(CompExpr("UNEQUAL", e1.sym, Third(e1.with, e2.with)), ty, v) =
            EXPR_OR(OperandValue(e1, ty, v), OperandValue(e2, ty, v))
    BY <2>2, <2>3, EitherTest
  <2> QED
    BY <2>1, <2>2, <2>4, CompValue, ZenonT(40) DEF Relations, Equalities
<1>3. CASE NotRight
  <2>1. JoinOrRule(e1, e2, ty) = SymbolExpr("y")
    BY <1>3 DEF JoinOrRule
  <2>2. /\ e1.sym \in DOMAIN ty /\ NodeValue(e1, ty, v) = v[e1.sym].tri
        /\ NodeValue(e2, ty, v) = EXPR_NOT(v[e1.sym].tri)
    <3>1. e2.arg \in Operands(ty) /\ e2.arg.type = "SYMBOL" /\ e2.arg.sym = e1.sym
      BY <1>3, NodeShape DEF IsSymbol
    <3>2. e2.arg = SymbolExpr(e1.sym)
      BY <3>1, OperandShape
    <3>3. e1 = SymbolExpr(e1.sym) /\ e1.sym \in DOMAIN ty
      BY <1>3, NodeShape, OperandShape
    <3> QED
      BY <1>3, <3>2, <3>3, NodeShape, SymbolValue
  <2> QED
    BY <1>3, <2>1, <2>2, BoolOrNot, SymbolValue, TristateValues
<1>4. CASE NotLeft
  <2>1. JoinOrRule(e1, e2, ty) = SymbolExpr("y")
    BY <1>4 DEF JoinOrRule
  <2>2. /\ e2.sym \in DOMAIN ty /\ NodeValue(e2, ty, v) = v[e2.sym].tri
        /\ NodeValue(e1, ty, v) = EXPR_NOT(v[e2.sym].tri)
    <3>1. e1.arg \in Operands(ty) /\ e1.arg.type = "SYMBOL" /\ e1.arg.sym = e2.sym
      BY <1>4, NodeShape DEF IsSymbol
    <3>2. e1.arg = SymbolExpr(e2.sym)
      BY <3>1, OperandShape
    <3>3. e2 = SymbolExpr(e2.sym) /\ e2.sym \in DOMAIN ty
      BY <1>4, NodeShape, OperandShape
    <3> QED
      BY <1>4, <3>2, <3>3, NodeShape, SymbolValue
  <2> QED
    BY <1>4, <2>1, <2>2, BoolOrNot, SymbolValue, TristateValues
<1> QED
  BY <1>1, <1>2, <1>3, <1>4

\* A symbol and a test of the same symbol.
LEMMA JoinTestSound ==
    ASSUME NEW ty, NEW v, Legal(ty, v), NEW s \in DOMAIN ty, ty[s] \in {"BOOLEAN", "TRISTATE"},
           NEW t \in Equalities, NEW c,
           JoinTestRule(s, CompExpr(t, s, c)) # NULL
    PROVE  OperandValue(JoinTestRule(s, CompExpr(t, s, c)), ty, v) =
               EXPR_AND(v[s].tri, OperandValue(CompExpr(t, s, c), ty, v))
<1>1. v[s].str \in Tristates
  BY TristateString
<1>2. CASE t = "EQUAL" /\ c = "y"
  <2>1. JoinTestRule(s, CompExpr(t, s, c)) = CompExpr("EQUAL", s, "y")
    BY <1>2 DEF JoinTestRule, CompExpr
  <2> QED
    BY <1>1, <1>2, <2>1, TristateTest, TristateString
       DEF Tristates, EXPR_AND, no, mod, yes
<1>3. CASE t = "UNEQUAL" /\ c = "n"
  <2>1. JoinTestRule(s, CompExpr(t, s, c)) = SymbolExpr(s)
    BY <1>3 DEF JoinTestRule, CompExpr
  <2> QED
    BY <1>1, <1>3, <2>1, SymbolValue, TristateTest, TristateString
       DEF Tristates, EXPR_AND, no, mod, yes
<1>4. CASE t = "UNEQUAL" /\ c = "m"
  <2>1. JoinTestRule(s, CompExpr(t, s, c)) = CompExpr("EQUAL", s, "y")
    BY <1>4 DEF JoinTestRule, CompExpr
  <2> QED
    BY <1>1, <1>4, <2>1, TristateTest, TristateString
       DEF Tristates, EXPR_AND, no, mod, yes
<1> QED
  BY <1>2, <1>3, <1>4 DEF JoinTestRule, CompExpr

\* The constants that a test can name are their own strings, and no numbers: a tristate
\* that is tested against "0" would be compared as a number.
Constants(consts, ty, v) ==
    \A c \in consts : /\ c \in DOMAIN ty /\ ty[c] = "UNKNOWN"
                      /\ v[c].str = c /\ c \notin DOMAIN Number["UNKNOWN"]

LEMMA ConstantTest ==
    ASSUME NEW ty, NEW v, Legal(ty, v), NEW consts, Constants(consts, ty, v),
           NEW s \in DOMAIN ty, NEW c \in consts
    PROVE  /\ OperandValue(CompExpr("EQUAL", s, c), ty, v) = IF v[s].str = c THEN yes ELSE no
           /\ OperandValue(CompExpr("UNEQUAL", s, c), ty, v) = IF v[s].str = c THEN no ELSE yes
<1> DEFINE d == Difference(ty[s], v[s].str, ty[c], v[c].str)
<1>1. ty[c] = "UNKNOWN" /\ v[c].str = c /\ c \notin DOMAIN Number["UNKNOWN"] /\ c \in Str
  BY DEF Constants, Legal
<1>2. expr_parse_string(ty[c], v[c].str).kind = "string"
  BY <1>1, StringsAssumption DEF expr_parse_string
<1>3. d = Rank[v[s].str] - Rank[c]
  BY <1>1, <1>2, StringDifference
<1>4. v[s].str \in Str
  BY DEF Legal
<1>5. (d = 0) <=> (v[s].str = c)
  BY <1>1, <1>3, <1>4, StringsAssumption
<1>6. /\ Holds("EQUAL", d) <=> v[s].str = c
      /\ Holds("UNEQUAL", d) <=> v[s].str # c
  BY <1>5 DEF Holds
<1> QED
  BY <1>6, CompValue DEF Relations, Equalities

\* A="c" && A!="d" is no where c and d are one, and A="c" otherwise.
LEMMA TestAndOther ==
    ASSUME NEW ty, NEW v, Legal(ty, v), NEW consts, Constants(consts, ty, v),
           NEW s \in DOMAIN ty, NEW c \in consts, NEW d \in consts
    PROVE  LET is == OperandValue(CompExpr("EQUAL", s, c), ty, v)
               isnt == OperandValue(CompExpr("UNEQUAL", s, d), ty, v)
           IN /\ EXPR_AND(is, isnt) = IF c = d THEN no ELSE is
              /\ EXPR_AND(isnt, is) = IF c = d THEN no ELSE is
  BY ConstantTest DEF EXPR_AND, no, yes

\* expr_join_and: the operand that replaces two is worth the lesser of them.
THEOREM JoinAndRuleSound ==
    ASSUME NEW ty, NEW v, Legal(ty, v), NEW consts, Constants(consts, ty, v),
           NEW e1 \in Operands(ty), NEW e2 \in Operands(ty),
           JoinAndRule(e1, e2, ty, consts) # NULL
    PROVE  OperandValue(JoinAndRule(e1, e2, ty, consts), ty, v) =
               EXPR_AND(OperandValue(e1, ty, v), OperandValue(e2, ty, v))
<1> DEFINE s == e1.sym
           a == OperandValue(e1, ty, v)
           b == OperandValue(e2, ty, v)
           OneEach == /\ ty[s] = "TRISTATE" /\ {e1.type, e2.type} = Equalities
                      /\ {e1.with, e2.with} \subseteq consts
           Neither == /\ ty[s] = "TRISTATE" /\ e1.type = "UNEQUAL" /\ e2.type = "UNEQUAL"
                      /\ TwoTristates(e1, e2)
<1>1. /\ e1.type \in {"SYMBOL"} \cup Equalities /\ e2.type \in {"SYMBOL"} \cup Equalities
      /\ e2.sym = s /\ ty[s] \in {"BOOLEAN", "TRISTATE"}
      /\ s \in DOMAIN ty
  <2>1. /\ {e1.type, e2.type} \cap ({"SYMBOL"} \cup Equalities) = {e1.type, e2.type}
        /\ e2.sym = s /\ ty[s] \in {"BOOLEAN", "TRISTATE"}
    BY DEF JoinAndRule
  <2> QED
    BY <2>1, OperandShape
<1>2. /\ e1.type = "SYMBOL" => e1 = SymbolExpr(s) /\ a = v[s].tri
      /\ e2.type = "SYMBOL" => e2 = SymbolExpr(s) /\ b = v[s].tri
      /\ e1.type # "SYMBOL" => e1 = CompExpr(e1.type, s, e1.with)
      /\ e2.type # "SYMBOL" => e2 = CompExpr(e2.type, s, e2.with)
  BY <1>1, OperandShape, SymbolValue
<1>3. a \in {no, mod, yes} /\ b \in {no, mod, yes}
  BY OperandTri
<1>4. CASE e1.type = "SYMBOL" /\ e2.type # "SYMBOL"
  <2>1. JoinAndRule(e1, e2, ty, consts) = JoinTestRule(s, e2)
    BY <1>1, <1>4 DEF JoinAndRule, Equalities
  <2> QED
    BY <1>1, <1>2, <1>4, <2>1, JoinTestSound
<1>5. CASE e2.type = "SYMBOL" /\ e1.type # "SYMBOL"
  <2>1. JoinAndRule(e1, e2, ty, consts) = JoinTestRule(s, e1)
    BY <1>1, <1>5 DEF JoinAndRule, Equalities
  <2>2. OperandValue(JoinTestRule(s, e1), ty, v) = EXPR_AND(b, a)
    BY <1>1, <1>2, <1>5, <2>1, JoinTestSound
  <2> QED
    BY <1>3, <2>1, <2>2 DEF EXPR_AND, no, mod, yes
<1>6. CASE OneEach
  <2>1. CASE e1.type = "EQUAL" /\ e2.type = "UNEQUAL"
    <3>1. JoinAndRule(e1, e2, ty, consts) = IF e1.with = e2.with THEN SymbolExpr("n") ELSE e1
      BY <1>1, <1>6, <2>1 DEF JoinAndRule, Equalities
    <3>2. EXPR_AND(a, b) = IF e1.with = e2.with THEN no ELSE a
      BY <1>1, <1>2, <1>6, <2>1, TestAndOther
    <3> QED
      BY <3>1, <3>2, SymbolValue, TristateValues
  <2>2. CASE e1.type = "UNEQUAL" /\ e2.type = "EQUAL"
    <3>1. JoinAndRule(e1, e2, ty, consts) = IF e1.with = e2.with THEN SymbolExpr("n") ELSE e2
      BY <1>1, <1>6, <2>2 DEF JoinAndRule, Equalities
    <3>2. EXPR_AND(a, b) = IF e1.with = e2.with THEN no ELSE b
      BY <1>1, <1>2, <1>6, <2>2, TestAndOther
    <3> QED
      BY <3>1, <3>2, SymbolValue, TristateValues
  <2> QED
    BY <1>6, <2>1, <2>2 DEF Equalities
<1>7. CASE Neither
  <2>1. JoinAndRule(e1, e2, ty, consts) = CompExpr("EQUAL", s, Third(e1.with, e2.with))
    BY <1>1, <1>7 DEF JoinAndRule, Equalities
  <2> QED
    BY <1>1, <1>2, <1>7, <2>1, NeitherTest DEF TwoTristates
<1> QED
  BY <1>1, <1>4, <1>5, <1>6, <1>7 DEF JoinAndRule

\* expr_trans_bool: A!="n" is A where no tristate is m, as in every Buildroot tree.
THEOREM TransBoolRuleSound ==
    ASSUME NEW ty, NEW v, Legal(ty, v), NEW e \in Operands(ty),
           \A s \in DOMAIN ty : ty[s] = "TRISTATE" => v[s].tri # mod
    PROVE  OperandValue(TransBoolRule(e, ty), ty, v) = OperandValue(e, ty, v)
<1>1. CASE e.type = "UNEQUAL" /\ ty[e.sym] = "TRISTATE" /\ e.with = "n"
  <2>1. e = CompExpr("UNEQUAL", e.sym, "n") /\ e.sym \in DOMAIN ty
    BY <1>1, OperandShape
  <2>2. TransBoolRule(e, ty) = SymbolExpr(e.sym)
    BY <1>1 DEF TransBoolRule
  <2>3. "n" \in Tristates /\ v[e.sym].str \in {"n", "y"}
    BY <1>1, <2>1, TristateString DEF Tristates
  <2> QED
    BY <1>1, <2>1, <2>2, <2>3, SymbolValue, TristateTest, TristateString
<1>2. CASE ~(e.type = "UNEQUAL" /\ ty[e.sym] = "TRISTATE" /\ e.with = "n")
  BY <1>2 DEF TransBoolRule
<1> QED
  BY <1>1, <1>2

(***************************************************************************)
(* Expressions, and recursion over them.                                   *)
(***************************************************************************)
LEMMA Induction ==
    ASSUME NEW N \in Nat, NEW S, 0 \in S, \A n \in 0..N : n \in S /\ n < N => n + 1 \in S
    PROVE  0..N \subseteq S
<1> SUFFICES ASSUME (0..N) \ S # {} PROVE FALSE
  OBVIOUS
<1> DEFINE R == OpToRel(<, Nat)
           T == (0..N) \ S
<1>1. \A n, m \in Nat : n < m => <<n, m>> \in R
  BY Zenon DEF OpToRel
<1>2. IsWellFoundedOn(R, Nat)
  BY NatLessThanWellFounded, Zenon
<1>3. T \subseteq Nat /\ T # {}
  OBVIOUS
<1> HIDE DEF R, T
<1>4. PICK n \in T : \A m \in T : ~ (<<m, n>> \in R)
  BY <1>2, <1>3, WFMin, Zenon
<1>5. \A m \in T : ~(m < n)
  BY <1>1, <1>3, <1>4, Zenon
<1>6. n \in 0..N /\ n \notin S /\ n # 0
  BY <1>4 DEF T
<1>7. n - 1 \in 0..N /\ n - 1 < N /\ (n - 1) + 1 = n
  BY <1>6
<1>8. n - 1 \notin S
  BY <1>6, <1>7
<1>9. n - 1 \in T
  BY <1>7, <1>8 DEF T
<1> QED BY <1>5, <1>6, <1>9

LEMMA LayerDef ==
    /\ Layer[0] = Atoms
    /\ \A n \in 0..MaxDepth : n # 0 => Layer[n] = Atoms \cup Composed(Layer[n - 1])
<1> DEFINE Body(g, n) == IF n = 0 THEN Atoms ELSE Atoms \cup Composed(g[n - 1])
           Is(g, m) == g = [n \in 0..m |-> Body(g, n)]
           S == {m \in 0..MaxDepth : \E g : Is(g, m)}
<1>1. 0 \in S
  <2>1. Is([n \in 0..0 |-> Atoms], 0)
    OBVIOUS
  <2>2. 0 \in 0..MaxDepth
    BY DepthAssumption
  <2> QED BY <2>1, <2>2
<1>2. ASSUME NEW m \in 0..MaxDepth, m \in S, m < MaxDepth PROVE m + 1 \in S
  <2>1. PICK g : Is(g, m)
    BY <1>2
  <2> DEFINE h == [n \in 0..m + 1 |-> Body(g, n)]
  <2>2. ASSUME NEW n \in 0..m + 1 PROVE Body(h, n) = Body(g, n)
    <3>1. CASE n = 0
      BY <3>1
    <3>2. CASE n # 0
      <4>1. n - 1 \in 0..m /\ n - 1 \in 0..m + 1
        BY <3>2
      <4>2. h[n - 1] = g[n - 1]
        BY <2>1, <4>1
      <4> QED BY <3>2, <4>2
    <3> QED BY <3>1, <3>2
  <2>3. Is(h, m + 1)
    BY <2>2
  <2>4. m + 1 \in 0..MaxDepth
    BY <1>2, DepthAssumption
  <2> QED BY <2>3, <2>4
<1>3. MaxDepth \in S
  <2> HIDE DEF S
  <2>1. 0..MaxDepth \subseteq S
    BY <1>1, <1>2, DepthAssumption, Induction
  <2> QED BY <2>1, DepthAssumption
<1>4. Layer = [n \in 0..MaxDepth |-> IF n = 0 THEN Atoms ELSE Atoms \cup Composed(Layer[n - 1])]
  <2>1. PICK g : g = [n \in 0..MaxDepth |-> IF n = 0 THEN Atoms ELSE Atoms \cup Composed(g[n - 1])]
    BY <1>3
  <2> QED BY <2>1 DEF Layer
<1>5. 0 \in 0..MaxDepth
  BY DepthAssumption
<1> QED BY <1>4, <1>5

\* What an expression is.
LEMMA AtomShape ==
    ASSUME NEW e \in Atoms
    PROVE  /\ e.type \in {"NULL", "SYMBOL"} \cup Relations
           /\ e.type = "NULL" => e = NULL
           /\ e.type = "SYMBOL" => e.sym \in Names /\ e = SymbolExpr(e.sym)
           /\ e.type \in Relations => /\ e.sym \in Names /\ e.with \in Names
                                      /\ e = CompExpr(e.type, e.sym, e.with)
<1>1. CASE e = NULL
  BY <1>1 DEF NULL, Relations, Equalities
<1>2. CASE e \in [type : {"SYMBOL"}, sym : Names]
  BY <1>2 DEF SymbolExpr, Relations, Equalities
<1>3. CASE e \in [type : Relations, sym : Names, with : Names]
  BY <1>3 DEF CompExpr, Relations, Equalities
<1> QED BY <1>1, <1>2, <1>3 DEF Atoms

LEMMA AtomsAre ==
    /\ NULL \in Atoms
    /\ \A s \in Names : SymbolExpr(s) \in Atoms
    /\ \A t \in Relations, s1, s2 \in Names : CompExpr(t, s1, s2) \in Atoms
  BY DEF Atoms, SymbolExpr, CompExpr

LEMMA ComposedShape ==
    ASSUME NEW E, NEW e \in Composed(E)
    PROVE  \/ e.type = "NOT" /\ e.arg \in E /\ e = NotExpr(e.arg)
           \/ /\ e.type \in Connectives /\ e.left \in E /\ e.right \in E
              /\ e = TwoExpr(e.type, e.left, e.right)
<1>1. CASE e \in [type : {"NOT"}, arg : E]
  BY <1>1 DEF NotExpr
<1>2. CASE e \in [type : Connectives, left : E, right : E]
  BY <1>2 DEF TwoExpr
<1> QED BY <1>1, <1>2 DEF Composed

LEMMA ComposedAre ==
    ASSUME NEW E, NEW a \in E, NEW b \in E, NEW t \in Connectives
    PROVE  NotExpr(a) \in Composed(E) /\ TwoExpr(t, a, b) \in Composed(E)
  BY DEF Composed, NotExpr, TwoExpr

\* The parts of an expression lie a layer deeper, and a layer has the ones above it.
LEMMA LayerShape ==
    ASSUME NEW n \in 0..MaxDepth, NEW e \in Layer[n]
    PROVE  \/ e \in Atoms
           \/ /\ n - 1 \in 0..MaxDepth
              /\ e.type = "NOT" /\ e.arg \in Layer[n - 1] /\ e = NotExpr(e.arg)
           \/ /\ n - 1 \in 0..MaxDepth
              /\ e.type \in Connectives /\ e.left \in Layer[n - 1] /\ e.right \in Layer[n - 1]
              /\ e = TwoExpr(e.type, e.left, e.right)
<1>1. CASE n = 0
  BY <1>1, LayerDef
<1>2. CASE n # 0
  <2>1. n - 1 \in 0..MaxDepth
    BY <1>2, DepthAssumption
  <2>2. e \in Atoms \/ e \in Composed(Layer[n - 1])
    BY <1>2, LayerDef
  <2> QED BY <2>1, <2>2, ComposedShape
<1> QED BY <1>1, <1>2

LEMMA LayerAre ==
    ASSUME NEW n \in 0..MaxDepth
    PROVE  /\ Atoms \subseteq Layer[n]
           /\ n < MaxDepth => /\ n + 1 \in 0..MaxDepth
                              /\ Layer[n] \subseteq Layer[n + 1]
                              /\ \A a, b \in Layer[n], t \in Connectives :
                                    NotExpr(a) \in Layer[n + 1] /\ TwoExpr(t, a, b) \in Layer[n + 1]
<1> DEFINE S == {m \in 0..MaxDepth : Atoms \subseteq Layer[m] /\
                                     (m < MaxDepth => Layer[m] \subseteq Layer[m + 1])}
<1>1. ASSUME NEW m \in 0..MaxDepth, m < MaxDepth
      PROVE  m + 1 \in 0..MaxDepth /\ Layer[m + 1] = Atoms \cup Composed(Layer[m])
  <2>1. m + 1 \in 0..MaxDepth /\ m + 1 # 0 /\ (m + 1) - 1 = m
    BY <1>1, DepthAssumption
  <2> QED BY <2>1, LayerDef
<1>2. 0 \in S
  <2>1. 0 \in 0..MaxDepth
    BY DepthAssumption
  <2>2. 0 < MaxDepth => Layer[0 + 1] = Atoms \cup Composed(Layer[0])
    BY <1>1, <2>1
  <2> QED BY <2>1, <2>2, LayerDef
<1>3. ASSUME NEW m \in 0..MaxDepth, m \in S, m < MaxDepth PROVE m + 1 \in S
  <2>1. m + 1 \in 0..MaxDepth /\ Layer[m + 1] = Atoms \cup Composed(Layer[m])
    BY <1>1, <1>3
  <2>2. Layer[m] \subseteq Layer[m + 1]
    BY <1>3
  <2>3. ASSUME m + 1 < MaxDepth PROVE Layer[m + 1] \subseteq Layer[(m + 1) + 1]
    <3>1. Layer[(m + 1) + 1] = Atoms \cup Composed(Layer[m + 1])
      BY <1>1, <2>1, <2>3
    <3>2. Composed(Layer[m]) \subseteq Composed(Layer[m + 1])
      BY <2>2 DEF Composed
    <3> QED BY <2>1, <3>1, <3>2
  <2> QED BY <2>1, <2>3
<1>4. n \in S
  <2> HIDE DEF S
  <2>1. 0..MaxDepth \subseteq S
    BY <1>2, <1>3, DepthAssumption, Induction
  <2> QED BY <2>1
<1> QED BY <1>1, <1>4, ComposedAre

LEMMA LayersGrow ==
    ASSUME NEW n \in 0..MaxDepth, NEW m \in 0..n
    PROVE  Layer[m] \subseteq Layer[n]
<1> DEFINE S == {k \in 0..MaxDepth : m <= k => Layer[m] \subseteq Layer[k]}
<1>1. 0 \in S
  BY DepthAssumption
<1>2. ASSUME NEW k \in 0..MaxDepth, k \in S, k < MaxDepth PROVE k + 1 \in S
  <2>1. k + 1 \in 0..MaxDepth /\ Layer[k] \subseteq Layer[k + 1]
    BY <1>2, LayerAre
  <2>2. CASE m <= k
    BY <1>2, <2>1, <2>2
  <2>3. CASE ~(m <= k)
    <3>1. m <= k + 1 => m = k + 1
      BY <2>3
    <3> QED BY <2>1, <3>1
  <2> QED BY <2>2, <2>3
<1>3. n \in S
  <2> HIDE DEF S
  <2>1. 0..MaxDepth \subseteq S
    BY <1>1, <1>2, DepthAssumption, Induction
  <2> QED BY <2>1
<1> QED BY <1>3

LEMMA ExprShape ==
    ASSUME NEW e \in Exprs
    PROVE  \/ e \in Atoms
           \/ e.type = "NOT" /\ e.arg \in Exprs /\ e = NotExpr(e.arg)
           \/ /\ e.type \in Connectives /\ e.left \in Exprs /\ e.right \in Exprs
              /\ e = TwoExpr(e.type, e.left, e.right)
<1>1. MaxDepth \in 0..MaxDepth
  BY DepthAssumption
<1>2. MaxDepth - 1 \in 0..MaxDepth => Layer[MaxDepth - 1] \subseteq Exprs
  BY <1>1, DepthAssumption, LayersGrow DEF Exprs
<1> QED BY <1>1, <1>2, LayerShape DEF Exprs

\* What holds of the atoms, and of what is composed of expressions of which it holds, holds
\* of every expression.
LEMMA ExprInduction ==
    ASSUME NEW S, Atoms \subseteq S, Exprs \cap Composed(S \cap Exprs) \subseteq S
    PROVE  Exprs \subseteq S
<1> DEFINE T == {n \in 0..MaxDepth : Layer[n] \subseteq S}
<1>0. \A n \in 0..MaxDepth : Layer[n] \subseteq Exprs
  BY DepthAssumption, LayersGrow DEF Exprs
<1>1. 0 \in T
  BY DepthAssumption, LayerDef
<1>2. ASSUME NEW n \in 0..MaxDepth, n \in T, n < MaxDepth PROVE n + 1 \in T
  <2>1. n + 1 \in 0..MaxDepth /\ n + 1 # 0 /\ (n + 1) - 1 = n
    BY <1>2, DepthAssumption
  <2>2. Layer[n + 1] = Atoms \cup Composed(Layer[n])
    BY <2>1, LayerDef
  <2>3. Composed(Layer[n]) \subseteq Composed(S \cap Exprs)
    <3>1. Layer[n] \subseteq S \cap Exprs
      BY <1>0, <1>2
    <3> QED BY <3>1 DEF Composed
  <2>4. Layer[n + 1] \subseteq Exprs
    BY <1>0, <2>1
  <2> QED BY <2>1, <2>2, <2>3, <2>4
<1>3. MaxDepth \in T
  <2> HIDE DEF T
  <2>1. 0..MaxDepth \subseteq T
    BY <1>1, <1>2, DepthAssumption, Induction
  <2> QED BY <2>1, DepthAssumption
<1> QED BY <1>3 DEF Exprs

(***************************************************************************)
(* The recursive functions have the values of their equations.  The proofs *)
(* are alike: what the body makes of an expression follows from what the   *)
(* function is at its parts, so that there is a function for every layer.  *)
(***************************************************************************)
Below(n) == IF n = 0 THEN {} ELSE Layer[n - 1]

PartsIn(x, E) == \/ x \in Atoms
                 \/ x.type = "NOT" /\ x.arg \in E
                 \/ x.type \in Connectives /\ x.left \in E /\ x.right \in E

LEMMA BelowShape ==
    /\ \A n \in 0..MaxDepth : /\ Below(n) \subseteq Below(n + 1)
                              /\ \A x \in Below(n + 1) : PartsIn(x, Below(n))
    /\ Below(MaxDepth + 1) = Exprs
<1>1. ASSUME NEW n \in 0..MaxDepth
      PROVE  Below(n) \subseteq Below(n + 1) /\ \A x \in Below(n + 1) : PartsIn(x, Below(n))
  <2>1. Below(n + 1) = Layer[n]
    BY DEF Below
  <2>2. CASE n = 0
    BY <2>1, <2>2, LayerDef DEF Below, PartsIn
  <2>3. CASE n # 0
    <3>1. n - 1 \in 0..MaxDepth /\ n - 1 \in 0..n /\ Below(n) = Layer[n - 1]
      BY <2>3, DepthAssumption DEF Below
    <3> QED BY <2>1, <3>1, LayersGrow, LayerShape DEF PartsIn
  <2> QED BY <2>2, <2>3
<1>2. Below(MaxDepth + 1) = Exprs
  BY DepthAssumption DEF Below, Exprs
<1> QED BY <1>1, <1>2

LEMMA LayerInduction ==
    ASSUME NEW S, 0 \in S, \A n \in 0..MaxDepth : n \in S => n + 1 \in S
    PROVE  MaxDepth + 1 \in S
<1>1. 0..MaxDepth + 1 \subseteq S
  <2>1. \A n \in 0..MaxDepth + 1 : n < MaxDepth + 1 => n \in 0..MaxDepth
    BY DepthAssumption
  <2> QED BY <2>1, DepthAssumption, Induction
<1> QED BY <1>1, DepthAssumption

LEMMA ExprParts == \A e \in Exprs : PartsIn(e, Exprs)
  BY ExprShape DEF PartsIn

LEMMA ValueDef ==
    ASSUME NEW ty, NEW v, NEW e \in Exprs
    PROVE  Value(e, ty, v) =
               CASE e.type = "AND" -> EXPR_AND(Value(e.left, ty, v), Value(e.right, ty, v))
                 [] e.type = "OR"  -> EXPR_OR(Value(e.left, ty, v), Value(e.right, ty, v))
                 [] e.type = "NOT" -> EXPR_NOT(Value(e.arg, ty, v))
                 [] OTHER -> OperandValue(e, ty, v)
<1> DEFINE Body(f, x) ==
               CASE x.type = "AND" -> EXPR_AND(f[x.left], f[x.right])
                 [] x.type = "OR"  -> EXPR_OR(f[x.left], f[x.right])
                 [] x.type = "NOT" -> EXPR_NOT(f[x.arg])
                 [] OTHER -> OperandValue(x, ty, v)
           S == {n \in 0..MaxDepth + 1 : \E f : f = [x \in Below(n) |-> Body(f, x)]}
<1>1. ASSUME NEW f, NEW g, NEW E, NEW x, PartsIn(x, E), \A y \in E : f[y] = g[y]
      PROVE  Body(f, x) = Body(g, x)
  BY <1>1, AtomShape DEF PartsIn, Connectives, Relations, Equalities
<1> HIDE DEF Body
<1>2. ASSUME NEW n \in 0..MaxDepth, n \in S PROVE n + 1 \in S
  <2>1. PICK f : f = [x \in Below(n) |-> Body(f, x)]
    BY <1>2
  <2> DEFINE g == [x \in Below(n + 1) |-> Body(f, x)]
  <2>2. \A y \in Below(n) : g[y] = f[y]
    BY <2>1, BelowShape
  <2>3. \A x \in Below(n + 1) : Body(g, x) = Body(f, x)
    BY <1>1, <2>2, BelowShape
  <2>4. g = [x \in Below(n + 1) |-> Body(g, x)]
    BY <2>3
  <2>5. n + 1 \in 0..MaxDepth + 1
    BY DepthAssumption
  <2> QED BY <2>4, <2>5
<1>3. 0 \in S
  <2>1. \E f : f = [x \in Below(0) |-> Body(f, x)]
    BY DEF Below
  <2> QED BY <2>1, DepthAssumption
<1>4. \E f : f = [x \in Exprs |-> Body(f, x)]
  <2> HIDE DEF S
  <2>1. MaxDepth + 1 \in S
    BY <1>2, <1>3, LayerInduction
  <2> QED BY <2>1, BelowShape DEF S
<1> DEFINE value == CHOOSE f : f = [x \in Exprs |-> Body(f, x)]
<1>5. value = [x \in Exprs |-> Body(value, x)]
  BY <1>4
<1>6. \A x : Value(x, ty, v) = value[x]
  BY DEF Value, Body
<1> HIDE DEF value
<1>7. value[e] = Body(value, e)
  BY <1>5
<1> QED BY <1>6, <1>7 DEF Body

LEMMA SymbolsOfDef ==
    ASSUME NEW e \in Exprs
    PROVE  /\ e.type \in Connectives => SymbolsOf(e) = SymbolsOf(e.left) \cup SymbolsOf(e.right)
           /\ e.type = "NOT" => SymbolsOf(e) = SymbolsOf(e.arg)
           /\ e.type = "SYMBOL" => SymbolsOf(e) = {e.sym}
           /\ e.type \in Relations => SymbolsOf(e) = {e.sym, e.with}
           /\ e.type = "NULL" => SymbolsOf(e) = {}
<1> DEFINE Body(f, x) ==
               CASE x.type \in Connectives -> f[x.left] \cup f[x.right]
                 [] x.type = "NOT" -> f[x.arg]
                 [] x.type = "SYMBOL" -> {x.sym}
                 [] x.type \in Relations -> {x.sym, x.with}
                 [] OTHER -> {}
           S == {n \in 0..MaxDepth + 1 : \E f : f = [x \in Below(n) |-> Body(f, x)]}
<1>1. ASSUME NEW f, NEW g, NEW E, NEW x, PartsIn(x, E), \A y \in E : f[y] = g[y]
      PROVE  Body(f, x) = Body(g, x)
  BY <1>1, AtomShape DEF PartsIn, Connectives, Relations, Equalities
<1> HIDE DEF Body
<1>2. ASSUME NEW n \in 0..MaxDepth, n \in S PROVE n + 1 \in S
  <2>1. PICK f : f = [x \in Below(n) |-> Body(f, x)]
    BY <1>2
  <2> DEFINE g == [x \in Below(n + 1) |-> Body(f, x)]
  <2>2. \A y \in Below(n) : g[y] = f[y]
    BY <2>1, BelowShape
  <2>3. \A x \in Below(n + 1) : Body(g, x) = Body(f, x)
    BY <1>1, <2>2, BelowShape
  <2>4. g = [x \in Below(n + 1) |-> Body(g, x)]
    BY <2>3
  <2>5. n + 1 \in 0..MaxDepth + 1
    BY DepthAssumption
  <2> QED BY <2>4, <2>5
<1>3. 0 \in S
  <2>1. \E f : f = [x \in Below(0) |-> Body(f, x)]
    BY DEF Below
  <2> QED BY <2>1, DepthAssumption
<1>4. \E f : f = [x \in Exprs |-> Body(f, x)]
  <2> HIDE DEF S
  <2>1. MaxDepth + 1 \in S
    BY <1>2, <1>3, LayerInduction
  <2> QED BY <2>1, BelowShape DEF S
<1> DEFINE symbols == CHOOSE f : f = [x \in Exprs |-> Body(f, x)]
<1>5. symbols = [x \in Exprs |-> Body(symbols, x)]
  BY <1>4
<1>6. \A x : SymbolsOf(x) = symbols[x]
  BY DEF SymbolsOf, Body
<1> HIDE DEF symbols
<1>7. symbols[e] = Body(symbols, e)
  BY <1>5
<1> QED BY <1>6, <1>7 DEF Body, Connectives, Relations, Equalities

LEMMA DependsDef ==
    ASSUME NEW s, NEW e \in Exprs
    PROVE  /\ e.type = "AND" =>
                 (expr_depends_symbol(e, s) <=>
                     expr_depends_symbol(e.left, s) \/ expr_depends_symbol(e.right, s))
           /\ e.type = "SYMBOL" => (expr_depends_symbol(e, s) <=> e.sym = s)
           /\ e.type = "EQUAL" => (expr_depends_symbol(e, s) <=> e.sym = s /\ e.with \in {"y", "m"})
           /\ e.type = "UNEQUAL" => (expr_depends_symbol(e, s) <=> e.sym = s /\ e.with = "n")
           /\ e.type \notin {"AND", "SYMBOL", "EQUAL", "UNEQUAL"} => ~expr_depends_symbol(e, s)
<1> DEFINE Body(f, x) ==
               CASE x.type = "AND" -> f[x.left] \/ f[x.right]
                 [] x.type = "SYMBOL" -> x.sym = s
                 [] x.type = "EQUAL" -> x.sym = s /\ x.with \in {"y", "m"}
                 [] x.type = "UNEQUAL" -> x.sym = s /\ x.with = "n"
                 [] OTHER -> FALSE
           S == {n \in 0..MaxDepth + 1 : \E f : f = [x \in Below(n) |-> Body(f, x)]}
<1>1. ASSUME NEW f, NEW g, NEW E, NEW x, PartsIn(x, E), \A y \in E : f[y] = g[y]
      PROVE  Body(f, x) = Body(g, x)
  BY <1>1, AtomShape DEF PartsIn, Connectives, Relations, Equalities
<1> HIDE DEF Body
<1>2. ASSUME NEW n \in 0..MaxDepth, n \in S PROVE n + 1 \in S
  <2>1. PICK f : f = [x \in Below(n) |-> Body(f, x)]
    BY <1>2
  <2> DEFINE g == [x \in Below(n + 1) |-> Body(f, x)]
  <2>2. \A y \in Below(n) : g[y] = f[y]
    BY <2>1, BelowShape
  <2>3. \A x \in Below(n + 1) : Body(g, x) = Body(f, x)
    BY <1>1, <2>2, BelowShape
  <2>4. g = [x \in Below(n + 1) |-> Body(g, x)]
    BY <2>3
  <2>5. n + 1 \in 0..MaxDepth + 1
    BY DepthAssumption
  <2> QED BY <2>4, <2>5
<1>3. 0 \in S
  <2>1. \E f : f = [x \in Below(0) |-> Body(f, x)]
    BY DEF Below
  <2> QED BY <2>1, DepthAssumption
<1>4. \E f : f = [x \in Exprs |-> Body(f, x)]
  <2> HIDE DEF S
  <2>1. MaxDepth + 1 \in S
    BY <1>2, <1>3, LayerInduction
  <2> QED BY <2>1, BelowShape DEF S
<1> DEFINE depends == CHOOSE f : f = [x \in Exprs |-> Body(f, x)]
<1>5. depends = [x \in Exprs |-> Body(depends, x)]
  BY <1>4
<1>6. \A x : expr_depends_symbol(x, s) = depends[x]
  BY DEF expr_depends_symbol, Body
<1> HIDE DEF depends
<1>7. depends[e] = Body(depends, e)
  BY <1>5
<1> QED BY <1>6, <1>7 DEF Body

LEMMA RewriteMDef ==
    ASSUME NEW modules, NEW e \in Exprs
    PROVE  /\ e.type \in Connectives =>
                 rewrite_m(e, modules) =
                     TwoExpr(e.type, rewrite_m(e.left, modules), rewrite_m(e.right, modules))
           /\ e.type = "NOT" => rewrite_m(e, modules) = NotExpr(rewrite_m(e.arg, modules))
           /\ IsSymbol(e, "m") => rewrite_m(e, modules) = expr_alloc_and(e, SymbolExpr(modules))
           /\ e.type \notin Connectives \cup {"NOT"} /\ ~IsSymbol(e, "m") => rewrite_m(e, modules) = e
<1> DEFINE Body(f, x) ==
               CASE x.type \in Connectives -> TwoExpr(x.type, f[x.left], f[x.right])
                 [] x.type = "NOT" -> NotExpr(f[x.arg])
                 [] IsSymbol(x, "m") -> expr_alloc_and(x, SymbolExpr(modules))
                 [] OTHER -> x
           S == {n \in 0..MaxDepth + 1 : \E f : f = [x \in Below(n) |-> Body(f, x)]}
<1>1. ASSUME NEW f, NEW g, NEW E, NEW x, PartsIn(x, E), \A y \in E : f[y] = g[y]
      PROVE  Body(f, x) = Body(g, x)
  BY <1>1, AtomShape DEF PartsIn, Connectives, Relations, Equalities
<1> HIDE DEF Body
<1>2. ASSUME NEW n \in 0..MaxDepth, n \in S PROVE n + 1 \in S
  <2>1. PICK f : f = [x \in Below(n) |-> Body(f, x)]
    BY <1>2
  <2> DEFINE g == [x \in Below(n + 1) |-> Body(f, x)]
  <2>2. \A y \in Below(n) : g[y] = f[y]
    BY <2>1, BelowShape
  <2>3. \A x \in Below(n + 1) : Body(g, x) = Body(f, x)
    BY <1>1, <2>2, BelowShape
  <2>4. g = [x \in Below(n + 1) |-> Body(g, x)]
    BY <2>3
  <2>5. n + 1 \in 0..MaxDepth + 1
    BY DepthAssumption
  <2> QED BY <2>4, <2>5
<1>3. 0 \in S
  <2>1. \E f : f = [x \in Below(0) |-> Body(f, x)]
    BY DEF Below
  <2> QED BY <2>1, DepthAssumption
<1>4. \E f : f = [x \in Exprs |-> Body(f, x)]
  <2> HIDE DEF S
  <2>1. MaxDepth + 1 \in S
    BY <1>2, <1>3, LayerInduction
  <2> QED BY <2>1, BelowShape DEF S
<1> DEFINE rewritten == CHOOSE f : f = [x \in Exprs |-> Body(f, x)]
<1>5. rewritten = [x \in Exprs |-> Body(rewritten, x)]
  BY <1>4
<1>6. \A x : rewrite_m(x, modules) = rewritten[x]
  BY DEF rewrite_m, Body
<1> HIDE DEF rewritten
<1>7. rewritten[e] = Body(rewritten, e)
  BY <1>5
<1> QED BY <1>6, <1>7 DEF Body, Connectives, Relations, Equalities, IsSymbol

LEMMA EliminateYnDef ==
    ASSUME NEW e \in Exprs
    PROVE  expr_eliminate_yn(e) =
               IF e.type \in Connectives
               THEN YnRule(TwoExpr(e.type, expr_eliminate_yn(e.left), expr_eliminate_yn(e.right)))
               ELSE e
<1> DEFINE Body(f, x) ==
               IF x.type \in Connectives
               THEN YnRule(TwoExpr(x.type, f[x.left], f[x.right]))
               ELSE x
           S == {n \in 0..MaxDepth + 1 : \E f : f = [x \in Below(n) |-> Body(f, x)]}
<1>1. ASSUME NEW f, NEW g, NEW E, NEW x, PartsIn(x, E), \A y \in E : f[y] = g[y]
      PROVE  Body(f, x) = Body(g, x)
  BY <1>1, AtomShape DEF PartsIn, Connectives, Relations, Equalities
<1> HIDE DEF Body
<1>2. ASSUME NEW n \in 0..MaxDepth, n \in S PROVE n + 1 \in S
  <2>1. PICK f : f = [x \in Below(n) |-> Body(f, x)]
    BY <1>2
  <2> DEFINE g == [x \in Below(n + 1) |-> Body(f, x)]
  <2>2. \A y \in Below(n) : g[y] = f[y]
    BY <2>1, BelowShape
  <2>3. \A x \in Below(n + 1) : Body(g, x) = Body(f, x)
    BY <1>1, <2>2, BelowShape
  <2>4. g = [x \in Below(n + 1) |-> Body(g, x)]
    BY <2>3
  <2>5. n + 1 \in 0..MaxDepth + 1
    BY DepthAssumption
  <2> QED BY <2>4, <2>5
<1>3. 0 \in S
  <2>1. \E f : f = [x \in Below(0) |-> Body(f, x)]
    BY DEF Below
  <2> QED BY <2>1, DepthAssumption
<1>4. \E f : f = [x \in Exprs |-> Body(f, x)]
  <2> HIDE DEF S
  <2>1. MaxDepth + 1 \in S
    BY <1>2, <1>3, LayerInduction
  <2> QED BY <2>1, BelowShape DEF S
<1> DEFINE eliminated == CHOOSE f : f = [x \in Exprs |-> Body(f, x)]
<1>5. eliminated = [x \in Exprs |-> Body(eliminated, x)]
  BY <1>4
<1>6. \A x : expr_eliminate_yn(x) = eliminated[x]
  BY DEF expr_eliminate_yn, Body
<1> HIDE DEF eliminated
<1>7. eliminated[e] = Body(eliminated, e)
  BY <1>5
<1> QED BY <1>6, <1>7 DEF Body

LEMMA TransBoolDef ==
    ASSUME NEW ty, NEW e \in Exprs
    PROVE  /\ e.type \in Connectives =>
                 expr_trans_bool(e, ty) =
                     TwoExpr(e.type, expr_trans_bool(e.left, ty), expr_trans_bool(e.right, ty))
           /\ e.type = "NOT" => expr_trans_bool(e, ty) = NotExpr(expr_trans_bool(e.arg, ty))
           /\ e.type \notin Connectives \cup {"NOT"} =>
                 expr_trans_bool(e, ty) = TransBoolRule(e, ty)
<1> DEFINE Body(f, x) ==
               CASE x.type \in Connectives -> TwoExpr(x.type, f[x.left], f[x.right])
                 [] x.type = "NOT" -> NotExpr(f[x.arg])
                 [] OTHER -> TransBoolRule(x, ty)
           S == {n \in 0..MaxDepth + 1 : \E f : f = [x \in Below(n) |-> Body(f, x)]}
<1>1. ASSUME NEW f, NEW g, NEW E, NEW x, PartsIn(x, E), \A y \in E : f[y] = g[y]
      PROVE  Body(f, x) = Body(g, x)
  BY <1>1, AtomShape DEF PartsIn, Connectives, Relations, Equalities
<1> HIDE DEF Body
<1>2. ASSUME NEW n \in 0..MaxDepth, n \in S PROVE n + 1 \in S
  <2>1. PICK f : f = [x \in Below(n) |-> Body(f, x)]
    BY <1>2
  <2> DEFINE g == [x \in Below(n + 1) |-> Body(f, x)]
  <2>2. \A y \in Below(n) : g[y] = f[y]
    BY <2>1, BelowShape
  <2>3. \A x \in Below(n + 1) : Body(g, x) = Body(f, x)
    BY <1>1, <2>2, BelowShape
  <2>4. g = [x \in Below(n + 1) |-> Body(g, x)]
    BY <2>3
  <2>5. n + 1 \in 0..MaxDepth + 1
    BY DepthAssumption
  <2> QED BY <2>4, <2>5
<1>3. 0 \in S
  <2>1. \E f : f = [x \in Below(0) |-> Body(f, x)]
    BY DEF Below
  <2> QED BY <2>1, DepthAssumption
<1>4. \E f : f = [x \in Exprs |-> Body(f, x)]
  <2> HIDE DEF S
  <2>1. MaxDepth + 1 \in S
    BY <1>2, <1>3, LayerInduction
  <2> QED BY <2>1, BelowShape DEF S
<1> DEFINE transformed == CHOOSE f : f = [x \in Exprs |-> Body(f, x)]
<1>5. transformed = [x \in Exprs |-> Body(transformed, x)]
  BY <1>4
<1>6. \A x : expr_trans_bool(x, ty) = transformed[x]
  BY DEF expr_trans_bool, Body
<1> HIDE DEF transformed
<1>7. transformed[e] = Body(transformed, e)
  BY <1>5
<1> QED BY <1>6, <1>7 DEF Body, Connectives, Relations, Equalities

LEMMA NegatedDef ==
    ASSUME NEW e \in Exprs
    PROVE  /\ e.type \in Connectives =>
                 Negated(e) = TwoExpr(Dual(e.type), Negated(e.left), Negated(e.right))
           /\ e.type = "NOT" => Negated(e) = e.arg
           /\ e.type \notin Connectives \cup {"NOT"} => Negated(e) = NegationRule(e)
<1> DEFINE Body(f, x) ==
               CASE x.type \in Connectives -> TwoExpr(Dual(x.type), f[x.left], f[x.right])
                 [] x.type = "NOT" -> x.arg
                 [] OTHER -> NegationRule(x)
           S == {n \in 0..MaxDepth + 1 : \E f : f = [x \in Below(n) |-> Body(f, x)]}
<1>1. ASSUME NEW f, NEW g, NEW E, NEW x, PartsIn(x, E), \A y \in E : f[y] = g[y]
      PROVE  Body(f, x) = Body(g, x)
  BY <1>1, AtomShape DEF PartsIn, Connectives, Relations, Equalities
<1> HIDE DEF Body
<1>2. ASSUME NEW n \in 0..MaxDepth, n \in S PROVE n + 1 \in S
  <2>1. PICK f : f = [x \in Below(n) |-> Body(f, x)]
    BY <1>2
  <2> DEFINE g == [x \in Below(n + 1) |-> Body(f, x)]
  <2>2. \A y \in Below(n) : g[y] = f[y]
    BY <2>1, BelowShape
  <2>3. \A x \in Below(n + 1) : Body(g, x) = Body(f, x)
    BY <1>1, <2>2, BelowShape
  <2>4. g = [x \in Below(n + 1) |-> Body(g, x)]
    BY <2>3
  <2>5. n + 1 \in 0..MaxDepth + 1
    BY DepthAssumption
  <2> QED BY <2>4, <2>5
<1>3. 0 \in S
  <2>1. \E f : f = [x \in Below(0) |-> Body(f, x)]
    BY DEF Below
  <2> QED BY <2>1, DepthAssumption
<1>4. \E f : f = [x \in Exprs |-> Body(f, x)]
  <2> HIDE DEF S
  <2>1. MaxDepth + 1 \in S
    BY <1>2, <1>3, LayerInduction
  <2> QED BY <2>1, BelowShape DEF S
<1> DEFINE negated == CHOOSE f : f = [x \in Exprs |-> Body(f, x)]
<1>5. negated = [x \in Exprs |-> Body(negated, x)]
  BY <1>4
<1>6. \A x : Negated(x) = negated[x]
  BY DEF Negated, Body
<1> HIDE DEF negated
<1>7. negated[e] = Body(negated, e)
  BY <1>5
<1> QED BY <1>6, <1>7 DEF Body, Connectives, Relations, Equalities

LEMMA TransformDef ==
    ASSUME NEW ty, NEW e \in Exprs
    PROVE  /\ e.type \in Connectives =>
                 expr_transform(e, ty) =
                     TwoExpr(e.type, expr_transform(e.left, ty), expr_transform(e.right, ty))
           /\ e.type = "NOT" => expr_transform(e, ty) = Negated(expr_transform(e.arg, ty))
           /\ e.type \in Equalities => expr_transform(e, ty) = BoolTestRule(e, ty)
           /\ e.type \notin Connectives \cup Equalities \cup {"NOT"} => expr_transform(e, ty) = e
<1> DEFINE Body(f, x) ==
               CASE x.type \in Connectives -> TwoExpr(x.type, f[x.left], f[x.right])
                 [] x.type = "NOT" -> Negated(f[x.arg])
                 [] x.type \in Equalities -> BoolTestRule(x, ty)
                 [] OTHER -> x
           S == {n \in 0..MaxDepth + 1 : \E f : f = [x \in Below(n) |-> Body(f, x)]}
<1>1. ASSUME NEW f, NEW g, NEW E, NEW x, PartsIn(x, E), \A y \in E : f[y] = g[y]
      PROVE  Body(f, x) = Body(g, x)
  BY <1>1, AtomShape DEF PartsIn, Connectives, Relations, Equalities
<1> HIDE DEF Body
<1>2. ASSUME NEW n \in 0..MaxDepth, n \in S PROVE n + 1 \in S
  <2>1. PICK f : f = [x \in Below(n) |-> Body(f, x)]
    BY <1>2
  <2> DEFINE g == [x \in Below(n + 1) |-> Body(f, x)]
  <2>2. \A y \in Below(n) : g[y] = f[y]
    BY <2>1, BelowShape
  <2>3. \A x \in Below(n + 1) : Body(g, x) = Body(f, x)
    BY <1>1, <2>2, BelowShape
  <2>4. g = [x \in Below(n + 1) |-> Body(g, x)]
    BY <2>3
  <2>5. n + 1 \in 0..MaxDepth + 1
    BY DepthAssumption
  <2> QED BY <2>4, <2>5
<1>3. 0 \in S
  <2>1. \E f : f = [x \in Below(0) |-> Body(f, x)]
    BY DEF Below
  <2> QED BY <2>1, DepthAssumption
<1>4. \E f : f = [x \in Exprs |-> Body(f, x)]
  <2> HIDE DEF S
  <2>1. MaxDepth + 1 \in S
    BY <1>2, <1>3, LayerInduction
  <2> QED BY <2>1, BelowShape DEF S
<1> DEFINE transformed == CHOOSE f : f = [x \in Exprs |-> Body(f, x)]
<1>5. transformed = [x \in Exprs |-> Body(transformed, x)]
  BY <1>4
<1>6. \A x : expr_transform(x, ty) = transformed[x]
  BY DEF expr_transform, Body
<1> HIDE DEF transformed
<1>7. transformed[e] = Body(transformed, e)
  BY <1>5
<1> QED BY <1>6, <1>7 DEF Body, Connectives, Relations, Equalities

(***************************************************************************)
(* Values.                                                                 *)
(***************************************************************************)
Op(t, a, b) == IF t = "AND" THEN EXPR_AND(a, b) ELSE EXPR_OR(a, b)

Tri == {no, mod, yes}

LEMMA OpTri ==
    ASSUME NEW t \in Connectives, NEW a \in Tri, NEW b \in Tri
    PROVE  Op(t, a, b) \in Tri /\ EXPR_NOT(a) \in Tri
  BY DEF Op, Tri, Connectives, EXPR_AND, EXPR_OR, EXPR_NOT, no, mod, yes

LEMMA AtomValue ==
    ASSUME NEW ty, NEW v
    PROVE  /\ Value(NULL, ty, v) = yes /\ SymbolsOf(NULL) = {}
           /\ \A e \in Atoms : Value(e, ty, v) = OperandValue(e, ty, v)
           /\ \A e \in Atoms : e.type = "SYMBOL" => SymbolsOf(e) = {e.sym}
           /\ \A e \in Atoms : e.type \in Relations => SymbolsOf(e) = {e.sym, e.with}
<1>1. Atoms \subseteq Exprs
  BY DepthAssumption, LayerAre DEF Exprs
<1>2. ASSUME NEW e \in Atoms
      PROVE  /\ Value(e, ty, v) = OperandValue(e, ty, v)
             /\ e.type = "SYMBOL" => SymbolsOf(e) = {e.sym}
             /\ e.type \in Relations => SymbolsOf(e) = {e.sym, e.with}
  BY <1>1, AtomShape, ValueDef, SymbolsOfDef DEF Connectives, Relations, Equalities
<1>3. NULL \in Atoms /\ NULL.type = "NULL"
  BY DEF Atoms, NULL
<1>4. SymbolsOf(NULL) = {}
  BY <1>1, <1>3, SymbolsOfDef
<1>5. Value(NULL, ty, v) = yes
  <2>1. OperandValue(NULL, ty, v) = yes
    BY <1>3 DEF OperandValue, Relations, Equalities
  <2> QED BY <1>2, <1>3, <2>1
<1> QED BY <1>2, <1>4, <1>5

LEMMA NotValue ==
    ASSUME NEW ty, NEW v, NEW e, NotExpr(e) \in Exprs
    PROVE  /\ Value(NotExpr(e), ty, v) = EXPR_NOT(Value(e, ty, v))
           /\ SymbolsOf(NotExpr(e)) = SymbolsOf(e)
<1> DEFINE x == NotExpr(e)
<1>1. x.type = "NOT" /\ x.arg = e
  BY DEF NotExpr
<1> HIDE DEF x
<1>2. x \in Exprs
  BY DEF x
<1>3. Value(x, ty, v) = EXPR_NOT(Value(e, ty, v))
  BY <1>1, <1>2, ValueDef
<1>4. SymbolsOf(x) = SymbolsOf(e)
  BY <1>1, <1>2, SymbolsOfDef
<1> QED BY <1>3, <1>4 DEF x

LEMMA TwoValue ==
    ASSUME NEW ty, NEW v, NEW t \in Connectives, NEW a, NEW b, TwoExpr(t, a, b) \in Exprs
    PROVE  /\ Value(TwoExpr(t, a, b), ty, v) = Op(t, Value(a, ty, v), Value(b, ty, v))
           /\ SymbolsOf(TwoExpr(t, a, b)) = SymbolsOf(a) \cup SymbolsOf(b)
<1> DEFINE x == TwoExpr(t, a, b)
<1>1. x.type = t /\ x.left = a /\ x.right = b
  BY DEF TwoExpr
<1> HIDE DEF x
<1>2. x \in Exprs
  BY DEF x
<1>3. Value(x, ty, v) = Op(t, Value(a, ty, v), Value(b, ty, v))
  BY <1>1, <1>2, ValueDef DEF Connectives, Op
<1>4. SymbolsOf(x) = SymbolsOf(a) \cup SymbolsOf(b)
  BY <1>1, <1>2, SymbolsOfDef
<1> QED BY <1>3, <1>4 DEF x

\* The expressions over the symbols of a table.
Over(ty) == {e \in Exprs : SymbolsOf(e) \subseteq DOMAIN ty}

LEMMA OverShape ==
    ASSUME NEW ty, NEW e \in Over(ty)
    PROVE  \/ e = NULL
           \/ e \in Atoms /\ e \in Operands(ty)
           \/ e.type = "NOT" /\ e.arg \in Over(ty) /\ e = NotExpr(e.arg)
           \/ /\ e.type \in Connectives /\ e.left \in Over(ty) /\ e.right \in Over(ty)
              /\ e = TwoExpr(e.type, e.left, e.right)
<1>1. e \in Exprs /\ SymbolsOf(e) \subseteq DOMAIN ty
  BY DEF Over
<1>2. CASE e \in Atoms
  BY <1>1, <1>2, AtomShape, AtomValue DEF Operands
<1>3. CASE e.type = "NOT" /\ e.arg \in Exprs /\ e = NotExpr(e.arg)
  BY <1>1, <1>3, NotValue DEF Over
<1>4. CASE /\ e.type \in Connectives /\ e.left \in Exprs /\ e.right \in Exprs
           /\ e = TwoExpr(e.type, e.left, e.right)
  <2>1. SymbolsOf(e) = SymbolsOf(e.left) \cup SymbolsOf(e.right)
    BY <1>1, <1>4, SymbolsOfDef
  <2> QED BY <1>1, <1>4, <2>1 DEF Over
<1> QED BY <1>1, <1>2, <1>3, <1>4, ExprShape

LEMMA NullIs ==
    ASSUME NEW ty, NEW e \in Over(ty), e.type = "NULL"
    PROVE  e = NULL
  BY ExprShape, AtomShape DEF Over, Connectives

LEMMA OverInduction ==
    ASSUME NEW ty, NEW S, Over(ty) \cap Atoms \subseteq S,
           \A a \in S \cap Over(ty) : NotExpr(a) \in Over(ty) => NotExpr(a) \in S,
           \A a, b \in S \cap Over(ty), t \in Connectives :
               TwoExpr(t, a, b) \in Over(ty) => TwoExpr(t, a, b) \in S
    PROVE  Over(ty) \subseteq S
<1> DEFINE T == {e \in Exprs : e \in Over(ty) => e \in S}
<1>1. Exprs \subseteq T
  <2>1. Atoms \subseteq T
    BY DepthAssumption, LayerAre DEF Exprs
  <2>2. ASSUME NEW e \in Exprs, e \in Composed(T \cap Exprs) PROVE e \in T
    <3> SUFFICES ASSUME e \in Over(ty) PROVE e \in S
      OBVIOUS
    <3>1. CASE e.type = "NOT" /\ e.arg \in T /\ e = NotExpr(e.arg)
      <4>1. SymbolsOf(e.arg) = SymbolsOf(e)
        BY <3>1, SymbolsOfDef
      <4>2. e.arg \in Over(ty) /\ e.arg \in S
        BY <3>1, <4>1 DEF Over
      <4> QED BY <3>1, <4>2
    <3>2. CASE /\ e.type \in Connectives /\ e.left \in T /\ e.right \in T
               /\ e = TwoExpr(e.type, e.left, e.right)
      <4>1. SymbolsOf(e) = SymbolsOf(e.left) \cup SymbolsOf(e.right)
        BY <3>2, SymbolsOfDef
      <4>2. /\ e.left \in Over(ty) /\ e.left \in S
            /\ e.right \in Over(ty) /\ e.right \in S
        BY <3>2, <4>1 DEF Over
      <4> QED BY <3>2, <4>2
    <3> QED BY <2>2, <3>1, <3>2, ComposedShape
  <2> HIDE DEF T
  <2> QED BY <2>1, <2>2, ExprInduction
<1> QED BY <1>1 DEF Over

\* The value of a condition is a tristate.
LEMMA ValueTri ==
    ASSUME NEW ty, NEW v, Legal(ty, v), NEW e \in Over(ty)
    PROVE  Value(e, ty, v) \in Tri
<1> DEFINE S == {x \in Over(ty) : Value(x, ty, v) \in Tri}
<1>0. \A x \in Over(ty) : x \in Exprs
  BY DEF Over
<1>1. Over(ty) \cap Atoms \subseteq S
  <2> SUFFICES ASSUME NEW x \in Over(ty), x \in Atoms PROVE Value(x, ty, v) \in Tri
    OBVIOUS
  <2>1. CASE x = NULL
    BY <2>1, AtomValue DEF Tri
  <2>2. CASE x \in Operands(ty)
    BY <2>2, AtomValue, OperandTri DEF Tri
  <2>3. x.type # "NOT" /\ x.type \notin Connectives
    BY AtomShape DEF Connectives, Relations, Equalities
  <2> QED BY <2>1, <2>2, <2>3, OverShape
<1>2. \A a \in S : NotExpr(a) \in Over(ty) => NotExpr(a) \in S
  BY <1>0, NotValue, OpTri DEF Connectives
<1>3. \A a, b \in S, t \in Connectives : TwoExpr(t, a, b) \in Over(ty) => TwoExpr(t, a, b) \in S
  BY <1>0, TwoValue, OpTri
<1>4. Over(ty) \subseteq S
  <2> HIDE DEF S
  <2> QED BY <1>1, <1>2, <1>3, OverInduction
<1> QED BY <1>4

(***************************************************************************)
(* The expressions over a table, by layer.                                 *)
(***************************************************************************)
OverAt(ty, n) == {e \in Layer[n] : SymbolsOf(e) \subseteq DOMAIN ty}

LEMMA OverLayers ==
    ASSUME NEW ty, NEW n \in 0..MaxDepth
    PROVE  /\ OverAt(ty, n) \subseteq Over(ty)
           /\ OverAt(ty, MaxDepth) = Over(ty)
           /\ \A e \in Atoms \cap Over(ty) : e \in OverAt(ty, n)
           /\ \A m \in 0..n : OverAt(ty, m) \subseteq OverAt(ty, n)
<1>1. n \in 0..MaxDepth /\ MaxDepth \in 0..MaxDepth
  BY DepthAssumption
<1>2. Layer[n] \subseteq Exprs
  BY <1>1, LayersGrow DEF Exprs
<1>3. Atoms \subseteq Layer[n]
  BY LayerAre
<1>4. \A m \in 0..n : Layer[m] \subseteq Layer[n]
  BY LayersGrow
<1> QED BY <1>2, <1>3, <1>4 DEF OverAt, Over, Exprs

LEMMA OverAtShape ==
    ASSUME NEW ty, NEW n \in 0..MaxDepth, NEW e \in OverAt(ty, n)
    PROVE  \/ e \in Atoms /\ (e = NULL \/ e \in Operands(ty))
           \/ /\ n - 1 \in 0..MaxDepth /\ n - 1 < MaxDepth /\ (n - 1) + 1 = n
              /\ e.type = "NOT" /\ e.arg \in OverAt(ty, n - 1) /\ e = NotExpr(e.arg)
           \/ /\ n - 1 \in 0..MaxDepth /\ n - 1 < MaxDepth /\ (n - 1) + 1 = n
              /\ e.type \in Connectives
              /\ e.left \in OverAt(ty, n - 1) /\ e.right \in OverAt(ty, n - 1)
              /\ e = TwoExpr(e.type, e.left, e.right)
<1>1. e \in Layer[n] /\ SymbolsOf(e) \subseteq DOMAIN ty /\ e \in Over(ty) /\ e \in Exprs
  BY OverLayers DEF OverAt, Over
<1>2. CASE e \in Atoms
  <2>1. e.type # "NOT" /\ e.type \notin Connectives
    BY <1>2, AtomShape DEF Connectives, Relations, Equalities
  <2> QED BY <1>1, <1>2, <2>1, OverShape
<1>3. n - 1 \in 0..MaxDepth => n - 1 < MaxDepth /\ (n - 1) + 1 = n
  BY DepthAssumption
<1>4. CASE /\ n - 1 \in 0..MaxDepth /\ e.type = "NOT" /\ e.arg \in Layer[n - 1]
           /\ e = NotExpr(e.arg)
  <2>1. SymbolsOf(e.arg) = SymbolsOf(e)
    BY <1>1, <1>4, SymbolsOfDef
  <2> QED BY <1>1, <1>3, <1>4, <2>1 DEF OverAt
<1>5. CASE /\ n - 1 \in 0..MaxDepth /\ e.type \in Connectives
           /\ e.left \in Layer[n - 1] /\ e.right \in Layer[n - 1]
           /\ e = TwoExpr(e.type, e.left, e.right)
  <2>1. SymbolsOf(e) = SymbolsOf(e.left) \cup SymbolsOf(e.right)
    BY <1>1, <1>5, SymbolsOfDef
  <2> QED BY <1>1, <1>3, <1>5, <2>1 DEF OverAt
<1> QED BY <1>1, <1>2, <1>4, <1>5, LayerShape

\* What is built of expressions over a table is one, and what it is worth.
LEMMA OverAtAre ==
    ASSUME NEW ty, NEW n \in 0..MaxDepth, n < MaxDepth,
           NEW t \in Connectives, NEW a \in OverAt(ty, n), NEW b \in OverAt(ty, n)
    PROVE  /\ n + 1 \in 0..MaxDepth
           /\ a \in OverAt(ty, n + 1) /\ a \in Over(ty)
           /\ NotExpr(a) \in OverAt(ty, n + 1) /\ NotExpr(a) \in Over(ty)
           /\ TwoExpr(t, a, b) \in OverAt(ty, n + 1) /\ TwoExpr(t, a, b) \in Over(ty)
<1>1. /\ n + 1 \in 0..MaxDepth /\ n \in 0..n + 1
      /\ NotExpr(a) \in Layer[n + 1] /\ TwoExpr(t, a, b) \in Layer[n + 1]
      /\ Layer[n] \subseteq Layer[n + 1]
  BY LayerAre DEF OverAt
<1>2. Layer[n + 1] \subseteq Exprs
  BY <1>1, DepthAssumption, LayersGrow DEF Exprs
<1>3. NotExpr(a) \in Exprs /\ TwoExpr(t, a, b) \in Exprs
  BY <1>1, <1>2
<1>4. SymbolsOf(NotExpr(a)) \subseteq DOMAIN ty /\ SymbolsOf(TwoExpr(t, a, b)) \subseteq DOMAIN ty
  BY <1>3, NotValue, TwoValue DEF OverAt
<1> QED BY <1>1, <1>2, <1>3, <1>4 DEF OverAt, Over

LEMMA OverAtValue ==
    ASSUME NEW ty, NEW v, NEW n \in 0..MaxDepth, n < MaxDepth,
           NEW t \in Connectives, NEW a \in OverAt(ty, n), NEW b \in OverAt(ty, n)
    PROVE  /\ Value(NotExpr(a), ty, v) = EXPR_NOT(Value(a, ty, v))
           /\ Value(TwoExpr(t, a, b), ty, v) = Op(t, Value(a, ty, v), Value(b, ty, v))
<1>1. NotExpr(a) \in Exprs /\ TwoExpr(t, a, b) \in Exprs
  BY OverAtAre DEF Over
<1> QED BY <1>1, NotValue, TwoValue

\* What holds of the operands, and of what is made of expressions of which it holds, holds
\* of every expression, where S[m] is of those that nest at most m deep.
LEMMA OverAtInduction ==
    ASSUME NEW ty, NEW S, NEW n \in 0..MaxDepth,
           \A m \in 0..MaxDepth : Atoms \cap OverAt(ty, m) \subseteq S[m],
           \A m \in 0..MaxDepth : m < MaxDepth =>
              \A a, b \in OverAt(ty, m) \cap S[m], t \in Connectives :
                 NotExpr(a) \in S[m + 1] /\ TwoExpr(t, a, b) \in S[m + 1]
    PROVE  OverAt(ty, n) \subseteq S[n]
<1> DEFINE T == {m \in 0..MaxDepth : OverAt(ty, m) \subseteq S[m]}
<1>1. 0 \in T
  <2>1. 0 \in 0..MaxDepth /\ ~(0 - 1 \in 0..MaxDepth)
    BY DepthAssumption
  <2>2. \A x \in OverAt(ty, 0) : x \in Atoms
    BY <2>1, OverAtShape
  <2> QED BY <2>1, <2>2
<1>2. ASSUME NEW m \in 0..MaxDepth, m < MaxDepth, m \in T PROVE m + 1 \in T
  <2>1. m + 1 \in 0..MaxDepth /\ (m + 1) - 1 = m
    BY <1>2, DepthAssumption
  <2>2. ASSUME NEW x \in OverAt(ty, m + 1) PROVE x \in S[m + 1]
    <3>1. CASE x \in Atoms
      BY <2>1, <3>1
    <3>2. CASE x.arg \in OverAt(ty, m) /\ x = NotExpr(x.arg)
      BY <1>2, <3>2 DEF Connectives
    <3>3. CASE /\ x.type \in Connectives /\ x.left \in OverAt(ty, m) /\ x.right \in OverAt(ty, m)
               /\ x = TwoExpr(x.type, x.left, x.right)
      BY <1>2, <3>3
    <3> QED BY <2>1, <3>1, <3>2, <3>3, OverAtShape
  <2> QED BY <2>1, <2>2
<1> HIDE DEF T
<1>3. 0..MaxDepth \subseteq T
  BY <1>1, <1>2, DepthAssumption, Induction
<1> QED BY <1>3 DEF T

LEMMA AtomsOver ==
    ASSUME NEW ty, NEW v
    PROVE  /\ NULL \in Atoms \cap Over(ty)
           /\ \A s \in Names \cap DOMAIN ty :
                 /\ SymbolExpr(s) \in Atoms \cap Over(ty)
                 /\ Value(SymbolExpr(s), ty, v) = v[s].tri
           /\ \A t \in Relations, s1, s2 \in Names \cap DOMAIN ty :
                 /\ CompExpr(t, s1, s2) \in Atoms \cap Over(ty)
                 /\ Value(CompExpr(t, s1, s2), ty, v) = OperandValue(CompExpr(t, s1, s2), ty, v)
<1>1. Atoms \subseteq Exprs
  BY DepthAssumption, LayerAre DEF Exprs
<1>2. NULL \in Atoms /\ SymbolsOf(NULL) = {}
  BY AtomsAre, AtomValue
<1>3. ASSUME NEW s \in Names \cap DOMAIN ty
      PROVE  SymbolExpr(s) \in Atoms \cap Over(ty) /\ Value(SymbolExpr(s), ty, v) = v[s].tri
  <2>1. SymbolExpr(s) \in Atoms /\ SymbolExpr(s).type = "SYMBOL" /\ SymbolExpr(s).sym = s
    BY AtomsAre DEF SymbolExpr
  <2>2. SymbolsOf(SymbolExpr(s)) = {s}
    BY <2>1, AtomValue
  <2>3. Value(SymbolExpr(s), ty, v) = OperandValue(SymbolExpr(s), ty, v)
    BY <2>1, AtomValue
  <2>4. OperandValue(SymbolExpr(s), ty, v) = v[s].tri
    BY SymbolValue
  <2>5. SymbolExpr(s) \in Atoms \cap Over(ty)
    BY <1>1, <2>1, <2>2 DEF Over
  <2> QED BY <2>3, <2>4, <2>5
<1>4. ASSUME NEW t \in Relations, NEW s1 \in Names \cap DOMAIN ty, NEW s2 \in Names \cap DOMAIN ty
      PROVE  /\ CompExpr(t, s1, s2) \in Atoms \cap Over(ty)
             /\ Value(CompExpr(t, s1, s2), ty, v) = OperandValue(CompExpr(t, s1, s2), ty, v)
  <2>1. /\ CompExpr(t, s1, s2) \in Atoms /\ CompExpr(t, s1, s2).type = t
        /\ CompExpr(t, s1, s2).sym = s1 /\ CompExpr(t, s1, s2).with = s2
    BY AtomsAre DEF CompExpr
  <2>2. SymbolsOf(CompExpr(t, s1, s2)) = {s1, s2}
    BY <2>1, AtomValue
  <2> QED BY <1>1, <2>1, <2>2, AtomValue DEF Over
<1> QED BY <1>1, <1>2, <1>3, <1>4 DEF Over

\* y, m and n.
LEMMA ConstantValue ==
    ASSUME NEW ty, NEW v, Legal(ty, v), NEW s \in Tristates
    PROVE  /\ s \in Names \cap DOMAIN ty
           /\ SymbolExpr(s) \in Atoms \cap Over(ty)
           /\ Value(SymbolExpr(s), ty, v) = CASE s = "n" -> no [] s = "m" -> mod [] s = "y" -> yes
<1>1. s \in Names \cap DOMAIN ty
  <2>1. s \in Names
    BY DEF Names
  <2>2. s \in DOMAIN ty
    BY DEF Legal
  <2> QED BY <2>1, <2>2
<1>2. SymbolExpr(s) \in Atoms \cap Over(ty) /\ Value(SymbolExpr(s), ty, v) = v[s].tri
  BY <1>1, AtomsOver
<1>3. v[s].tri = CASE s = "n" -> no [] s = "m" -> mod [] s = "y" -> yes
  BY TristateValues DEF Tristates
<1> QED BY <1>1, <1>2, <1>3

\* A node that is the symbol s.
LEMMA IsSymbolMeans ==
    ASSUME NEW ty, NEW e \in Over(ty), NEW s, e.type = "SYMBOL", e.sym = s
    PROVE  e = SymbolExpr(s) /\ s \in Names \cap DOMAIN ty
<1>1. e \in Exprs /\ e.type # "NOT" /\ e.type \notin Connectives
  BY DEF Over, Connectives
<1>2. e \in Atoms
  BY <1>1, ExprShape
<1> QED BY <1>2, AtomShape, AtomValue DEF Over

----------------------------------------------------------------------------
\* expr_eliminate_yn at a connective of two simplified conditions.
LEMMA YnRuleKeeps ==
    ASSUME NEW ty, NEW v, Legal(ty, v), NEW n \in 0..MaxDepth, n < MaxDepth,
           NEW t \in Connectives, NEW a \in OverAt(ty, n), NEW b \in OverAt(ty, n)
    PROVE  /\ YnRule(TwoExpr(t, a, b)) \in OverAt(ty, n + 1)
           /\ Value(YnRule(TwoExpr(t, a, b)), ty, v) = Op(t, Value(a, ty, v), Value(b, ty, v))
<1>0. /\ n + 1 \in 0..MaxDepth
      /\ a \in OverAt(ty, n + 1) /\ a \in Over(ty)
      /\ b \in OverAt(ty, n + 1) /\ b \in Over(ty)
      /\ TwoExpr(t, a, b) \in OverAt(ty, n + 1)
      /\ Value(TwoExpr(t, a, b), ty, v) = Op(t, Value(a, ty, v), Value(b, ty, v))
  <2>1. /\ n + 1 \in 0..MaxDepth
        /\ a \in OverAt(ty, n + 1) /\ a \in Over(ty)
    BY OverAtAre
  <2>2. b \in OverAt(ty, n + 1) /\ b \in Over(ty)
    BY OverAtAre
  <2>3. TwoExpr(t, a, b) \in OverAt(ty, n + 1)
    BY OverAtAre
  <2>4. Value(TwoExpr(t, a, b), ty, v) = Op(t, Value(a, ty, v), Value(b, ty, v))
    BY OverAtValue
  <2> QED BY <2>1, <2>2, <2>3, <2>4
<1> DEFINE e == TwoExpr(t, a, b)
           A == Value(a, ty, v)
           B == Value(b, ty, v)
<1>1. e.type = t /\ e.left = a /\ e.right = b
  BY DEF TwoExpr
<1>2. /\ e \in OverAt(ty, n + 1) /\ a \in OverAt(ty, n + 1) /\ b \in OverAt(ty, n + 1)
      /\ a \in Over(ty) /\ b \in Over(ty) /\ Value(e, ty, v) = Op(t, A, B)
      /\ n + 1 \in 0..MaxDepth
  BY <1>0
<1>3. A \in Tri /\ B \in Tri
  BY <1>2, ValueTri
<1> DEFINE c == IF t = "AND" THEN "y" ELSE "n"
           d == IF t = "AND" THEN "n" ELSE "y"
<1>4. Neutral(t) = SymbolExpr(c) /\ Absorbing(t) = SymbolExpr(d)
  BY DEF Neutral, Absorbing
<1>5. /\ Value(Neutral(t), ty, v) = IF t = "AND" THEN yes ELSE no
      /\ Value(Absorbing(t), ty, v) = IF t = "AND" THEN no ELSE yes
      /\ Absorbing(t) \in OverAt(ty, n + 1)
  BY <1>2, <1>4, ConstantValue, OverLayers DEF Tristates
<1>6. Neutral(t).sym = c /\ Absorbing(t).sym = d
  BY <1>4 DEF SymbolExpr
<1> HIDE DEF e
<1>7. CASE IsSymbol(a, d)
  <2>1. a = Absorbing(t) /\ YnRule(e) = Absorbing(t)
    BY <1>1, <1>2, <1>4, <1>6, <1>7, IsSymbolMeans DEF YnRule, IsSymbol
  <2> QED BY <1>3, <1>5, <2>1 DEF e, Op, EXPR_AND, EXPR_OR, Tri, no, mod, yes
<1>8. CASE ~IsSymbol(a, d) /\ IsSymbol(a, c)
  <2>1. a = Neutral(t) /\ YnRule(e) = b
    BY <1>1, <1>2, <1>4, <1>6, <1>8, IsSymbolMeans DEF YnRule, IsSymbol
  <2> QED BY <1>2, <1>3, <1>5, <2>1 DEF e, Op, EXPR_AND, EXPR_OR, Tri, no, mod, yes
<1>9. CASE ~IsSymbol(a, d) /\ ~IsSymbol(a, c) /\ IsSymbol(b, d)
  <2>1. b = Absorbing(t) /\ YnRule(e) = Absorbing(t)
    BY <1>1, <1>2, <1>4, <1>6, <1>9, IsSymbolMeans DEF YnRule, IsSymbol
  <2> QED BY <1>3, <1>5, <2>1 DEF e, Op, EXPR_AND, EXPR_OR, Tri, no, mod, yes
<1>10. CASE ~IsSymbol(a, d) /\ ~IsSymbol(a, c) /\ ~IsSymbol(b, d) /\ IsSymbol(b, c)
  <2>1. b = Neutral(t) /\ YnRule(e) = a
    BY <1>1, <1>2, <1>4, <1>6, <1>10, IsSymbolMeans DEF YnRule, IsSymbol
  <2> QED BY <1>2, <1>3, <1>5, <2>1 DEF e, Op, EXPR_AND, EXPR_OR, Tri, no, mod, yes
<1>11. CASE ~IsSymbol(a, d) /\ ~IsSymbol(a, c) /\ ~IsSymbol(b, d) /\ ~IsSymbol(b, c)
  <2>1. YnRule(e) = e
    BY <1>1, <1>6, <1>11 DEF YnRule
  <2> QED BY <1>2, <2>1 DEF e
<1> QED BY <1>7, <1>8, <1>9, <1>10, <1>11

\* expr_eliminate_yn: a condition from which the constants are gone is worth the same.
THEOREM EliminateYnSound ==
    ASSUME NEW ty, NEW v, Legal(ty, v), NEW n \in 0..MaxDepth, NEW e \in OverAt(ty, n)
    PROVE  /\ expr_eliminate_yn(e) \in OverAt(ty, n)
           /\ Value(expr_eliminate_yn(e), ty, v) = Value(e, ty, v)
<1> DEFINE Keeps(x, m) == /\ expr_eliminate_yn(x) \in OverAt(ty, m)
                          /\ Value(expr_eliminate_yn(x), ty, v) = Value(x, ty, v)
           S == [m \in 0..MaxDepth |-> {x \in OverAt(ty, m) : Keeps(x, m)}]
<1>1. ASSUME NEW m \in 0..MaxDepth, NEW x \in OverAt(ty, m), x \in Atoms PROVE Keeps(x, m)
  <2>1. x.type \notin Connectives /\ x \in Exprs
    BY <1>1, AtomShape, OverLayers DEF Connectives, Relations, Equalities, Over
  <2> QED BY <2>1, EliminateYnDef
<1>2. ASSUME NEW m \in 0..MaxDepth, m < MaxDepth, NEW t \in Connectives,
             NEW a \in OverAt(ty, m), NEW b \in OverAt(ty, m), Keeps(a, m), Keeps(b, m)
      PROVE  NotExpr(a) \in S[m + 1] /\ TwoExpr(t, a, b) \in S[m + 1]
  <2>1. /\ m + 1 \in 0..MaxDepth
        /\ NotExpr(a) \in OverAt(ty, m + 1) /\ NotExpr(a) \in Exprs
        /\ TwoExpr(t, a, b) \in OverAt(ty, m + 1) /\ TwoExpr(t, a, b) \in Exprs
    BY <1>2, OverAtAre DEF Over
  <2>2. Value(TwoExpr(t, a, b), ty, v) = Op(t, Value(a, ty, v), Value(b, ty, v))
    BY <1>2, OverAtValue
  <2>3. expr_eliminate_yn(NotExpr(a)) = NotExpr(a)
    BY <2>1, EliminateYnDef DEF NotExpr, Connectives
  <2>4. expr_eliminate_yn(TwoExpr(t, a, b)) =
            YnRule(TwoExpr(t, expr_eliminate_yn(a), expr_eliminate_yn(b)))
    BY <2>1, EliminateYnDef DEF TwoExpr
  <2> QED BY <1>2, <2>1, <2>2, <2>3, <2>4, YnRuleKeeps
<1> HIDE DEF Keeps
<1>3. OverAt(ty, n) \subseteq S[n]
  BY <1>1, <1>2, OverAtInduction
<1> QED BY <1>3 DEF Keeps

----------------------------------------------------------------------------
\* The rules of one node make an operand or the negation of one; its value is that of the
\* condition.
LEMMA NodeIsValue ==
    ASSUME NEW ty, NEW v, NEW e \in Nodes(ty), e \in Exprs
    PROVE  Value(e, ty, v) = NodeValue(e, ty, v)
<1>1. ASSUME NEW x \in Operands(ty), x \in Exprs
      PROVE  Value(x, ty, v) = OperandValue(x, ty, v) /\ NodeValue(x, ty, v) = OperandValue(x, ty, v)
  <2>1. x.type \in {"SYMBOL"} \cup Relations
    BY <1>1 DEF Operands, SymbolExpr, CompExpr
  <2>2. x.type # "NOT" /\ x.type \notin Connectives
    BY <2>1 DEF Connectives, Relations, Equalities
  <2>3. x \in Atoms
    BY <1>1, <2>2, ExprShape
  <2> QED BY <2>2, <2>3, AtomValue DEF NodeValue
<1>2. ASSUME NEW x \in Operands(ty), e = NotExpr(x)
      PROVE  Value(e, ty, v) = NodeValue(e, ty, v)
  <2>1. e.type = "NOT" /\ e.arg = x
    BY <1>2 DEF NotExpr
  <2>2. x \in Exprs
    BY <2>1, ExprParts, AtomShape DEF PartsIn, Connectives, Relations, Equalities
  <2>3. Value(e, ty, v) = EXPR_NOT(Value(x, ty, v))
    BY <1>2, NotValue
  <2> QED BY <1>1, <2>1, <2>2, <2>3 DEF NodeValue
<1> QED BY <1>1, <1>2 DEF Nodes

LEMMA OperandIs ==
    ASSUME NEW ty, NEW e \in Operands(ty), e \in Atoms
    PROVE  \/ e.type = "SYMBOL" /\ e.sym \in DOMAIN ty /\ e.sym \in Names /\ e = SymbolExpr(e.sym)
           \/ /\ e.type \in Relations
              /\ e.sym \in DOMAIN ty /\ e.with \in DOMAIN ty /\ e.sym \in Names /\ e.with \in Names
              /\ e = CompExpr(e.type, e.sym, e.with)
<1>1. CASE \E s \in DOMAIN ty : e = SymbolExpr(s)
  BY <1>1, AtomShape DEF SymbolExpr
<1>2. CASE \E t \in Relations, s1, s2 \in DOMAIN ty : e = CompExpr(t, s1, s2)
  BY <1>2, AtomShape DEF CompExpr
<1> QED BY <1>1, <1>2 DEF Operands

LEMMA NegationRuleShape ==
    ASSUME NEW ty, NEW v, Legal(ty, v), NEW e \in Operands(ty), e \in Atoms
    PROVE  /\ NegationRule(e) \in Nodes(ty)
           /\ NegationRule(e) = NotExpr(e) \/ NegationRule(e) \in Atoms \cap Over(ty)
<1>1. CASE e.type = "SYMBOL" /\ e.sym \in Tristates
  <2> DEFINE s == CASE e.sym = "y" -> "n" [] e.sym = "m" -> "m" [] e.sym = "n" -> "y"
  <2>1. s \in Tristates
    BY <1>1 DEF Tristates
  <2>2. NegationRule(e) = SymbolExpr(s)
    BY <1>1 DEF NegationRule, Relations, Equalities
  <2> HIDE DEF s
  <2>3. SymbolExpr(s) \in Atoms \cap Over(ty) /\ s \in DOMAIN ty
    BY <2>1, ConstantValue
  <2> QED BY <2>2, <2>3 DEF Nodes, Operands
<1>2. CASE e.type = "SYMBOL" /\ e.sym \notin Tristates
  <2>1. NegationRule(e) = NotExpr(e)
    BY <1>2 DEF NegationRule, Relations, Equalities
  <2> QED BY <2>1 DEF Nodes
<1>3. CASE /\ e.type \in Relations
           /\ e.sym \in DOMAIN ty /\ e.with \in DOMAIN ty /\ e.sym \in Names /\ e.with \in Names
           /\ e = CompExpr(e.type, e.sym, e.with)
  <2>1. NegationRule(e) = CompExpr(Opposite(e.type), e.sym, e.with)
    <3>1. \A s1, s2 : \A t \in Relations :
              NegationRule(CompExpr(t, s1, s2)) = CompExpr(Opposite(t), s1, s2)
      BY DEF NegationRule, CompExpr, Opposite, Relations, Equalities
    <3> QED BY <1>3, <3>1
  <2>2. Opposite(e.type) \in Relations
    BY <1>3, OppositeHolds
  <2>3. CompExpr(Opposite(e.type), e.sym, e.with) \in Atoms \cap Over(ty)
    BY <1>3, <2>2, AtomsOver
  <2> QED BY <1>3, <2>1, <2>2, <2>3 DEF Nodes, Operands
<1> QED BY <1>1, <1>2, <1>3, OperandIs

LEMMA Duality ==
    ASSUME NEW t \in Connectives, NEW a \in Tri, NEW b \in Tri
    PROVE  /\ Dual(t) \in Connectives
           /\ Op(Dual(t), EXPR_NOT(a), EXPR_NOT(b)) = EXPR_NOT(Op(t, a, b))
           /\ EXPR_NOT(EXPR_NOT(a)) = a
  BY DEF Connectives, Dual, Op, Tri, EXPR_NOT, EXPR_AND, EXPR_OR, no, mod, yes

LEMMA Selectors ==
    \A t, a, b : /\ NotExpr(a).type = "NOT" /\ NotExpr(a).arg = a
                 /\ TwoExpr(t, a, b).type = t
                 /\ TwoExpr(t, a, b).left = a /\ TwoExpr(t, a, b).right = b
  BY DEF NotExpr, TwoExpr

\* An operand, in a layer that is not the last, and its negation.
LEMMA AtomNegated ==
    ASSUME NEW ty, NEW v, Legal(ty, v), NEW n \in 0..MaxDepth, n < MaxDepth,
           NEW e \in Atoms \cap OverAt(ty, n)
    PROVE  /\ Negated(e) \in OverAt(ty, n + 1)
           /\ Value(Negated(e), ty, v) = EXPR_NOT(Value(e, ty, v))
<1>1. e.type # "NOT" /\ e.type \notin Connectives /\ e \in Exprs
  BY AtomShape, OverLayers DEF Connectives, Relations, Equalities, Over
<1>2. Negated(e) = NegationRule(e)
  BY <1>1, NegatedDef
<1>3. /\ n + 1 \in 0..MaxDepth /\ NotExpr(e) \in OverAt(ty, n + 1)
      /\ Value(NotExpr(e), ty, v) = EXPR_NOT(Value(e, ty, v))
  BY OverAtAre, OverAtValue DEF Connectives
<1>4. CASE e = NULL
  <2>1. NegationRule(e) = NotExpr(e)
    BY <1>4 DEF NegationRule, NULL, Relations, Equalities
  <2> QED BY <1>2, <1>3, <2>1
<1>5. CASE e \in Operands(ty)
  <2>1. NegationRule(e) \in OverAt(ty, n + 1) /\ NegationRule(e) \in Nodes(ty)
    BY <1>3, <1>5, NegationRuleShape, OverLayers
  <2>2. Value(NegationRule(e), ty, v) = NodeValue(NegationRule(e), ty, v)
    BY <1>3, <2>1, NodeIsValue, OverLayers DEF Over
  <2>3. NodeValue(NegationRule(e), ty, v) = EXPR_NOT(OperandValue(e, ty, v))
    BY <1>5, NegationRuleSound
  <2>4. Value(e, ty, v) = OperandValue(e, ty, v)
    BY AtomValue
  <2> QED BY <1>2, <2>1, <2>2, <2>3, <2>4
<1> QED BY <1>1, <1>4, <1>5, OverAtShape

\* expr_transform of a negation: what replaces !e is worth what !e is.
THEOREM NegatedSound ==
    ASSUME NEW ty, NEW v, Legal(ty, v), NEW n \in 0..MaxDepth, n < MaxDepth,
           NEW e \in OverAt(ty, n)
    PROVE  /\ Negated(e) \in OverAt(ty, n + 1)
           /\ Value(Negated(e), ty, v) = EXPR_NOT(Value(e, ty, v))
<1> DEFINE Keeps(x, m) == /\ Negated(x) \in OverAt(ty, m + 1)
                          /\ Value(Negated(x), ty, v) = EXPR_NOT(Value(x, ty, v))
           S == [m \in 0..MaxDepth |-> {x \in OverAt(ty, m) : m < MaxDepth => Keeps(x, m)}]
<1>1. ASSUME NEW m \in 0..MaxDepth, m < MaxDepth, NEW x \in OverAt(ty, m), x \in Atoms
      PROVE  Keeps(x, m)
  BY <1>1, AtomNegated
<1>2. ASSUME NEW m \in 0..MaxDepth, m < MaxDepth, NEW t \in Connectives,
             NEW a \in OverAt(ty, m), NEW b \in OverAt(ty, m), Keeps(a, m), Keeps(b, m)
      PROVE  NotExpr(a) \in S[m + 1] /\ TwoExpr(t, a, b) \in S[m + 1]
  <2>1. /\ m + 1 \in 0..MaxDepth
        /\ NotExpr(a) \in OverAt(ty, m + 1) /\ NotExpr(a) \in Exprs
        /\ TwoExpr(t, a, b) \in OverAt(ty, m + 1) /\ TwoExpr(t, a, b) \in Exprs
        /\ a \in OverAt(ty, m + 1)
    BY <1>2, OverAtAre DEF Over
  <2>2. /\ Value(NotExpr(a), ty, v) = EXPR_NOT(Value(a, ty, v))
        /\ Value(TwoExpr(t, a, b), ty, v) = Op(t, Value(a, ty, v), Value(b, ty, v))
    BY <1>2, OverAtValue
  <2>3. Value(a, ty, v) \in Tri /\ Value(b, ty, v) \in Tri
    BY <1>2, OverLayers, ValueTri
  <2>4. Negated(NotExpr(a)) = a
    BY <2>1, NegatedDef, Selectors DEF Connectives
  <2>5. Negated(TwoExpr(t, a, b)) = TwoExpr(Dual(t), Negated(a), Negated(b))
    BY <2>1, NegatedDef, Selectors DEF Connectives
  <2>6. ASSUME m + 1 < MaxDepth PROVE Keeps(NotExpr(a), m + 1)
    <3>1. a \in OverAt(ty, (m + 1) + 1)
      BY <2>1, <2>6, OverAtAre DEF Connectives
    <3> QED BY <2>2, <2>3, <2>4, <3>1, Duality DEF Connectives
  <2>7. ASSUME m + 1 < MaxDepth PROVE Keeps(TwoExpr(t, a, b), m + 1)
    <3>1. Dual(t) \in Connectives
      BY DEF Dual, Connectives
    <3>2. TwoExpr(Dual(t), Negated(a), Negated(b)) \in OverAt(ty, (m + 1) + 1)
      BY <1>2, <2>1, <2>7, <3>1, OverAtAre
    <3>3. Value(TwoExpr(Dual(t), Negated(a), Negated(b)), ty, v) =
              Op(Dual(t), EXPR_NOT(Value(a, ty, v)), EXPR_NOT(Value(b, ty, v)))
      BY <1>2, <2>1, <2>7, <3>1, OverAtValue
    <3> QED BY <2>2, <2>3, <2>5, <3>2, <3>3, Duality
  <2> QED BY <2>1, <2>6, <2>7
<1>3. ASSUME NEW m \in 0..MaxDepth, m < MaxDepth, NEW t \in Connectives,
             NEW a \in OverAt(ty, m) \cap S[m], NEW b \in OverAt(ty, m) \cap S[m]
      PROVE  NotExpr(a) \in S[m + 1] /\ TwoExpr(t, a, b) \in S[m + 1]
  <2>1. Keeps(a, m) /\ Keeps(b, m)
    BY <1>3
  <2> QED BY <1>2, <1>3, <2>1
<1>4. \A m \in 0..MaxDepth : Atoms \cap OverAt(ty, m) \subseteq S[m]
  BY <1>1
<1>5. S[n] = {x \in OverAt(ty, n) : n < MaxDepth => Keeps(x, n)}
  OBVIOUS
<1> HIDE DEF S, Keeps
<1>6. OverAt(ty, n) \subseteq S[n]
  BY <1>3, <1>4, OverAtInduction
<1> QED BY <1>5, <1>6 DEF Keeps

\* expr_transform of a test.
LEMMA TestTransformed ==
    ASSUME NEW ty, NEW v, Legal(ty, v), NEW n \in 0..MaxDepth, n < MaxDepth,
           NEW e \in Atoms \cap OverAt(ty, n)
    PROVE  /\ expr_transform(e, ty) \in OverAt(ty, n + 1)
           /\ Value(expr_transform(e, ty), ty, v) = Value(e, ty, v)
<1>1. e.type # "NOT" /\ e.type \notin Connectives /\ e \in Exprs
  BY AtomShape, OverLayers DEF Connectives, Relations, Equalities, Over
<1>2. n + 1 \in 0..MaxDepth /\ e \in OverAt(ty, n + 1)
  BY OverAtAre DEF Connectives
<1>3. CASE e.type \notin Equalities
  BY <1>1, <1>2, <1>3, TransformDef
<1>4. CASE e.type \in Equalities
  <2>1. expr_transform(e, ty) = BoolTestRule(e, ty)
    BY <1>1, <1>4, TransformDef
  <2>2. /\ e.sym \in DOMAIN ty /\ e.with \in DOMAIN ty /\ e.sym \in Names
        /\ e = CompExpr(e.type, e.sym, e.with) /\ e \in Operands(ty)
    <3>1. e.type \in Relations /\ e # NULL
      BY <1>4 DEF Relations, Equalities, NULL
    <3>2. e \in Operands(ty)
      BY <1>1, <3>1, OverAtShape
    <3> QED BY <3>1, <3>2, OperandIs DEF Relations, Equalities
  <2>3. NodeValue(BoolTestRule(e, ty), ty, v) = OperandValue(e, ty, v)
    BY <1>4, <2>2, BoolTestRuleSound
  <2>4. /\ SymbolExpr(e.sym) \in OverAt(ty, n) /\ SymbolExpr(e.sym) \in Operands(ty)
        /\ SymbolExpr("y") \in OverAt(ty, n + 1) /\ SymbolExpr("n") \in OverAt(ty, n + 1)
        /\ SymbolExpr("y") \in Operands(ty) /\ SymbolExpr("n") \in Operands(ty)
    <3>1. SymbolExpr(e.sym) \in OverAt(ty, n)
      BY <2>2, AtomsOver, OverLayers
    <3>2. /\ SymbolExpr("y") \in OverAt(ty, n + 1) /\ SymbolExpr("n") \in OverAt(ty, n + 1)
          /\ "y" \in DOMAIN ty /\ "n" \in DOMAIN ty
      BY <1>2, ConstantValue, OverLayers DEF Tristates
    <3> QED BY <2>2, <3>1, <3>2 DEF Operands
  <2>5. /\ NotExpr(SymbolExpr(e.sym)) \in OverAt(ty, n + 1)
        /\ SymbolExpr(e.sym) \in OverAt(ty, n + 1)
    BY <2>4, OverAtAre DEF Connectives
  <2>6. BoolTestRule(e, ty) \in {e, SymbolExpr("y"), SymbolExpr("n"), SymbolExpr(e.sym),
                                 NotExpr(SymbolExpr(e.sym))}
    BY DEF BoolTestRule
  <2>7. BoolTestRule(e, ty) \in OverAt(ty, n + 1) /\ BoolTestRule(e, ty) \in Nodes(ty)
    BY <1>2, <2>2, <2>4, <2>5, <2>6 DEF Nodes
  <2>8. Value(BoolTestRule(e, ty), ty, v) = NodeValue(BoolTestRule(e, ty), ty, v)
    BY <1>2, <2>7, NodeIsValue, OverLayers DEF Over
  <2> QED BY <2>1, <2>3, <2>7, <2>8, AtomValue
<1> QED BY <1>3, <1>4

\* expr_transform: the condition that menu_finalize puts in the place of another is worth the
\* same, and nests at most one deeper.
THEOREM TransformSound ==
    ASSUME NEW ty, NEW v, Legal(ty, v), NEW n \in 0..MaxDepth, n < MaxDepth,
           NEW e \in OverAt(ty, n)
    PROVE  /\ expr_transform(e, ty) \in OverAt(ty, n + 1)
           /\ Value(expr_transform(e, ty), ty, v) = Value(e, ty, v)
<1> DEFINE Keeps(x, m) == /\ expr_transform(x, ty) \in OverAt(ty, m + 1)
                          /\ Value(expr_transform(x, ty), ty, v) = Value(x, ty, v)
           S == [m \in 0..MaxDepth |-> {x \in OverAt(ty, m) : m < MaxDepth => Keeps(x, m)}]
<1>1. ASSUME NEW m \in 0..MaxDepth, m < MaxDepth, NEW x \in OverAt(ty, m), x \in Atoms
      PROVE  Keeps(x, m)
  BY <1>1, TestTransformed
<1>2. ASSUME NEW m \in 0..MaxDepth, m < MaxDepth, NEW t \in Connectives,
             NEW a \in OverAt(ty, m), NEW b \in OverAt(ty, m), Keeps(a, m), Keeps(b, m)
      PROVE  NotExpr(a) \in S[m + 1] /\ TwoExpr(t, a, b) \in S[m + 1]
  <2>1. /\ m + 1 \in 0..MaxDepth
        /\ NotExpr(a) \in OverAt(ty, m + 1) /\ NotExpr(a) \in Exprs
        /\ TwoExpr(t, a, b) \in OverAt(ty, m + 1) /\ TwoExpr(t, a, b) \in Exprs
    BY <1>2, OverAtAre DEF Over
  <2>2. /\ Value(NotExpr(a), ty, v) = EXPR_NOT(Value(a, ty, v))
        /\ Value(TwoExpr(t, a, b), ty, v) = Op(t, Value(a, ty, v), Value(b, ty, v))
    BY <1>2, OverAtValue
  <2>3. expr_transform(NotExpr(a), ty) = Negated(expr_transform(a, ty))
    BY <2>1, TransformDef, Selectors DEF Connectives
  <2>4. expr_transform(TwoExpr(t, a, b), ty) = TwoExpr(t, expr_transform(a, ty), expr_transform(b, ty))
    BY <2>1, TransformDef, Selectors DEF Connectives
  <2>5. ASSUME m + 1 < MaxDepth PROVE Keeps(NotExpr(a), m + 1)
    BY <1>2, <2>1, <2>2, <2>3, <2>5, NegatedSound
  <2>6. ASSUME m + 1 < MaxDepth PROVE Keeps(TwoExpr(t, a, b), m + 1)
    <3>1. TwoExpr(t, expr_transform(a, ty), expr_transform(b, ty)) \in OverAt(ty, (m + 1) + 1)
      BY <1>2, <2>1, <2>6, OverAtAre
    <3>2. Value(TwoExpr(t, expr_transform(a, ty), expr_transform(b, ty)), ty, v) =
              Op(t, Value(a, ty, v), Value(b, ty, v))
      BY <1>2, <2>1, <2>6, OverAtValue
    <3> QED BY <2>2, <2>4, <3>1, <3>2
  <2> QED BY <2>1, <2>5, <2>6
<1>3. ASSUME NEW m \in 0..MaxDepth, m < MaxDepth, NEW t \in Connectives,
             NEW a \in OverAt(ty, m) \cap S[m], NEW b \in OverAt(ty, m) \cap S[m]
      PROVE  NotExpr(a) \in S[m + 1] /\ TwoExpr(t, a, b) \in S[m + 1]
  <2>1. Keeps(a, m) /\ Keeps(b, m)
    BY <1>3
  <2> QED BY <1>2, <1>3, <2>1
<1>4. \A m \in 0..MaxDepth : Atoms \cap OverAt(ty, m) \subseteq S[m]
  <2> SUFFICES ASSUME NEW m \in 0..MaxDepth, NEW x \in Atoms \cap OverAt(ty, m) PROVE x \in S[m]
    OBVIOUS
  <2> QED BY <1>1
<1>5. S[n] = {x \in OverAt(ty, n) : n < MaxDepth => Keeps(x, n)}
  OBVIOUS
<1> HIDE DEF S, Keeps
<1>6. OverAt(ty, n) \subseteq S[n]
  BY <1>3, <1>4, OverAtInduction
<1> QED BY <1>5, <1>6 DEF Keeps

----------------------------------------------------------------------------
\* expr_contains_symbol tells all that the value of a condition depends on: where two
\* valuations give the symbols of a condition the same values, it is worth the same.  What the
\* dialogs and sym_calc_value do not recalculate therefore has not changed.
THEOREM ValueUsesSymbols ==
    ASSUME NEW ty, NEW v, NEW w, NEW e \in Over(ty),
           \A s \in DOMAIN ty : expr_contains_symbol(e, s) => v[s] = w[s]
    PROVE  Value(e, ty, v) = Value(e, ty, w)
<1> DEFINE Same(x) == (\A s \in SymbolsOf(x) : v[s] = w[s]) => Value(x, ty, v) = Value(x, ty, w)
           S == {x \in Over(ty) : Same(x)}
<1>1. ASSUME NEW x \in Over(ty) \cap Atoms PROVE Same(x)
  <2>1. Value(x, ty, v) = OperandValue(x, ty, v) /\ Value(x, ty, w) = OperandValue(x, ty, w)
    BY AtomValue
  <2>2. CASE x = NULL
    BY <2>2, AtomValue
  <2>3. CASE x.type = "SYMBOL" /\ x = SymbolExpr(x.sym)
    BY <2>1, <2>3, AtomValue, SymbolValue
  <2>4. CASE x.type \in Relations /\ x = CompExpr(x.type, x.sym, x.with)
    <3>1. SymbolsOf(x) = {x.sym, x.with}
      BY <2>4, AtomValue
    <3> QED BY <2>1, <2>4, <3>1, CompValue
  <2> QED BY <2>2, <2>3, <2>4, AtomShape
<1>2. \A a \in S : NotExpr(a) \in Over(ty) => NotExpr(a) \in S
  <2> SUFFICES ASSUME NEW a \in S, NotExpr(a) \in Over(ty) PROVE Same(NotExpr(a))
    OBVIOUS
  <2> QED BY NotValue DEF Over
<1>3. \A a, b \in S, t \in Connectives : TwoExpr(t, a, b) \in Over(ty) => TwoExpr(t, a, b) \in S
  <2> SUFFICES ASSUME NEW a \in S, NEW b \in S, NEW t \in Connectives, TwoExpr(t, a, b) \in Over(ty),
                      \A s \in SymbolsOf(TwoExpr(t, a, b)) : v[s] = w[s]
               PROVE  Value(TwoExpr(t, a, b), ty, v) = Value(TwoExpr(t, a, b), ty, w)
    OBVIOUS
  <2>1. TwoExpr(t, a, b) \in Exprs
    BY DEF Over
  <2>2. SymbolsOf(TwoExpr(t, a, b)) = SymbolsOf(a) \cup SymbolsOf(b)
    BY <2>1, TwoValue
  <2>3. Value(a, ty, v) = Value(a, ty, w) /\ Value(b, ty, v) = Value(b, ty, w)
    BY <2>2
  <2> QED BY <2>1, <2>3, TwoValue
<1> HIDE DEF S
<1>4. Over(ty) \subseteq S
  BY <1>1, <1>2, <1>3, OverInduction DEF S
<1>5. \A s \in SymbolsOf(e) : v[s] = w[s]
  BY DEF Over, expr_contains_symbol
<1> QED BY <1>4, <1>5 DEF S

\* expr_depends_symbol, by which menu_finalize puts an entry below the one before it: while a
\* bool or a tristate s is n, a condition that depends on it is n, so that the entries
\* below s are not there.
THEOREM DependsMeansHidden ==
    ASSUME NEW ty, NEW v, Legal(ty, v), NEW e \in Over(ty), NEW s \in DOMAIN ty,
           ty[s] \in {"BOOLEAN", "TRISTATE"}, v[s].tri = no, expr_depends_symbol(e, s)
    PROVE  Value(e, ty, v) = no
<1> DEFINE Hidden(x) == expr_depends_symbol(x, s) => Value(x, ty, v) = no
           S == {x \in Over(ty) : Hidden(x)}
<1>1. ASSUME NEW x \in Over(ty) \cap Atoms PROVE Hidden(x)
  <2> SUFFICES ASSUME expr_depends_symbol(x, s) PROVE Value(x, ty, v) = no
    OBVIOUS
  <2>1. Value(x, ty, v) = OperandValue(x, ty, v) /\ x \in Exprs
    BY AtomValue DEF Over
  <2>2. v[s].str = "n"
    BY TristateString DEF Tristates, no, mod, yes
  <2>3. x.type \in {"NULL", "SYMBOL"} \cup Relations
    BY AtomShape
  <2>4. CASE x.type = "SYMBOL" /\ x.sym = s
    BY <2>1, <2>4, AtomShape, SymbolValue
  <2>5. CASE x.type = "EQUAL" /\ x.sym = s /\ x.with \in {"y", "m"}
    <3>1. x = CompExpr("EQUAL", s, x.with) /\ x.with \in Tristates
      BY <2>5, AtomShape DEF Relations, Equalities, Tristates
    <3> QED BY <2>1, <2>2, <2>5, <3>1, TristateTest
  <2>6. CASE x.type = "UNEQUAL" /\ x.sym = s /\ x.with = "n"
    <3>1. x = CompExpr("UNEQUAL", s, x.with) /\ x.with \in Tristates
      BY <2>6, AtomShape DEF Relations, Equalities, Tristates
    <3> QED BY <2>1, <2>2, <2>6, <3>1, TristateTest
  <2> QED BY <2>1, <2>3, <2>4, <2>5, <2>6, DependsDef DEF Relations, Equalities
<1>2. \A a \in S : NotExpr(a) \in Over(ty) => NotExpr(a) \in S
  <2> SUFFICES ASSUME NEW a \in S, NotExpr(a) \in Over(ty) PROVE ~expr_depends_symbol(NotExpr(a), s)
    OBVIOUS
  <2> QED BY DependsDef, Selectors DEF Over
<1>3. \A a, b \in S, t \in Connectives : TwoExpr(t, a, b) \in Over(ty) => TwoExpr(t, a, b) \in S
  <2> SUFFICES ASSUME NEW a \in S, NEW b \in S, NEW t \in Connectives, TwoExpr(t, a, b) \in Over(ty),
                      expr_depends_symbol(TwoExpr(t, a, b), s)
               PROVE  Value(TwoExpr(t, a, b), ty, v) = no
    OBVIOUS
  <2>1. TwoExpr(t, a, b) \in Exprs
    BY DEF Over
  <2>2. t = "AND" /\ (expr_depends_symbol(a, s) \/ expr_depends_symbol(b, s))
    BY <2>1, DependsDef, Selectors DEF Connectives
  <2>3. Value(a, ty, v) = no \/ Value(b, ty, v) = no
    BY <2>2
  <2>4. Value(a, ty, v) \in Tri /\ Value(b, ty, v) \in Tri
    BY ValueTri
  <2> QED BY <2>1, <2>2, <2>3, <2>4, TwoValue DEF Op, EXPR_AND, Tri, no, mod, yes
<1> HIDE DEF S
<1>4. Over(ty) \subseteq S
  BY <1>1, <1>2, <1>3, OverInduction DEF S
<1> QED BY <1>4 DEF S

----------------------------------------------------------------------------
\* Where 'm' is worth what 'm' && MODULES is.
WithModules(v, modules) ==
    [s \in DOMAIN v |->
       [str |-> v[s].str,
        tri |-> IF s = "m" THEN EXPR_AND(v["m"].tri, v[modules].tri) ELSE v[s].tri]]

LEMMA RewrittenAtom ==
    ASSUME NEW ty, NEW v, Legal(ty, v), NEW n \in 0..MaxDepth, n < MaxDepth,
           NEW M \in DOMAIN ty \cap Names, NEW e \in Atoms \cap OverAt(ty, n)
    PROVE  /\ rewrite_m(e, M) \in OverAt(ty, n + 1)
           /\ Value(rewrite_m(e, M), ty, v) = Value(e, ty, WithModules(v, M))
<1> DEFINE w == WithModules(v, M)
<1>1. e.type # "NOT" /\ e.type \notin Connectives /\ e \in Exprs
  BY AtomShape, OverLayers DEF Connectives, Relations, Equalities, Over
<1>2. Value(e, ty, v) = OperandValue(e, ty, v) /\ Value(e, ty, w) = OperandValue(e, ty, w)
  BY AtomValue
<1>3. \A s \in DOMAIN ty : w[s].str = v[s].str /\ (s # "m" => w[s].tri = v[s].tri)
  BY DEF WithModules, Legal
<1>4. w["m"].tri = EXPR_AND(v["m"].tri, v[M].tri)
  BY DEF WithModules, Legal, Tristates
<1>5. n + 1 \in 0..MaxDepth /\ e \in OverAt(ty, n + 1)
  BY OverAtAre DEF Connectives
<1> HIDE DEF w
<1>6. CASE IsSymbol(e, "m")
  <2>1. e = SymbolExpr("m")
    BY <1>6, AtomShape DEF IsSymbol
  <2>2. rewrite_m(e, M) = TwoExpr("AND", e, SymbolExpr(M))
    <3>1. rewrite_m(e, M) = expr_alloc_and(e, SymbolExpr(M))
      BY <1>1, <1>6, RewriteMDef
    <3>2. e.type = "SYMBOL" /\ SymbolExpr(M).type = "SYMBOL"
      BY <2>1 DEF SymbolExpr
    <3> QED BY <3>1, <3>2 DEF expr_alloc_and
  <2>3. SymbolExpr(M) \in OverAt(ty, n) /\ Value(SymbolExpr(M), ty, v) = v[M].tri
    BY AtomsOver, OverLayers
  <2>4. rewrite_m(e, M) \in OverAt(ty, n + 1)
    BY <2>2, <2>3, OverAtAre DEF Connectives
  <2>5. Value(rewrite_m(e, M), ty, v) = EXPR_AND(Value(e, ty, v), v[M].tri)
    BY <2>2, <2>3, OverAtValue DEF Connectives, Op
  <2> QED BY <1>2, <1>4, <2>1, <2>4, <2>5, SymbolValue DEF w
<1>7. CASE ~IsSymbol(e, "m")
  <2>1. rewrite_m(e, M) = e
    BY <1>1, <1>7, RewriteMDef
  <2>2. OperandValue(e, ty, w) = OperandValue(e, ty, v)
    <3>1. CASE e = NULL
      BY <3>1 DEF OperandValue, NULL, Relations, Equalities
    <3>2. CASE e.type = "SYMBOL" /\ e.sym \in DOMAIN ty /\ e = SymbolExpr(e.sym)
      BY <1>3, <1>7, <3>2, SymbolValue DEF IsSymbol
    <3>3. CASE /\ e.type \in Relations /\ e.sym \in DOMAIN ty /\ e.with \in DOMAIN ty
               /\ e = CompExpr(e.type, e.sym, e.with)
      BY <1>3, <3>3, CompValue
    <3> QED BY <1>1, <3>1, <3>2, <3>3, OverAtShape, OperandIs
  <2> QED BY <1>2, <1>5, <2>1, <2>2 DEF w
<1> QED BY <1>6, <1>7

\* rewrite_m, which the parser applies to every condition: 'm' is worth n while MODULES is,
\* and nothing else changes.
THEOREM RewriteMSound ==
    ASSUME NEW ty, NEW v, Legal(ty, v), NEW n \in 0..MaxDepth, n < MaxDepth,
           NEW M \in DOMAIN ty \cap Names, NEW e \in OverAt(ty, n)
    PROVE  /\ rewrite_m(e, M) \in OverAt(ty, n + 1)
           /\ Value(rewrite_m(e, M), ty, v) = Value(e, ty, WithModules(v, M))
<1> DEFINE w == WithModules(v, M)
           Keeps(x, m) == /\ rewrite_m(x, M) \in OverAt(ty, m + 1)
                          /\ Value(rewrite_m(x, M), ty, v) = Value(x, ty, w)
           S == [m \in 0..MaxDepth |-> {x \in OverAt(ty, m) : m < MaxDepth => Keeps(x, m)}]
<1>1. ASSUME NEW m \in 0..MaxDepth, m < MaxDepth, NEW x \in Atoms \cap OverAt(ty, m)
      PROVE  Keeps(x, m)
  BY <1>1, RewrittenAtom
<1> HIDE DEF w
<1>2. ASSUME NEW m \in 0..MaxDepth, m < MaxDepth, NEW t \in Connectives,
             NEW a \in OverAt(ty, m), NEW b \in OverAt(ty, m), Keeps(a, m), Keeps(b, m)
      PROVE  NotExpr(a) \in S[m + 1] /\ TwoExpr(t, a, b) \in S[m + 1]
  <2>1. /\ m + 1 \in 0..MaxDepth
        /\ NotExpr(a) \in OverAt(ty, m + 1) /\ NotExpr(a) \in Exprs
        /\ TwoExpr(t, a, b) \in OverAt(ty, m + 1) /\ TwoExpr(t, a, b) \in Exprs
    BY <1>2, OverAtAre DEF Over
  <2>2. /\ Value(NotExpr(a), ty, w) = EXPR_NOT(Value(a, ty, w))
        /\ Value(TwoExpr(t, a, b), ty, w) = Op(t, Value(a, ty, w), Value(b, ty, w))
    BY <1>2, OverAtValue
  <2>3. /\ rewrite_m(NotExpr(a), M) = NotExpr(rewrite_m(a, M))
        /\ rewrite_m(TwoExpr(t, a, b), M) = TwoExpr(t, rewrite_m(a, M), rewrite_m(b, M))
    BY <2>1, RewriteMDef, Selectors
  <2>4. ASSUME m + 1 < MaxDepth
        PROVE  Keeps(NotExpr(a), m + 1) /\ Keeps(TwoExpr(t, a, b), m + 1)
    <3>1. /\ NotExpr(rewrite_m(a, M)) \in OverAt(ty, (m + 1) + 1)
          /\ TwoExpr(t, rewrite_m(a, M), rewrite_m(b, M)) \in OverAt(ty, (m + 1) + 1)
      BY <1>2, <2>1, <2>4, OverAtAre
    <3>2. /\ Value(NotExpr(rewrite_m(a, M)), ty, v) = EXPR_NOT(Value(a, ty, w))
          /\ Value(TwoExpr(t, rewrite_m(a, M), rewrite_m(b, M)), ty, v) =
                 Op(t, Value(a, ty, w), Value(b, ty, w))
      BY <1>2, <2>1, <2>4, OverAtValue
    <3> QED BY <2>2, <2>3, <3>1, <3>2
  <2> QED BY <2>1, <2>4
<1>3. ASSUME NEW m \in 0..MaxDepth, m < MaxDepth, NEW t \in Connectives,
             NEW a \in OverAt(ty, m) \cap S[m], NEW b \in OverAt(ty, m) \cap S[m]
      PROVE  NotExpr(a) \in S[m + 1] /\ TwoExpr(t, a, b) \in S[m + 1]
  <2>1. Keeps(a, m) /\ Keeps(b, m)
    BY <1>3
  <2> QED BY <1>2, <1>3, <2>1
<1>4. \A m \in 0..MaxDepth : Atoms \cap OverAt(ty, m) \subseteq S[m]
  <2> SUFFICES ASSUME NEW m \in 0..MaxDepth, NEW x \in Atoms \cap OverAt(ty, m) PROVE x \in S[m]
    OBVIOUS
  <2> QED BY <1>1
<1>5. S[n] = {x \in OverAt(ty, n) : n < MaxDepth => Keeps(x, n)}
  OBVIOUS
<1> HIDE DEF S, Keeps
<1>6. OverAt(ty, n) \subseteq S[n]
  BY <1>3, <1>4, OverAtInduction
<1> QED BY <1>5, <1>6 DEF Keeps, w

(***************************************************************************)
(* Equality, and operands common to two conditions.                        *)
(***************************************************************************)
\* What EliminateOne and __expr_eliminate_eq make of a chain follows from what they make of
\* its two sides.
LEMMA EliminateOneDef ==
    ASSUME NEW type \in Connectives, NEW equal, NEW x \in Exprs, NEW y \in Exprs
    PROVE  /\ y.type = type =>
                 \E l, r : /\ l = EliminateOne(type, x, y.left, equal)
                           /\ r = EliminateOne(type, l[1], y.right, equal)
                           /\ EliminateOne(type, x, y, equal) = <<r[1], TwoExpr(type, l[2], r[2])>>
           /\ y.type # type =>
                 EliminateOne(type, x, y, equal) \in {<<x, y>>} \cup
                     IF equal[x][y] THEN {<<Neutral(type), Neutral(type)>>} ELSE {}
<1> DEFINE IsConstant(z) == z.type = "SYMBOL" /\ z.sym \in {"y", "n"}
           Pair(f, z, o) ==
               IF z.type = type
               THEN LET l == f[z.left][o]
                        r == f[z.right][l[1]]
                    IN <<r[1], TwoExpr(type, l[2], r[2])>>
               ELSE IF equal[o][z] /\ ~IsConstant(o) THEN <<Neutral(type), Neutral(type)>>
               ELSE <<o, z>>
           Body(f, z) == [o \in Exprs |-> Pair(f, z, o)]
           S == {n \in 0..MaxDepth + 1 : \E f : f = [z \in Below(n) |-> Body(f, z)]}
<1>1. ASSUME NEW f, NEW g, NEW E, NEW z, PartsIn(z, E), \A u \in E : f[u] = g[u]
      PROVE  Body(f, z) = Body(g, z)
  <2>1. CASE z.type = type
    <3>1. f[z.left] = g[z.left] /\ f[z.right] = g[z.right]
      BY <1>1, <2>1, AtomShape DEF PartsIn, Connectives, Relations, Equalities
    <3> QED BY <3>1
  <2>2. CASE z.type # type
    BY <2>2
  <2> QED BY <2>1, <2>2
<1>2. \A f, z, o : o \in Exprs => Body(f, z)[o] = Pair(f, z, o)
  OBVIOUS
<1> HIDE DEF Body
<1>3. ASSUME NEW n \in 0..MaxDepth, n \in S PROVE n + 1 \in S
  <2>1. PICK f : f = [z \in Below(n) |-> Body(f, z)]
    BY <1>3
  <2> DEFINE g == [z \in Below(n + 1) |-> Body(f, z)]
  <2>2. \A u \in Below(n) : g[u] = f[u]
    BY <2>1, BelowShape
  <2>3. \A z \in Below(n + 1) : Body(g, z) = Body(f, z)
    BY <1>1, <2>2, BelowShape
  <2>4. g = [z \in Below(n + 1) |-> Body(g, z)]
    BY <2>3
  <2>5. n + 1 \in 0..MaxDepth + 1
    BY DepthAssumption
  <2> QED BY <2>4, <2>5
<1>4. 0 \in S
  <2>1. \E f : f = [z \in Below(0) |-> Body(f, z)]
    BY DEF Below
  <2> QED BY <2>1, DepthAssumption
<1>5. \E f : f = [z \in Exprs |-> Body(f, z)]
  <2> HIDE DEF S
  <2>1. MaxDepth + 1 \in S
    BY <1>3, <1>4, LayerInduction
  <2> QED BY <2>1, BelowShape DEF S
<1> DEFINE eliminated == CHOOSE f : f = [z \in Exprs |-> Body(f, z)]
<1>6. eliminated = [z \in Exprs |-> Body(eliminated, z)]
  BY <1>5
<1>7. \A o, z : EliminateOne(type, o, z, equal) = eliminated[z][o]
  BY DEF EliminateOne, Body
<1> HIDE DEF eliminated
<1>8. eliminated[y] = Body(eliminated, y)
  BY <1>6
<1> HIDE DEF Pair
<1>9. EliminateOne(type, x, y, equal) = Pair(eliminated, y, x)
  BY <1>2, <1>7, <1>8
<1>10. CASE y.type = type
  <2> DEFINE l == EliminateOne(type, x, y.left, equal)
             r == EliminateOne(type, l[1], y.right, equal)
  <2>1. l = eliminated[y.left][x] /\ r = eliminated[y.right][l[1]]
    BY <1>7
  <2> HIDE DEF l, r
  <2>2. Pair(eliminated, y, x) = <<r[1], TwoExpr(type, l[2], r[2])>>
    BY <1>10, <2>1 DEF Pair
  <2> QED BY <1>9, <1>10, <2>2 DEF l, r
<1>11. CASE y.type # type
  BY <1>9, <1>11 DEF Pair
<1> QED BY <1>10, <1>11

LEMMA EliminateOneInChain ==
    ASSUME NEW t \in Connectives, NEW equal, NEW x \in Exprs, NEW y \in Exprs, y.type = t
    PROVE  \E l, r : /\ l = EliminateOne(t, x, y.left, equal)
                     /\ r = EliminateOne(t, l[1], y.right, equal)
                     /\ EliminateOne(t, x, y, equal) = <<r[1], TwoExpr(t, l[2], r[2])>>
  BY EliminateOneDef

LEMMA EliminateChainDef ==
    ASSUME NEW type \in Connectives, NEW equal, NEW x \in Exprs, NEW y \in Exprs
    PROVE  /\ x.type = type =>
                 \E l, r : /\ l = __expr_eliminate_eq(type, x.left, y, equal)
                           /\ r = __expr_eliminate_eq(type, x.right, l[2], equal)
                           /\ __expr_eliminate_eq(type, x, y, equal) =
                                  <<TwoExpr(type, l[1], r[1]), r[2]>>
           /\ x.type # type =>
                 __expr_eliminate_eq(type, x, y, equal) = EliminateOne(type, x, y, equal)
<1> DEFINE Pair(f, z, o) ==
               IF z.type = type
               THEN LET l == f[z.left][o]
                        r == f[z.right][l[2]]
                    IN <<TwoExpr(type, l[1], r[1]), r[2]>>
               ELSE EliminateOne(type, z, o, equal)
           Body(f, z) == [o \in Exprs |-> Pair(f, z, o)]
           S == {n \in 0..MaxDepth + 1 : \E f : f = [z \in Below(n) |-> Body(f, z)]}
<1>1. ASSUME NEW f, NEW g, NEW E, NEW z, PartsIn(z, E), \A u \in E : f[u] = g[u]
      PROVE  Body(f, z) = Body(g, z)
  <2>1. CASE z.type = type
    <3>1. f[z.left] = g[z.left] /\ f[z.right] = g[z.right]
      BY <1>1, <2>1, AtomShape DEF PartsIn, Connectives, Relations, Equalities
    <3> QED BY <3>1
  <2>2. CASE z.type # type
    BY <2>2
  <2> QED BY <2>1, <2>2
<1>2. \A f, z, o : o \in Exprs => Body(f, z)[o] = Pair(f, z, o)
  OBVIOUS
<1> HIDE DEF Body
<1>3. ASSUME NEW n \in 0..MaxDepth, n \in S PROVE n + 1 \in S
  <2>1. PICK f : f = [z \in Below(n) |-> Body(f, z)]
    BY <1>3
  <2> DEFINE g == [z \in Below(n + 1) |-> Body(f, z)]
  <2>2. \A u \in Below(n) : g[u] = f[u]
    BY <2>1, BelowShape
  <2>3. \A z \in Below(n + 1) : Body(g, z) = Body(f, z)
    BY <1>1, <2>2, BelowShape
  <2>4. g = [z \in Below(n + 1) |-> Body(g, z)]
    BY <2>3
  <2>5. n + 1 \in 0..MaxDepth + 1
    BY DepthAssumption
  <2> QED BY <2>4, <2>5
<1>4. 0 \in S
  <2>1. \E f : f = [z \in Below(0) |-> Body(f, z)]
    BY DEF Below
  <2> QED BY <2>1, DepthAssumption
<1>5. \E f : f = [z \in Exprs |-> Body(f, z)]
  <2> HIDE DEF S
  <2>1. MaxDepth + 1 \in S
    BY <1>3, <1>4, LayerInduction
  <2> QED BY <2>1, BelowShape DEF S
<1> DEFINE eliminated == CHOOSE f : f = [z \in Exprs |-> Body(f, z)]
<1>6. eliminated = [z \in Exprs |-> Body(eliminated, z)]
  BY <1>5
<1>7. \A z, o : __expr_eliminate_eq(type, z, o, equal) = eliminated[z][o]
  BY DEF __expr_eliminate_eq, Body
<1> HIDE DEF eliminated
<1>8. eliminated[x] = Body(eliminated, x)
  BY <1>6
<1> HIDE DEF Pair
<1>9. __expr_eliminate_eq(type, x, y, equal) = Pair(eliminated, x, y)
  BY <1>2, <1>7, <1>8
<1>10. CASE x.type = type
  <2> DEFINE l == __expr_eliminate_eq(type, x.left, y, equal)
             r == __expr_eliminate_eq(type, x.right, l[2], equal)
  <2>1. l = eliminated[x.left][y] /\ r = eliminated[x.right][l[2]]
    BY <1>7
  <2> HIDE DEF l, r
  <2>2. Pair(eliminated, x, y) = <<TwoExpr(type, l[1], r[1]), r[2]>>
    BY <1>10, <2>1 DEF Pair
  <2> QED BY <1>9, <1>10, <2>2 DEF l, r
<1>11. CASE x.type # type
  BY <1>9, <1>11 DEF Pair
<1> QED BY <1>10, <1>11

\* Two values that share what is eliminated from both.
Shares(t, a, b, a2, b2) == \E c \in Tri : a = Op(t, c, a2) /\ b = Op(t, c, b2)

LEMMA OpAlgebra ==
    ASSUME NEW t \in Connectives, NEW a \in Tri, NEW b \in Tri, NEW c \in Tri
    PROVE  /\ Op(t, a, b) = Op(t, b, a) /\ Op(t, a, a) = a
           /\ Op(t, a, Op(t, b, c)) = Op(t, Op(t, a, b), c)
           /\ a <= b => Op(t, c, a) <= Op(t, c, b)
           /\ Op(t, IF t = "AND" THEN yes ELSE no, a) = a
           /\ Op(t, a, IF t = "AND" THEN yes ELSE no) = a
  BY DEF Connectives, Op, Tri, EXPR_AND, EXPR_OR, no, mod, yes

LEMMA SharesBoth ==
    ASSUME NEW t \in Connectives, NEW x \in Tri, NEW y1 \in Tri, NEW y2 \in Tri,
           NEW l1 \in Tri, NEW l2 \in Tri, NEW r1 \in Tri, NEW r2 \in Tri,
           Shares(t, x, y1, l1, l2), Shares(t, l1, y2, r1, r2)
    PROVE  Shares(t, x, Op(t, y1, y2), r1, Op(t, l2, r2))
<1>1. PICK c \in Tri : x = Op(t, c, l1) /\ y1 = Op(t, c, l2)
  BY DEF Shares
<1>2. PICK d \in Tri : l1 = Op(t, d, r1) /\ y2 = Op(t, d, r2)
  BY DEF Shares
<1>3. Op(t, c, d) \in Tri
  BY OpTri
<1>4. x = Op(t, Op(t, c, d), r1)
  BY <1>1, <1>2, OpAlgebra
<1>5. Op(t, y1, y2) = Op(t, Op(t, c, d), Op(t, l2, r2))
  BY <1>1, <1>2 DEF Connectives, Op, Tri, EXPR_AND, EXPR_OR, no, mod, yes
<1> QED BY <1>3, <1>4, <1>5 DEF Shares

LEMMA SharesSwap ==
    ASSUME NEW t, NEW a, NEW b, NEW a2, NEW b2
    PROVE  Shares(t, a, b, a2, b2) <=> Shares(t, b, a, b2, a2)
  BY DEF Shares

LEMMA SharesOrder ==
    ASSUME NEW t \in Connectives, NEW a, NEW b, NEW a2 \in Tri, NEW b2 \in Tri,
           Shares(t, a, b, a2, b2)
    PROVE  (a2 <= b2 => a <= b) /\ (b2 <= a2 => b <= a)
  BY OpAlgebra DEF Shares

\* The pair p that is left of x and y, which nest at most n and m deep: it nests no deeper,
\* and x and y share what is gone.
Kept(ty, v, t, n, x, m, y, p) ==
    /\ p[1] \in OverAt(ty, n) /\ p[2] \in OverAt(ty, m)
    /\ Shares(t, Value(x, ty, v), Value(y, ty, v), Value(p[1], ty, v), Value(p[2], ty, v))

EqualsOnly(ty, v, equal) ==
    \A a, b \in Over(ty) : equal[a][b] => Value(a, ty, v) = Value(b, ty, v)

LEMMA NeutralIs ==
    ASSUME NEW ty, NEW v, Legal(ty, v), NEW t \in Connectives, NEW n \in 0..MaxDepth
    PROVE  /\ Neutral(t) \in OverAt(ty, n)
           /\ Value(Neutral(t), ty, v) = IF t = "AND" THEN yes ELSE no
<1>1. CASE t = "AND"
  <2>1. Neutral(t) = SymbolExpr("y")
    BY <1>1 DEF Neutral
  <2>2. SymbolExpr("y") \in Atoms \cap Over(ty) /\ Value(SymbolExpr("y"), ty, v) = yes
    BY ConstantValue DEF Tristates
  <2> QED BY <1>1, <2>1, <2>2, OverLayers
<1>2. CASE t = "OR"
  <2>1. Neutral(t) = SymbolExpr("n")
    BY <1>2 DEF Neutral
  <2>2. SymbolExpr("n") \in Atoms \cap Over(ty) /\ Value(SymbolExpr("n"), ty, v) = no
    BY ConstantValue DEF Tristates
  <2> QED BY <1>2, <2>1, <2>2, OverLayers
<1> QED BY <1>1, <1>2 DEF Connectives

\* One operand against one operand: they stay, or both are gone.
LEMMA OperandsKept ==
    ASSUME NEW ty, NEW v, Legal(ty, v), NEW equal, EqualsOnly(ty, v, equal), NEW t \in Connectives,
           NEW n \in 0..MaxDepth, NEW x \in OverAt(ty, n), NEW m \in 0..MaxDepth, NEW y \in OverAt(ty, m),
           y.type # t
    PROVE  Kept(ty, v, t, n, x, m, y, EliminateOne(t, x, y, equal))
<1>1. x \in Over(ty) /\ y \in Over(ty) /\ x \in Exprs /\ y \in Exprs
  BY OverLayers DEF Over
<1>2. Value(x, ty, v) \in Tri /\ Value(y, ty, v) \in Tri
  BY <1>1, ValueTri
<1>3. CASE EliminateOne(t, x, y, equal) = <<x, y>>
  <2>1. (IF t = "AND" THEN yes ELSE no) \in Tri
    BY DEF Tri
  <2>2. Shares(t, Value(x, ty, v), Value(y, ty, v), Value(x, ty, v), Value(y, ty, v))
    BY <1>2, <2>1, OpAlgebra DEF Shares
  <2> QED BY <1>3, <2>2 DEF Kept
<1>4. CASE equal[x][y] /\ EliminateOne(t, x, y, equal) = <<Neutral(t), Neutral(t)>>
  <2>1. Value(x, ty, v) = Value(y, ty, v)
    BY <1>1, <1>4 DEF EqualsOnly
  <2>2. /\ Neutral(t) \in OverAt(ty, n) /\ Neutral(t) \in OverAt(ty, m)
        /\ Value(Neutral(t), ty, v) = IF t = "AND" THEN yes ELSE no
    BY NeutralIs
  <2>3. Value(x, ty, v) = Op(t, Value(x, ty, v), Value(Neutral(t), ty, v))
    BY <1>2, <2>2, OpAlgebra
  <2>4. Shares(t, Value(x, ty, v), Value(y, ty, v), Value(Neutral(t), ty, v), Value(Neutral(t), ty, v))
    BY <1>2, <2>1, <2>3 DEF Shares
  <2> QED BY <1>4, <2>2, <2>4 DEF Kept
<1>5. EliminateOne(t, x, y, equal) \in
          {<<x, y>>} \cup IF equal[x][y] THEN {<<Neutral(t), Neutral(t)>>} ELSE {}
  BY <1>1, EliminateOneDef
<1> QED BY <1>3, <1>4, <1>5

LEMMA OneKept ==
    ASSUME NEW ty, NEW v, Legal(ty, v), NEW equal, EqualsOnly(ty, v, equal), NEW t \in Connectives,
           NEW n \in 0..MaxDepth, NEW x \in OverAt(ty, n), NEW m \in 0..MaxDepth, NEW y \in OverAt(ty, m)
    PROVE  Kept(ty, v, t, n, x, m, y, EliminateOne(t, x, y, equal))
<1> DEFINE Good(z, k) == \A u \in OverAt(ty, n) :
                             Kept(ty, v, t, n, u, k, z, EliminateOne(t, u, z, equal))
           S == [k \in 0..MaxDepth |-> {z \in OverAt(ty, k) : Good(z, k)}]
<1>1. ASSUME NEW k \in 0..MaxDepth, NEW z \in OverAt(ty, k), z.type # t PROVE Good(z, k)
  BY <1>1, OperandsKept
<1>2. ASSUME NEW k \in 0..MaxDepth, k < MaxDepth, NEW a \in OverAt(ty, k), NEW b \in OverAt(ty, k),
             Good(a, k), Good(b, k)
      PROVE  Good(TwoExpr(t, a, b), k + 1)
  <2> SUFFICES ASSUME NEW u \in OverAt(ty, n)
               PROVE  Kept(ty, v, t, n, u, k + 1, TwoExpr(t, a, b), EliminateOne(t, u, TwoExpr(t, a, b), equal))
    OBVIOUS
  <2> DEFINE z == TwoExpr(t, a, b)
  <2>1. z \in Exprs /\ u \in Exprs
    BY <1>2, OverAtAre, OverLayers DEF Over
  <2>2. z.type = t /\ z.left = a /\ z.right = b
    BY Selectors
  <2>3. Value(z, ty, v) = Op(t, Value(a, ty, v), Value(b, ty, v))
    BY <1>2, OverAtValue
  <2> HIDE DEF z
  <2>4. PICK l, r : /\ l = EliminateOne(t, u, a, equal)
                    /\ r = EliminateOne(t, l[1], b, equal)
                    /\ EliminateOne(t, u, z, equal) = <<r[1], TwoExpr(t, l[2], r[2])>>
    <3>1. \E l, r : /\ l = EliminateOne(t, u, z.left, equal)
                    /\ r = EliminateOne(t, l[1], z.right, equal)
                    /\ EliminateOne(t, u, z, equal) = <<r[1], TwoExpr(t, l[2], r[2])>>
      BY <2>1, <2>2, EliminateOneInChain
    <3> QED BY <2>2, <3>1
  <2>5. Kept(ty, v, t, n, u, k, a, l)
    BY <1>2, <2>4
  <2>6. l[1] \in OverAt(ty, n) /\ l[2] \in OverAt(ty, k)
    BY <2>5 DEF Kept
  <2>7. Kept(ty, v, t, n, l[1], k, b, r)
    BY <1>2, <2>4, <2>6
  <2>8. r[1] \in OverAt(ty, n) /\ r[2] \in OverAt(ty, k)
    BY <2>7 DEF Kept
  <2>9. TwoExpr(t, l[2], r[2]) \in OverAt(ty, k + 1)
    BY <1>2, <2>6, <2>8, OverAtAre
  <2>10. Value(TwoExpr(t, l[2], r[2]), ty, v) = Op(t, Value(l[2], ty, v), Value(r[2], ty, v))
    BY <1>2, <2>6, <2>8, OverAtValue
  <2>11. /\ Value(u, ty, v) \in Tri /\ Value(a, ty, v) \in Tri /\ Value(b, ty, v) \in Tri
         /\ Value(l[1], ty, v) \in Tri /\ Value(l[2], ty, v) \in Tri
         /\ Value(r[1], ty, v) \in Tri /\ Value(r[2], ty, v) \in Tri
    BY <1>2, <2>6, <2>8, OverLayers, ValueTri
  <2>12. Shares(t, Value(u, ty, v), Value(z, ty, v), Value(r[1], ty, v),
                Op(t, Value(l[2], ty, v), Value(r[2], ty, v)))
    <3>1. /\ Shares(t, Value(u, ty, v), Value(a, ty, v), Value(l[1], ty, v), Value(l[2], ty, v))
          /\ Shares(t, Value(l[1], ty, v), Value(b, ty, v), Value(r[1], ty, v), Value(r[2], ty, v))
      BY <2>5, <2>7 DEF Kept
    <3>2. Shares(t, Value(u, ty, v), Op(t, Value(a, ty, v), Value(b, ty, v)), Value(r[1], ty, v),
                 Op(t, Value(l[2], ty, v), Value(r[2], ty, v)))
      BY <2>11, <3>1, SharesBoth
    <3> QED BY <2>3, <3>2
  <2>13. Kept(ty, v, t, n, u, k + 1, z, <<r[1], TwoExpr(t, l[2], r[2])>>)
    BY <2>8, <2>9, <2>10, <2>12 DEF Kept
  <2> QED BY <2>4, <2>13 DEF z
<1> HIDE DEF Good
<1>3. ASSUME NEW k \in 0..MaxDepth, k < MaxDepth, NEW s \in Connectives,
             NEW a \in OverAt(ty, k) \cap S[k], NEW b \in OverAt(ty, k) \cap S[k]
      PROVE  NotExpr(a) \in S[k + 1] /\ TwoExpr(s, a, b) \in S[k + 1]
  <2>1. /\ k + 1 \in 0..MaxDepth
        /\ NotExpr(a) \in OverAt(ty, k + 1) /\ TwoExpr(s, a, b) \in OverAt(ty, k + 1)
    BY <1>3, OverAtAre
  <2>2. Good(NotExpr(a), k + 1)
    <3>1. NotExpr(a).type # t
      BY Selectors DEF Connectives
    <3> QED BY <1>1, <2>1, <3>1
  <2>3. Good(TwoExpr(s, a, b), k + 1)
    <3>1. CASE s = t
      BY <1>2, <1>3, <3>1
    <3>2. CASE s # t
      <4>1. TwoExpr(s, a, b).type # t
        BY <3>2, Selectors
      <4> QED BY <1>1, <2>1, <4>1
    <3> QED BY <3>1, <3>2
  <2> QED BY <2>1, <2>2, <2>3
<1>4. \A k \in 0..MaxDepth : Atoms \cap OverAt(ty, k) \subseteq S[k]
  <2> SUFFICES ASSUME NEW k \in 0..MaxDepth, NEW z \in Atoms \cap OverAt(ty, k) PROVE Good(z, k)
    OBVIOUS
  <2>1. z.type # t
    BY AtomShape DEF Connectives, Relations, Equalities
  <2> QED BY <1>1, <2>1
<1>5. S[m] = {z \in OverAt(ty, m) : Good(z, m)}
  OBVIOUS
<1> HIDE DEF S
<1>6. OverAt(ty, m) \subseteq S[m]
  BY <1>3, <1>4, OverAtInduction
<1> QED BY <1>5, <1>6 DEF Good

LEMMA ChainKept ==
    ASSUME NEW ty, NEW v, Legal(ty, v), NEW equal, EqualsOnly(ty, v, equal), NEW t \in Connectives,
           NEW n \in 0..MaxDepth, NEW x \in OverAt(ty, n), NEW m \in 0..MaxDepth, NEW y \in OverAt(ty, m)
    PROVE  Kept(ty, v, t, n, x, m, y, __expr_eliminate_eq(t, x, y, equal))
<1> DEFINE Good(z, k) == \A u \in OverAt(ty, m) :
                             Kept(ty, v, t, k, z, m, u, __expr_eliminate_eq(t, z, u, equal))
           S == [k \in 0..MaxDepth |-> {z \in OverAt(ty, k) : Good(z, k)}]
<1>1. ASSUME NEW k \in 0..MaxDepth, NEW z \in OverAt(ty, k), z.type # t PROVE Good(z, k)
  <2> SUFFICES ASSUME NEW u \in OverAt(ty, m)
               PROVE  Kept(ty, v, t, k, z, m, u, __expr_eliminate_eq(t, z, u, equal))
    OBVIOUS
  <2>1. z \in Exprs /\ u \in Exprs
    BY OverLayers DEF Over
  <2>2. __expr_eliminate_eq(t, z, u, equal) = EliminateOne(t, z, u, equal)
    BY <1>1, <2>1, EliminateChainDef
  <2> QED BY <2>2, OneKept
<1>2. ASSUME NEW k \in 0..MaxDepth, k < MaxDepth, NEW a \in OverAt(ty, k), NEW b \in OverAt(ty, k),
             Good(a, k), Good(b, k)
      PROVE  Good(TwoExpr(t, a, b), k + 1)
  <2> SUFFICES ASSUME NEW u \in OverAt(ty, m)
               PROVE  Kept(ty, v, t, k + 1, TwoExpr(t, a, b), m, u,
                           __expr_eliminate_eq(t, TwoExpr(t, a, b), u, equal))
    OBVIOUS
  <2> DEFINE z == TwoExpr(t, a, b)
  <2>1. z \in Exprs /\ u \in Exprs
    BY <1>2, OverAtAre, OverLayers DEF Over
  <2>2. z.type = t /\ z.left = a /\ z.right = b
    BY Selectors
  <2>3. Value(z, ty, v) = Op(t, Value(a, ty, v), Value(b, ty, v))
    BY <1>2, OverAtValue
  <2> HIDE DEF z
  <2>4. PICK l, r : /\ l = __expr_eliminate_eq(t, a, u, equal)
                    /\ r = __expr_eliminate_eq(t, b, l[2], equal)
                    /\ __expr_eliminate_eq(t, z, u, equal) = <<TwoExpr(t, l[1], r[1]), r[2]>>
    BY <2>1, <2>2, EliminateChainDef
  <2>5. Kept(ty, v, t, k, a, m, u, l)
    BY <1>2, <2>4
  <2>6. l[1] \in OverAt(ty, k) /\ l[2] \in OverAt(ty, m)
    BY <2>5 DEF Kept
  <2>7. Kept(ty, v, t, k, b, m, l[2], r)
    BY <1>2, <2>4, <2>6
  <2>8. r[1] \in OverAt(ty, k) /\ r[2] \in OverAt(ty, m)
    BY <2>7 DEF Kept
  <2>9. TwoExpr(t, l[1], r[1]) \in OverAt(ty, k + 1)
    BY <1>2, <2>6, <2>8, OverAtAre
  <2>10. Value(TwoExpr(t, l[1], r[1]), ty, v) = Op(t, Value(l[1], ty, v), Value(r[1], ty, v))
    BY <1>2, <2>6, <2>8, OverAtValue
  <2>11. /\ Value(u, ty, v) \in Tri /\ Value(a, ty, v) \in Tri /\ Value(b, ty, v) \in Tri
         /\ Value(l[1], ty, v) \in Tri /\ Value(l[2], ty, v) \in Tri
         /\ Value(r[1], ty, v) \in Tri /\ Value(r[2], ty, v) \in Tri
    BY <1>2, <2>6, <2>8, OverLayers, ValueTri
  <2>12. Shares(t, Value(u, ty, v), Value(a, ty, v), Value(l[2], ty, v), Value(l[1], ty, v))
    BY <2>5, SharesSwap DEF Kept
  <2>13. Shares(t, Value(l[2], ty, v), Value(b, ty, v), Value(r[2], ty, v), Value(r[1], ty, v))
    BY <2>7, SharesSwap DEF Kept
  <2>14. Shares(t, Value(u, ty, v), Value(z, ty, v), Value(r[2], ty, v),
                Op(t, Value(l[1], ty, v), Value(r[1], ty, v)))
    <3>1. Shares(t, Value(u, ty, v), Op(t, Value(a, ty, v), Value(b, ty, v)), Value(r[2], ty, v),
                 Op(t, Value(l[1], ty, v), Value(r[1], ty, v)))
      BY <2>11, <2>12, <2>13, SharesBoth
    <3> QED BY <2>3, <3>1
  <2>15. Shares(t, Value(z, ty, v), Value(u, ty, v),
                Op(t, Value(l[1], ty, v), Value(r[1], ty, v)), Value(r[2], ty, v))
    BY <2>14, SharesSwap
  <2>16. Kept(ty, v, t, k + 1, z, m, u, <<TwoExpr(t, l[1], r[1]), r[2]>>)
    BY <2>8, <2>9, <2>10, <2>15 DEF Kept
  <2> QED BY <2>4, <2>16 DEF z
<1> HIDE DEF Good
<1>3. ASSUME NEW k \in 0..MaxDepth, k < MaxDepth, NEW s \in Connectives,
             NEW a \in OverAt(ty, k) \cap S[k], NEW b \in OverAt(ty, k) \cap S[k]
      PROVE  NotExpr(a) \in S[k + 1] /\ TwoExpr(s, a, b) \in S[k + 1]
  <2>1. /\ k + 1 \in 0..MaxDepth
        /\ NotExpr(a) \in OverAt(ty, k + 1) /\ TwoExpr(s, a, b) \in OverAt(ty, k + 1)
    BY <1>3, OverAtAre
  <2>2. Good(NotExpr(a), k + 1)
    <3>1. NotExpr(a).type # t
      BY Selectors DEF Connectives
    <3> QED BY <1>1, <2>1, <3>1
  <2>3. Good(TwoExpr(s, a, b), k + 1)
    <3>1. CASE s = t
      BY <1>2, <1>3, <3>1
    <3>2. CASE s # t
      <4>1. TwoExpr(s, a, b).type # t
        BY <3>2, Selectors
      <4> QED BY <1>1, <2>1, <4>1
    <3> QED BY <3>1, <3>2
  <2> QED BY <2>1, <2>2, <2>3
<1>4. \A k \in 0..MaxDepth : Atoms \cap OverAt(ty, k) \subseteq S[k]
  <2> SUFFICES ASSUME NEW k \in 0..MaxDepth, NEW z \in Atoms \cap OverAt(ty, k) PROVE Good(z, k)
    OBVIOUS
  <2>1. z.type # t
    BY AtomShape DEF Connectives, Relations, Equalities
  <2> QED BY <1>1, <2>1
<1>5. S[n] = {z \in OverAt(ty, n) : Good(z, n)}
  OBVIOUS
<1> HIDE DEF S
<1>6. OverAt(ty, n) \subseteq S[n]
  BY <1>3, <1>4, OverAtInduction
<1> QED BY <1>5, <1>6 DEF Good

\* a and b are in the order that what is left of them is in.
Ordered(a, b, a2, b2) == (a2 <= b2 => a <= b) /\ (b2 <= a2 => b <= a)

LEMMA OneChainKept ==
    ASSUME NEW ty, NEW v, Legal(ty, v), NEW equal, EqualsOnly(ty, v, equal), NEW t,
           NEW n \in 0..MaxDepth, NEW x \in OverAt(ty, n), NEW m \in 0..MaxDepth, NEW y \in OverAt(ty, m),
           NEW p, p = IF t \in Connectives THEN __expr_eliminate_eq(t, x, y, equal) ELSE <<x, y>>
    PROVE  /\ p[1] \in OverAt(ty, n) /\ p[2] \in OverAt(ty, m)
           /\ Ordered(Value(x, ty, v), Value(y, ty, v), Value(p[1], ty, v), Value(p[2], ty, v))
<1>1. CASE t \in Connectives
  <2>1. Kept(ty, v, t, n, x, m, y, p)
    BY <1>1, ChainKept
  <2>2. p[1] \in OverAt(ty, n) /\ p[2] \in OverAt(ty, m)
    BY <2>1 DEF Kept
  <2>3. Value(p[1], ty, v) \in Tri /\ Value(p[2], ty, v) \in Tri
    BY <2>2, OverLayers, ValueTri
  <2>4. Shares(t, Value(x, ty, v), Value(y, ty, v), Value(p[1], ty, v), Value(p[2], ty, v))
    BY <2>1 DEF Kept
  <2>5. /\ Value(p[1], ty, v) <= Value(p[2], ty, v) => Value(x, ty, v) <= Value(y, ty, v)
        /\ Value(p[2], ty, v) <= Value(p[1], ty, v) => Value(y, ty, v) <= Value(x, ty, v)
    BY <1>1, <2>3, <2>4, SharesOrder
  <2> QED BY <2>2, <2>5 DEF Ordered
<1>2. CASE t \notin Connectives
  BY <1>2 DEF Ordered
<1> QED BY <1>1, <1>2

LEMMA EliminateEqKept ==
    ASSUME NEW ty, NEW v, Legal(ty, v), NEW equal, EqualsOnly(ty, v, equal),
           NEW n \in 0..MaxDepth, NEW x \in OverAt(ty, n), NEW m \in 0..MaxDepth, NEW y \in OverAt(ty, m),
           NEW r, r = EliminateEq(x, y, equal)
    PROVE  /\ r[1] \in OverAt(ty, n) /\ r[2] \in OverAt(ty, m)
           /\ Ordered(Value(x, ty, v), Value(y, ty, v), Value(r[1], ty, v), Value(r[2], ty, v))
<1> DEFINE p == IF x.type \in Connectives THEN __expr_eliminate_eq(x.type, x, y, equal) ELSE <<x, y>>
           s == IF p[2].type \in Connectives
                THEN __expr_eliminate_eq(p[2].type, p[1], p[2], equal) ELSE <<p[1], p[2]>>
           q == IF p[1].type # p[2].type THEN s ELSE p
<1>1. r = IF "NULL" \in {x.type, y.type} THEN <<x, y>>
          ELSE <<expr_eliminate_yn(q[1]), expr_eliminate_yn(q[2])>>
  <2>1. r = IF "NULL" \in {x.type, y.type} THEN <<x, y>>
            ELSE LET u == IF p[2].type \in Connectives
                          THEN __expr_eliminate_eq(p[2].type, p[1], p[2], equal) ELSE p
                     w == IF p[1].type # p[2].type THEN u ELSE p
                 IN <<expr_eliminate_yn(w[1]), expr_eliminate_yn(w[2])>>
    BY DEF EliminateEq, Cleared, EliminateOther, EliminateChain
  <2> HIDE DEF p
  <2> QED BY <2>1
<1>2. /\ p[1] \in OverAt(ty, n) /\ p[2] \in OverAt(ty, m)
      /\ Ordered(Value(x, ty, v), Value(y, ty, v), Value(p[1], ty, v), Value(p[2], ty, v))
  BY OneChainKept
<1> HIDE DEF p
<1> DEFINE t == p[2].type
<1>8. s = IF t \in Connectives THEN __expr_eliminate_eq(t, p[1], p[2], equal) ELSE <<p[1], p[2]>>
  OBVIOUS
<1> HIDE DEF s, t
<1>3. /\ s[1] \in OverAt(ty, n) /\ s[2] \in OverAt(ty, m)
      /\ Ordered(Value(p[1], ty, v), Value(p[2], ty, v), Value(s[1], ty, v), Value(s[2], ty, v))
  BY <1>2, <1>8, OneChainKept
<1>4. q \in {p, s}
  OBVIOUS
<1> HIDE DEF q
<1>5. /\ q[1] \in OverAt(ty, n) /\ q[2] \in OverAt(ty, m)
      /\ Ordered(Value(x, ty, v), Value(y, ty, v), Value(q[1], ty, v), Value(q[2], ty, v))
  BY <1>2, <1>3, <1>4 DEF Ordered
<1>6. CASE r = <<x, y>>
  BY <1>6 DEF Ordered
<1>7. CASE r = <<expr_eliminate_yn(q[1]), expr_eliminate_yn(q[2])>>
  <2>1. /\ expr_eliminate_yn(q[1]) \in OverAt(ty, n) /\ expr_eliminate_yn(q[2]) \in OverAt(ty, m)
        /\ Value(expr_eliminate_yn(q[1]), ty, v) = Value(q[1], ty, v)
        /\ Value(expr_eliminate_yn(q[2]), ty, v) = Value(q[2], ty, v)
    BY <1>5, EliminateYnSound
  <2> QED BY <1>5, <1>7, <2>1
<1> QED BY <1>1, <1>6, <1>7

LEMMA EqualDef ==
    ASSUME NEW n \in 0..MaxDepth, NEW x \in Exprs, NEW y \in Exprs, Equal[n][x][y]
    PROVE  /\ x.type = y.type
           /\ \/ x.type \in Relations /\ x.sym = y.sym /\ x.with = y.with
              \/ x.type = "SYMBOL" /\ x.sym = y.sym
              \/ x.type = "NOT" /\ n > 0 /\ Equal[n - 1][x.arg][y.arg]
              \/ /\ x.type \in Connectives /\ n > 0
                 /\ \E r : /\ r = EliminateEq(x, y, Equal[n - 1])
                           /\ r[1].type = "SYMBOL" /\ IsSymbol(r[2], r[1].sym)
<1> DEFINE Same(E, k, a, b) ==
               /\ a.type = b.type
               /\ CASE a.type \in Relations -> a.sym = b.sym /\ a.with = b.with
                    [] a.type = "SYMBOL" -> a.sym = b.sym
                    [] a.type = "NOT" /\ k > 0 -> E[a.arg][b.arg]
                    [] a.type \in Connectives /\ k > 0 ->
                         LET r == EliminateEq(a, b, E)
                         IN r[1].type = "SYMBOL" /\ IsSymbol(r[2], r[1].sym)
                    [] OTHER -> FALSE
           Table(E, k) == [a \in Exprs |-> [b \in Exprs |-> Same(E, k, a, b)]]
           Is(g, j) == g = [k \in 0..j |-> Table(g[k - 1], k)]
           S == {j \in 0..MaxDepth : \E g : Is(g, j)}
<1>1. ASSUME NEW E, NEW F PROVE Table(E, 0) = Table(F, 0)
  <2>1. \A a, b : Same(E, 0, a, b) = Same(F, 0, a, b)
    OBVIOUS
  <2> HIDE DEF Same
  <2> QED BY <2>1
<1>2. \A E, k : \A a, b \in Exprs : Table(E, k)[a][b] = Same(E, k, a, b)
  OBVIOUS
<1> HIDE DEF Table
<1>3. 0 \in S
  <2> DEFINE h == [k \in 0..0 |-> Table({}, 0)]
  <2>1. Is(h, 0)
    BY <1>1
  <2>2. 0 \in 0..MaxDepth
    BY DepthAssumption
  <2> QED BY <2>1, <2>2
<1>4. ASSUME NEW j \in 0..MaxDepth, j \in S, j < MaxDepth PROVE j + 1 \in S
  <2>1. PICK g : Is(g, j)
    BY <1>4
  <2> DEFINE h == [k \in 0..j + 1 |-> Table(g[k - 1], k)]
  <2>2. ASSUME NEW k \in 0..j + 1 PROVE Table(h[k - 1], k) = Table(g[k - 1], k)
    <3>1. CASE k = 0
      BY <1>1, <3>1
    <3>2. CASE k # 0
      <4>1. k - 1 \in 0..j /\ k - 1 \in 0..j + 1
        BY <3>2
      <4>2. h[k - 1] = g[k - 1]
        BY <2>1, <4>1
      <4> QED BY <4>2
    <3> QED BY <3>1, <3>2
  <2>3. Is(h, j + 1)
    BY <2>2
  <2>4. j + 1 \in 0..MaxDepth
    BY <1>4, DepthAssumption
  <2> QED BY <2>3, <2>4
<1>5. MaxDepth \in S
  <2> HIDE DEF S
  <2>1. 0..MaxDepth \subseteq S
    BY <1>3, <1>4, DepthAssumption, Induction
  <2> QED BY <2>1, DepthAssumption
<1>6. Equal = [k \in 0..MaxDepth |-> Table(Equal[k - 1], k)]
  <2>1. PICK g : g = [k \in 0..MaxDepth |-> Table(g[k - 1], k)]
    BY <1>5
  <2>2. g = [k \in 0..MaxDepth |-> [a \in Exprs |-> [b \in Exprs |->
               /\ a.type = b.type
               /\ CASE a.type \in Relations -> a.sym = b.sym /\ a.with = b.with
                    [] a.type = "SYMBOL" -> a.sym = b.sym
                    [] a.type = "NOT" /\ k > 0 -> g[k - 1][a.arg][b.arg]
                    [] a.type \in Connectives /\ k > 0 ->
                         LET r == EliminateEq(a, b, g[k - 1])
                         IN r[1].type = "SYMBOL" /\ IsSymbol(r[2], r[1].sym)
                    [] OTHER -> FALSE]]]
    BY <2>1 DEF Table
  <2>3. Equal = [k \in 0..MaxDepth |-> [a \in Exprs |-> [b \in Exprs |->
               /\ a.type = b.type
               /\ CASE a.type \in Relations -> a.sym = b.sym /\ a.with = b.with
                    [] a.type = "SYMBOL" -> a.sym = b.sym
                    [] a.type = "NOT" /\ k > 0 -> Equal[k - 1][a.arg][b.arg]
                    [] a.type \in Connectives /\ k > 0 ->
                         LET r == EliminateEq(a, b, Equal[k - 1])
                         IN r[1].type = "SYMBOL" /\ IsSymbol(r[2], r[1].sym)
                    [] OTHER -> FALSE]]]
    BY <2>2 DEF Equal, OneSymbol
  <2> QED BY <2>3 DEF Table
<1>7. Equal[n] = Table(Equal[n - 1], n)
  BY <1>6
<1>8. Same(Equal[n - 1], n, x, y)
  <2> HIDE DEF Same
  <2>1. Table(Equal[n - 1], n)[x][y] = Same(Equal[n - 1], n, x, y)
    BY <1>2
  <2> QED BY <1>7, <2>1
<1>9. x.type = y.type
  BY <1>8
<1>10. \/ x.type \in Relations /\ x.sym = y.sym /\ x.with = y.with
       \/ x.type = "SYMBOL" /\ x.sym = y.sym
       \/ x.type = "NOT" /\ n > 0 /\ Equal[n - 1][x.arg][y.arg]
       \/ /\ x.type \in Connectives /\ n > 0
          /\ \E r : /\ r = EliminateEq(x, y, Equal[n - 1])
                    /\ r[1].type = "SYMBOL" /\ IsSymbol(r[2], r[1].sym)
  <2>1. CASE x.type \in Relations
    BY <1>8, <2>1 DEF Connectives, Relations, Equalities
  <2>2. CASE x.type \in Connectives /\ n > 0
    <3>1. LET r == EliminateEq(x, y, Equal[n - 1])
          IN r[1].type = "SYMBOL" /\ IsSymbol(r[2], r[1].sym)
      BY <1>8, <2>2 DEF Connectives, Relations, Equalities
    <3> QED BY <2>2, <3>1
  <2>3. CASE x.type \notin Relations /\ ~(x.type \in Connectives /\ n > 0)
    BY <1>8, <2>3
  <2> QED BY <2>1, <2>2, <2>3
<1> QED BY <1>9, <1>10

LEMMA EqualSound ==
    ASSUME NEW ty, NEW v, Legal(ty, v), NEW n \in 0..MaxDepth
    PROVE  EqualsOnly(ty, v, Equal[n])
<1> DEFINE S == {k \in 0..MaxDepth : EqualsOnly(ty, v, Equal[k])}
<1>1. ASSUME NEW k \in 0..MaxDepth, k > 0 => k - 1 \in S PROVE k \in S
  <2> SUFFICES ASSUME NEW a \in Over(ty), NEW b \in Over(ty), Equal[k][a][b]
               PROVE  Value(a, ty, v) = Value(b, ty, v)
    BY DEF EqualsOnly
  <2>1. a \in Exprs /\ b \in Exprs
    BY DEF Over
  <2>2. CASE a.type = b.type /\ a.type \in Relations /\ a.sym = b.sym /\ a.with = b.with
    <3>1. a \in Atoms /\ b \in Atoms
      BY <2>1, <2>2, ExprShape DEF Relations, Equalities, Connectives
    <3>2. a = b
      BY <2>2, <3>1, AtomShape
    <3> QED BY <3>2
  <2>3. CASE a.type = b.type /\ a.type = "SYMBOL" /\ a.sym = b.sym
    <3>1. a = SymbolExpr(a.sym)
      BY <2>3, IsSymbolMeans
    <3>2. b = SymbolExpr(b.sym)
      BY <2>3, IsSymbolMeans
    <3> QED BY <2>3, <3>1, <3>2
  <2>4. CASE a.type = b.type /\ a.type = "NOT" /\ k > 0 /\ Equal[k - 1][a.arg][b.arg]
    <3>1. a.arg \in Over(ty) /\ a = NotExpr(a.arg) /\ b.arg \in Over(ty) /\ b = NotExpr(b.arg)
      <4>1. \A z \in Over(ty) : z.type = "NOT" => z \notin Atoms
        BY AtomShape DEF Relations, Equalities
      <4>2. \A z \in Over(ty) : z.type = "NOT" => z.arg \in Over(ty) /\ z = NotExpr(z.arg)
        BY <4>1, OverShape, AtomsAre DEF Connectives
      <4> QED BY <2>4, <4>2
    <3>2. Value(a.arg, ty, v) = Value(b.arg, ty, v)
      BY <1>1, <2>4, <3>1 DEF EqualsOnly
    <3> QED BY <2>1, <3>1, <3>2, NotValue
  <2>5. CASE \E r : /\ r = EliminateEq(a, b, Equal[k - 1]) /\ k > 0
                    /\ r[1].type = "SYMBOL" /\ IsSymbol(r[2], r[1].sym)
    <3>1. PICK r : /\ r = EliminateEq(a, b, Equal[k - 1]) /\ k > 0
                   /\ r[1].type = "SYMBOL" /\ IsSymbol(r[2], r[1].sym)
      BY <2>5
    <3>2. EqualsOnly(ty, v, Equal[k - 1])
      BY <1>1, <3>1
    <3>3. /\ MaxDepth \in 0..MaxDepth
          /\ a \in OverAt(ty, MaxDepth) /\ b \in OverAt(ty, MaxDepth)
      BY DepthAssumption, OverLayers
    <3>4. /\ r[1] \in OverAt(ty, MaxDepth) /\ r[2] \in OverAt(ty, MaxDepth)
          /\ Ordered(Value(a, ty, v), Value(b, ty, v), Value(r[1], ty, v), Value(r[2], ty, v))
      BY <3>1, <3>2, <3>3, EliminateEqKept
    <3>5. r[1] \in Over(ty) /\ r[2] \in Over(ty)
      BY <3>3, <3>4, OverLayers
    <3>6. r[1] = r[2]
      BY <3>1, <3>5, IsSymbolMeans DEF IsSymbol
    <3>7. Value(a, ty, v) \in Tri /\ Value(b, ty, v) \in Tri /\ Value(r[1], ty, v) \in Tri
      BY <3>5, ValueTri
    <3> QED BY <3>4, <3>6, <3>7 DEF Ordered, Tri, no, mod, yes
  <2> QED BY <2>1, <2>2, <2>3, <2>4, <2>5, EqualDef
<1>2. 0 \in S
  BY <1>1, DepthAssumption
<1>3. ASSUME NEW k \in 0..MaxDepth, k \in S, k < MaxDepth PROVE k + 1 \in S
  <2>1. k + 1 \in 0..MaxDepth /\ (k + 1) - 1 = k
    BY <1>3, DepthAssumption
  <2> QED BY <1>1, <1>3, <2>1
<1> HIDE DEF S
<1>4. 0..MaxDepth \subseteq S
  BY <1>2, <1>3, DepthAssumption, Induction
<1> QED BY <1>4 DEF S

\* expr_eq: conditions that it calls equal are worth the same, whatever the symbols are worth.
THEOREM EqualMeansEqual ==
    ASSUME NEW ty, NEW v, Legal(ty, v), NEW e1 \in Over(ty), NEW e2 \in Over(ty), expr_eq(e1, e2)
    PROVE  Value(e1, ty, v) = Value(e2, ty, v)
<1>1. EqualsOnly(ty, v, Equal[MaxDepth])
  BY EqualSound, DepthAssumption
<1> QED BY <1>1 DEF EqualsOnly, expr_eq

\* expr_eliminate_eq takes from two conditions what they have in common: they are worth
\* what the rests make of them, in the same order.  Where menu_finalize finds that the rest
\* of the second is y, the first is therefore never worth more than the second: an entry that
\* is shown has what it depends on.
THEOREM EliminateEqSound ==
    ASSUME NEW ty, NEW v, Legal(ty, v), NEW e1 \in Over(ty), NEW e2 \in Over(ty),
           NEW r, r = expr_eliminate_eq(e1, e2)
    PROVE  /\ r[1] \in Over(ty) /\ r[2] \in Over(ty)
           /\ Value(r[1], ty, v) <= Value(r[2], ty, v) => Value(e1, ty, v) <= Value(e2, ty, v)
           /\ Value(r[2], ty, v) <= Value(r[1], ty, v) => Value(e2, ty, v) <= Value(e1, ty, v)
           /\ expr_is_yes(r[2]) => Value(e1, ty, v) <= Value(e2, ty, v)
<1>1. EqualsOnly(ty, v, Equal[MaxDepth])
  BY EqualSound, DepthAssumption
<1>2. MaxDepth \in 0..MaxDepth /\ e1 \in OverAt(ty, MaxDepth) /\ e2 \in OverAt(ty, MaxDepth)
  BY DepthAssumption, OverLayers
<1>3. r = EliminateEq(e1, e2, Equal[MaxDepth])
  BY DEF expr_eliminate_eq
<1>4. /\ r[1] \in OverAt(ty, MaxDepth) /\ r[2] \in OverAt(ty, MaxDepth)
      /\ Ordered(Value(e1, ty, v), Value(e2, ty, v), Value(r[1], ty, v), Value(r[2], ty, v))
  BY <1>1, <1>2, <1>3, EliminateEqKept
<1>5. r[1] \in Over(ty) /\ r[2] \in Over(ty)
  BY <1>2, <1>4, OverLayers
<1>6. ASSUME expr_is_yes(r[2]) PROVE Value(r[1], ty, v) <= Value(r[2], ty, v)
  <2>1. r[2] = SymbolExpr("y") \/ r[2] = NULL
    <3>1. r[2].type = "NULL" => r[2] = NULL
      BY <1>5, NullIs
    <3>2. IsSymbol(r[2], "y") => r[2] = SymbolExpr("y")
      BY <1>5, IsSymbolMeans DEF IsSymbol
    <3> QED BY <1>6, <3>1, <3>2 DEF expr_is_yes
  <2>2. Value(r[2], ty, v) = yes
    BY <2>1, ConstantValue, AtomValue DEF Tristates
  <2>3. Value(r[1], ty, v) \in Tri
    BY <1>5, ValueTri
  <2> QED BY <2>2, <2>3 DEF Tri, no, mod, yes
<1> QED BY <1>4, <1>5, <1>6 DEF Ordered

(***************************************************************************)
(* The operands of a chain.                                                *)
(***************************************************************************)
\* Size counts the operands and negations of an expression; one of size n nests less than n
\* deep.
Size(e) ==
    LET size[x \in Exprs] ==
            CASE x.type \in Connectives -> size[x.left] + size[x.right]
              [] x.type = "NOT" -> size[x.arg] + 1
              [] OTHER -> 1
    IN size[e]

LEMMA SizeDef ==
    ASSUME NEW e \in Exprs
    PROVE  /\ e.type \in Connectives => Size(e) = Size(e.left) + Size(e.right)
           /\ e.type = "NOT" => Size(e) = Size(e.arg) + 1
           /\ e.type \notin Connectives \cup {"NOT"} => Size(e) = 1
<1> DEFINE Body(f, x) ==
               CASE x.type \in Connectives -> f[x.left] + f[x.right]
                 [] x.type = "NOT" -> f[x.arg] + 1
                 [] OTHER -> 1
           S == {n \in 0..MaxDepth + 1 : \E f : f = [x \in Below(n) |-> Body(f, x)]}
<1>1. ASSUME NEW f, NEW g, NEW E, NEW x, PartsIn(x, E), \A y \in E : f[y] = g[y]
      PROVE  Body(f, x) = Body(g, x)
  BY <1>1, AtomShape DEF PartsIn, Connectives, Relations, Equalities
<1> HIDE DEF Body
<1>2. ASSUME NEW n \in 0..MaxDepth, n \in S PROVE n + 1 \in S
  <2>1. PICK f : f = [x \in Below(n) |-> Body(f, x)]
    BY <1>2
  <2> DEFINE g == [x \in Below(n + 1) |-> Body(f, x)]
  <2>2. \A y \in Below(n) : g[y] = f[y]
    BY <2>1, BelowShape
  <2>3. \A x \in Below(n + 1) : Body(g, x) = Body(f, x)
    BY <1>1, <2>2, BelowShape
  <2>4. g = [x \in Below(n + 1) |-> Body(g, x)]
    BY <2>3
  <2>5. n + 1 \in 0..MaxDepth + 1
    BY DepthAssumption
  <2> QED BY <2>4, <2>5
<1>3. 0 \in S
  <2>1. \E f : f = [x \in Below(0) |-> Body(f, x)]
    BY DEF Below
  <2> QED BY <2>1, DepthAssumption
<1>4. \E f : f = [x \in Exprs |-> Body(f, x)]
  <2> HIDE DEF S
  <2>1. MaxDepth + 1 \in S
    BY <1>2, <1>3, LayerInduction
  <2> QED BY <2>1, BelowShape DEF S
<1> DEFINE size == CHOOSE f : f = [x \in Exprs |-> Body(f, x)]
<1>5. size = [x \in Exprs |-> Body(size, x)]
  BY <1>4
<1>6. \A x : Size(x) = size[x]
  BY DEF Size, Body
<1> HIDE DEF size
<1>7. size[e] = Body(size, e)
  BY <1>5
<1> QED BY <1>6, <1>7 DEF Body, Connectives

LEMMA CountDef ==
    ASSUME NEW type \in Connectives, NEW e \in Exprs
    PROVE  /\ e.type = type =>
                 OperandCount(type, e) = OperandCount(type, e.left) + OperandCount(type, e.right)
           /\ e.type # type => OperandCount(type, e) = 1
<1> DEFINE Body(f, x) ==
               IF x.type = type THEN f[x.left] + f[x.right] ELSE 1
           S == {n \in 0..MaxDepth + 1 : \E f : f = [x \in Below(n) |-> Body(f, x)]}
<1>1. ASSUME NEW f, NEW g, NEW E, NEW x, PartsIn(x, E), \A y \in E : f[y] = g[y]
      PROVE  Body(f, x) = Body(g, x)
  BY <1>1, AtomShape DEF PartsIn, Connectives, Relations, Equalities
<1> HIDE DEF Body
<1>2. ASSUME NEW n \in 0..MaxDepth, n \in S PROVE n + 1 \in S
  <2>1. PICK f : f = [x \in Below(n) |-> Body(f, x)]
    BY <1>2
  <2> DEFINE g == [x \in Below(n + 1) |-> Body(f, x)]
  <2>2. \A y \in Below(n) : g[y] = f[y]
    BY <2>1, BelowShape
  <2>3. \A x \in Below(n + 1) : Body(g, x) = Body(f, x)
    BY <1>1, <2>2, BelowShape
  <2>4. g = [x \in Below(n + 1) |-> Body(g, x)]
    BY <2>3
  <2>5. n + 1 \in 0..MaxDepth + 1
    BY DepthAssumption
  <2> QED BY <2>4, <2>5
<1>3. 0 \in S
  <2>1. \E f : f = [x \in Below(0) |-> Body(f, x)]
    BY DEF Below
  <2> QED BY <2>1, DepthAssumption
<1>4. \E f : f = [x \in Exprs |-> Body(f, x)]
  <2> HIDE DEF S
  <2>1. MaxDepth + 1 \in S
    BY <1>2, <1>3, LayerInduction
  <2> QED BY <2>1, BelowShape DEF S
<1> DEFINE count == CHOOSE f : f = [x \in Exprs |-> Body(f, x)]
<1>5. count = [x \in Exprs |-> Body(count, x)]
  BY <1>4
<1>6. \A x : OperandCount(type, x) = count[x]
  BY DEF OperandCount, Body
<1> HIDE DEF count
<1>7. count[e] = Body(count, e)
  BY <1>5
<1> QED BY <1>6, <1>7 DEF Body

LEMMA AtDef ==
    ASSUME NEW type \in Connectives, NEW e \in Exprs, NEW i \in Nat
    PROVE  /\ e.type = type /\ i <= OperandCount(type, e.left) => At(type, e, i) = At(type, e.left, i)
           /\ e.type = type /\ ~(i <= OperandCount(type, e.left)) =>
                 At(type, e, i) = At(type, e.right, i - OperandCount(type, e.left))
           /\ e.type # type => At(type, e, i) = e
<1> DEFINE Place(f, x, k) ==
               IF x.type = type
               THEN LET n == OperandCount(type, x.left)
                    IN IF k <= n THEN f[x.left][k] ELSE f[x.right][k - n]
               ELSE x
           Body(f, x) == [k \in Nat |-> Place(f, x, k)]
           S == {n \in 0..MaxDepth + 1 : \E f : f = [x \in Below(n) |-> Body(f, x)]}
<1>1. ASSUME NEW f, NEW g, NEW E, NEW x, PartsIn(x, E), \A y \in E : f[y] = g[y]
      PROVE  Body(f, x) = Body(g, x)
  <2>1. CASE x.type = type
    <3>1. f[x.left] = g[x.left] /\ f[x.right] = g[x.right]
      BY <1>1, <2>1, AtomShape DEF PartsIn, Connectives, Relations, Equalities
    <3> QED BY <3>1
  <2>2. CASE x.type # type
    BY <2>2
  <2> QED BY <2>1, <2>2
<1>2. \A f, x, k : k \in Nat => Body(f, x)[k] = Place(f, x, k)
  OBVIOUS
<1> HIDE DEF Body
<1>3. ASSUME NEW n \in 0..MaxDepth, n \in S PROVE n + 1 \in S
  <2>1. PICK f : f = [x \in Below(n) |-> Body(f, x)]
    BY <1>3
  <2> DEFINE g == [x \in Below(n + 1) |-> Body(f, x)]
  <2>2. \A y \in Below(n) : g[y] = f[y]
    BY <2>1, BelowShape
  <2>3. \A x \in Below(n + 1) : Body(g, x) = Body(f, x)
    BY <1>1, <2>2, BelowShape
  <2>4. g = [x \in Below(n + 1) |-> Body(g, x)]
    BY <2>3
  <2>5. n + 1 \in 0..MaxDepth + 1
    BY DepthAssumption
  <2> QED BY <2>4, <2>5
<1>4. 0 \in S
  <2>1. \E f : f = [x \in Below(0) |-> Body(f, x)]
    BY DEF Below
  <2> QED BY <2>1, DepthAssumption
<1>5. \E f : f = [x \in Exprs |-> Body(f, x)]
  <2> HIDE DEF S
  <2>1. MaxDepth + 1 \in S
    BY <1>3, <1>4, LayerInduction
  <2> QED BY <2>1, BelowShape DEF S
<1> DEFINE at == CHOOSE f : f = [x \in Exprs |-> Body(f, x)]
<1>6. at = [x \in Exprs |-> Body(at, x)]
  BY <1>5
<1>7. \A x, k : At(type, x, k) = at[x][k]
  BY DEF At, Body
<1> HIDE DEF at
<1>8. at[e] = Body(at, e)
  BY <1>6
<1> HIDE DEF Place
<1>9. At(type, e, i) = Place(at, e, i)
  BY <1>2, <1>7, <1>8
<1> QED BY <1>7, <1>9 DEF Place

LEMMA PutDef ==
    ASSUME NEW type \in Connectives, NEW operand, NEW e \in Exprs, NEW i \in Nat
    PROVE  /\ e.type = type /\ i <= OperandCount(type, e.left) =>
                 Put(type, e, i, operand) = TwoExpr(type, Put(type, e.left, i, operand), e.right)
           /\ e.type = type /\ ~(i <= OperandCount(type, e.left)) =>
                 Put(type, e, i, operand) =
                     TwoExpr(type, e.left, Put(type, e.right, i - OperandCount(type, e.left), operand))
           /\ e.type # type => Put(type, e, i, operand) = operand
<1> DEFINE Place(f, x, k) ==
               IF x.type = type
               THEN LET n == OperandCount(type, x.left)
                    IN IF k <= n THEN TwoExpr(type, f[x.left][k], x.right)
                       ELSE TwoExpr(type, x.left, f[x.right][k - n])
               ELSE operand
           Body(f, x) == [k \in Nat |-> Place(f, x, k)]
           S == {n \in 0..MaxDepth + 1 : \E f : f = [x \in Below(n) |-> Body(f, x)]}
<1>1. ASSUME NEW f, NEW g, NEW E, NEW x, PartsIn(x, E), \A y \in E : f[y] = g[y]
      PROVE  Body(f, x) = Body(g, x)
  <2>1. CASE x.type = type
    <3>1. f[x.left] = g[x.left] /\ f[x.right] = g[x.right]
      BY <1>1, <2>1, AtomShape DEF PartsIn, Connectives, Relations, Equalities
    <3> QED BY <3>1
  <2>2. CASE x.type # type
    BY <2>2
  <2> QED BY <2>1, <2>2
<1>2. \A f, x, k : k \in Nat => Body(f, x)[k] = Place(f, x, k)
  OBVIOUS
<1> HIDE DEF Body
<1>3. ASSUME NEW n \in 0..MaxDepth, n \in S PROVE n + 1 \in S
  <2>1. PICK f : f = [x \in Below(n) |-> Body(f, x)]
    BY <1>3
  <2> DEFINE g == [x \in Below(n + 1) |-> Body(f, x)]
  <2>2. \A y \in Below(n) : g[y] = f[y]
    BY <2>1, BelowShape
  <2>3. \A x \in Below(n + 1) : Body(g, x) = Body(f, x)
    BY <1>1, <2>2, BelowShape
  <2>4. g = [x \in Below(n + 1) |-> Body(g, x)]
    BY <2>3
  <2>5. n + 1 \in 0..MaxDepth + 1
    BY DepthAssumption
  <2> QED BY <2>4, <2>5
<1>4. 0 \in S
  <2>1. \E f : f = [x \in Below(0) |-> Body(f, x)]
    BY DEF Below
  <2> QED BY <2>1, DepthAssumption
<1>5. \E f : f = [x \in Exprs |-> Body(f, x)]
  <2> HIDE DEF S
  <2>1. MaxDepth + 1 \in S
    BY <1>3, <1>4, LayerInduction
  <2> QED BY <2>1, BelowShape DEF S
<1> DEFINE put == CHOOSE f : f = [x \in Exprs |-> Body(f, x)]
<1>6. put = [x \in Exprs |-> Body(put, x)]
  BY <1>5
<1>7. \A x, k : Put(type, x, k, operand) = put[x][k]
  BY DEF Put, Body
<1> HIDE DEF put
<1>8. put[e] = Body(put, e)
  BY <1>6
<1> HIDE DEF Place
<1>9. Put(type, e, i, operand) = Place(put, e, i)
  BY <1>2, <1>7, <1>8
<1> QED BY <1>7, <1>9 DEF Place


LEMMA SizeIs ==
    ASSUME NEW e \in Exprs
    PROVE  /\ Size(e) \in Nat /\ Size(e) >= 1
           /\ \A n \in 0..MaxDepth : Size(e) <= n + 1 => e \in Layer[n]
<1> DEFINE Is(x) == /\ Size(x) \in Nat /\ Size(x) >= 1
                    /\ \A n \in 0..MaxDepth : Size(x) <= n + 1 => x \in Layer[n]
           S == {x \in Exprs : Is(x)}
<1>1. ASSUME NEW n \in 0..MaxDepth, n # 0
      PROVE  n - 1 \in 0..MaxDepth /\ Layer[n] = Atoms \cup Composed(Layer[n - 1])
  BY <1>1, LayerDef, DepthAssumption
<1>2. Atoms \subseteq S
  <2> SUFFICES ASSUME NEW x \in Atoms PROVE x \in S
    OBVIOUS
  <2>1. x \in Exprs /\ x.type \notin Connectives \cup {"NOT"}
    BY AtomShape, LayerAre, DepthAssumption DEF Exprs, Connectives, Relations, Equalities
  <2>2. Size(x) = 1
    BY <2>1, SizeDef
  <2> QED BY <2>1, <2>2, LayerAre
<1>3. ASSUME NEW x \in Exprs, x \in Composed(S \cap Exprs) PROVE x \in S
  <2>1. CASE x.type = "NOT" /\ x.arg \in S /\ x = NotExpr(x.arg)
    <3>1. Size(x) = Size(x.arg) + 1
      BY <1>3, <2>1, SizeDef
    <3>2. ASSUME NEW n \in 0..MaxDepth, Size(x) <= n + 1 PROVE x \in Layer[n]
      <4>1. n # 0 /\ Size(x.arg) <= n
        BY <2>1, <3>1, <3>2
      <4>2. x.arg \in Layer[n - 1]
        BY <1>1, <2>1, <4>1
      <4> QED BY <1>1, <2>1, <4>1, <4>2, ComposedAre DEF Connectives
    <3> QED BY <2>1, <3>1, <3>2
  <2>2. CASE /\ x.type \in Connectives /\ x.left \in S /\ x.right \in S
             /\ x = TwoExpr(x.type, x.left, x.right)
    <3>1. Size(x) = Size(x.left) + Size(x.right)
      BY <1>3, <2>2, SizeDef
    <3>2. ASSUME NEW n \in 0..MaxDepth, Size(x) <= n + 1 PROVE x \in Layer[n]
      <4>1. n # 0 /\ Size(x.left) <= n /\ Size(x.right) <= n
        BY <2>2, <3>1, <3>2
      <4>2. x.left \in Layer[n - 1] /\ x.right \in Layer[n - 1]
        BY <1>1, <2>2, <4>1
      <4> QED BY <1>1, <2>2, <4>1, <4>2, ComposedAre
    <3> QED BY <2>2, <3>1, <3>2
  <2> QED BY <1>3, <2>1, <2>2, ComposedShape
<1> HIDE DEF S
<1>4. Exprs \subseteq S
  BY <1>2, <1>3, ExprInduction
<1> QED BY <1>4 DEF S

\* Two conditions are joined by a connective as long as they are not too large.
LEMMA TwoFits ==
    ASSUME NEW ty, NEW v, NEW t \in Connectives, NEW a \in Over(ty), NEW b \in Over(ty),
           Size(a) + Size(b) <= MaxDepth + 1
    PROVE  /\ TwoExpr(t, a, b) \in Over(ty)
           /\ Size(TwoExpr(t, a, b)) = Size(a) + Size(b)
           /\ Value(TwoExpr(t, a, b), ty, v) = Op(t, Value(a, ty, v), Value(b, ty, v))
<1>1. a \in Exprs /\ b \in Exprs /\ SymbolsOf(a) \subseteq DOMAIN ty /\ SymbolsOf(b) \subseteq DOMAIN ty
  BY DEF Over
<1>2. /\ Size(a) \in Nat /\ Size(a) >= 1 /\ Size(b) \in Nat /\ Size(b) >= 1
      /\ MaxDepth - 1 \in 0..MaxDepth /\ MaxDepth - 1 < MaxDepth
  BY <1>1, SizeIs, DepthAssumption
<1>3. Size(a) <= (MaxDepth - 1) + 1 /\ Size(b) <= (MaxDepth - 1) + 1
  BY <1>2, DepthAssumption
<1>4. a \in Layer[MaxDepth - 1] /\ b \in Layer[MaxDepth - 1]
  BY <1>1, <1>2, <1>3, SizeIs
<1>5. TwoExpr(t, a, b) \in Exprs
  <2>1. (MaxDepth - 1) + 1 = MaxDepth
    BY DepthAssumption
  <2> QED BY <1>2, <1>4, <2>1, LayerAre DEF Exprs
<1>6. Size(TwoExpr(t, a, b)) = Size(a) + Size(b)
  BY <1>5, SizeDef, Selectors
<1> QED BY <1>1, <1>5, <1>6, TwoValue DEF Over

LEMMA CountIs ==
    ASSUME NEW ty, NEW t \in Connectives, NEW e \in Over(ty)
    PROVE  OperandCount(t, e) \in Nat /\ OperandCount(t, e) >= 1
<1> DEFINE Is(x) == OperandCount(t, x) \in Nat /\ OperandCount(t, x) >= 1
           S == {x \in Over(ty) : Is(x)}
<1>1. \A x \in Over(ty) : x.type # t => Is(x)
  BY CountDef DEF Over
<1>2. Over(ty) \cap Atoms \subseteq S
  BY <1>1, AtomShape DEF Connectives, Relations, Equalities
<1>3. \A a \in S : NotExpr(a) \in Over(ty) => NotExpr(a) \in S
  BY <1>1, Selectors DEF Connectives
<1>4. ASSUME NEW a \in S, NEW b \in S, NEW s \in Connectives, TwoExpr(s, a, b) \in Over(ty)
      PROVE  TwoExpr(s, a, b) \in S
  <2>1. TwoExpr(s, a, b) \in Exprs
    BY <1>4 DEF Over
  <2>2. s = t => OperandCount(t, TwoExpr(s, a, b)) = OperandCount(t, a) + OperandCount(t, b)
    BY <2>1, CountDef, Selectors
  <2>3. s # t => TwoExpr(s, a, b).type # t
    BY Selectors
  <2> QED BY <1>1, <1>4, <2>2, <2>3
<1> HIDE DEF S
<1>5. Over(ty) \subseteq S
  BY <1>2, <1>3, <1>4, OverInduction
<1> QED BY <1>5 DEF S

\* Operand i of a chain of t.
Slots(t, e) == 1..OperandCount(t, e)

\* What is shown of every operand of a chain e is shown for a chain of one operand, and for the
\* two sides of a longer one.
LEMMA SlotInduction ==
    ASSUME NEW ty, NEW t \in Connectives, NEW S,
           \A x \in Over(ty) : x.type # t => <<x, 1>> \in S,
           \A a, b \in Over(ty) : TwoExpr(t, a, b) \in Over(ty) =>
              /\ \A i \in Slots(t, a) : <<a, i>> \in S => <<TwoExpr(t, a, b), i>> \in S
              /\ \A i \in Slots(t, b) : <<b, i>> \in S =>
                    <<TwoExpr(t, a, b), OperandCount(t, a) + i>> \in S,
           NEW e \in Over(ty), NEW i \in Slots(t, e)
    PROVE  <<e, i>> \in S
<1> DEFINE Is(x) == \A j \in Slots(t, x) : <<x, j>> \in S
           T == {x \in Over(ty) : Is(x)}
<1>1. ASSUME NEW x \in Over(ty), x.type # t PROVE Is(x)
  <2>1. OperandCount(t, x) = 1
    BY <1>1, CountDef DEF Over
  <2>2. \A j \in Slots(t, x) : j = 1
    BY <2>1 DEF Slots
  <2> QED BY <1>1, <2>2
<1>2. Over(ty) \cap Atoms \subseteq T
  BY <1>1, AtomShape DEF Connectives, Relations, Equalities
<1>3. \A a \in T : NotExpr(a) \in Over(ty) => NotExpr(a) \in T
  BY <1>1, Selectors DEF Connectives
<1>4. ASSUME NEW a \in T, NEW b \in T, NEW s \in Connectives, TwoExpr(s, a, b) \in Over(ty)
      PROVE  TwoExpr(s, a, b) \in T
  <2>1. CASE s = t
    <3>1. TwoExpr(t, a, b) \in Exprs
      BY <1>4, <2>1 DEF Over
    <3>2. OperandCount(t, TwoExpr(t, a, b)) = OperandCount(t, a) + OperandCount(t, b)
      BY <3>1, CountDef, Selectors
    <3>3. OperandCount(t, a) \in Nat /\ OperandCount(t, b) \in Nat
      BY CountIs
    <3>4. ASSUME NEW j \in Slots(t, TwoExpr(t, a, b)) PROVE <<TwoExpr(t, a, b), j>> \in S
      <4>1. CASE j <= OperandCount(t, a)
        <5>1. j \in Slots(t, a)
          BY <3>3, <4>1 DEF Slots
        <5> QED BY <1>4, <2>1, <5>1
      <4>2. CASE ~(j <= OperandCount(t, a))
        <5>1. /\ j - OperandCount(t, a) \in Slots(t, b)
              /\ j = OperandCount(t, a) + (j - OperandCount(t, a))
          BY <3>2, <3>3, <4>2 DEF Slots
        <5> QED BY <1>4, <2>1, <5>1
      <4> QED BY <4>1, <4>2
    <3> QED BY <1>4, <2>1, <3>4
  <2>2. CASE s # t
    <3>1. TwoExpr(s, a, b).type # t
      BY <2>2, Selectors
    <3> QED BY <1>1, <1>4, <3>1
  <2> QED BY <2>1, <2>2
<1> HIDE DEF T
<1>5. Over(ty) \subseteq T
  BY <1>2, <1>3, <1>4, OverInduction
<1> QED BY <1>5 DEF T

\* A chain's operand on its left and on its right side.
LEMMA ChainIs ==
    ASSUME NEW ty, NEW t \in Connectives, NEW a \in Over(ty), NEW b \in Over(ty),
           NEW e \in Over(ty), e = TwoExpr(t, a, b)
    PROVE  /\ OperandCount(t, e) = OperandCount(t, a) + OperandCount(t, b)
           /\ Size(e) = Size(a) + Size(b)
           /\ \A i \in Slots(t, a) :
                 i \in Nat /\ i \in Slots(t, e) /\ At(t, e, i) = At(t, a, i)
           /\ \A i \in Slots(t, b) :
                 /\ i \in Nat /\ OperandCount(t, a) + i \in Slots(t, e)
                 /\ At(t, e, OperandCount(t, a) + i) = At(t, b, i)
<1>1. e \in Exprs /\ e.type = t /\ e.left = a /\ e.right = b
  BY Selectors DEF Over
<1>2. OperandCount(t, e) = OperandCount(t, a) + OperandCount(t, b) /\ Size(e) = Size(a) + Size(b)
  BY <1>1, CountDef, SizeDef
<1>3. OperandCount(t, a) \in Nat /\ OperandCount(t, b) \in Nat
  BY CountIs
<1>4. ASSUME NEW i \in Slots(t, a)
      PROVE  i \in Nat /\ i \in Slots(t, e) /\ At(t, e, i) = At(t, a, i)
  <2>1. i \in Slots(t, e) /\ i \in Nat /\ i <= OperandCount(t, a)
    BY <1>2, <1>3 DEF Slots
  <2> QED BY <1>1, <2>1, AtDef
<1>5. ASSUME NEW i \in Slots(t, b)
      PROVE  /\ i \in Nat /\ OperandCount(t, a) + i \in Slots(t, e)
             /\ At(t, e, OperandCount(t, a) + i) = At(t, b, i)
  <2> DEFINE j == OperandCount(t, a) + i
  <2>1. /\ j \in Slots(t, e) /\ i \in Nat /\ j \in Nat /\ ~(j <= OperandCount(t, a))
        /\ j - OperandCount(t, a) = i
    BY <1>2, <1>3 DEF Slots
  <2> HIDE DEF j
  <2>2. At(t, e, j) = At(t, b, i)
    BY <1>1, <2>1, AtDef
  <2> QED BY <2>1, <2>2 DEF j
<1> QED BY <1>2, <1>4, <1>5

LEMMA ChainPut ==
    ASSUME NEW ty, NEW t \in Connectives, NEW a \in Over(ty), NEW b \in Over(ty),
           NEW e \in Over(ty), e = TwoExpr(t, a, b), NEW operand
    PROVE  /\ \A i \in Slots(t, a) :
                 Put(t, e, i, operand) = TwoExpr(t, Put(t, a, i, operand), b)
           /\ \A i \in Slots(t, b) :
                 Put(t, e, OperandCount(t, a) + i, operand) = TwoExpr(t, a, Put(t, b, i, operand))
<1>1. e \in Exprs /\ e.type = t /\ e.left = a /\ e.right = b
  BY Selectors DEF Over
<1>2. OperandCount(t, a) \in Nat /\ OperandCount(t, b) \in Nat
  BY CountIs
<1>3. ASSUME NEW i \in Slots(t, a)
      PROVE  Put(t, e, i, operand) = TwoExpr(t, Put(t, a, i, operand), b)
  <2>1. i \in Nat /\ i <= OperandCount(t, a)
    BY <1>2 DEF Slots
  <2> QED BY <1>1, <2>1, PutDef
<1>4. ASSUME NEW i \in Slots(t, b)
      PROVE  Put(t, e, OperandCount(t, a) + i, operand) = TwoExpr(t, a, Put(t, b, i, operand))
  <2> DEFINE j == OperandCount(t, a) + i
  <2>1. /\ i \in Nat /\ j \in Nat /\ ~(j <= OperandCount(t, a))
        /\ j - OperandCount(t, a) = i
    BY <1>2 DEF Slots
  <2> HIDE DEF j
  <2>2. Put(t, e, j, operand) = TwoExpr(t, a, Put(t, b, i, operand))
    BY <1>1, <2>1, PutDef
  <2> QED BY <2>2 DEF j
<1> QED BY <1>3, <1>4


LEMMA AtIs ==
    ASSUME NEW ty, NEW t \in Connectives, NEW e \in Over(ty), NEW i \in Slots(t, e)
    PROVE  At(t, e, i) \in Over(ty) /\ At(t, e, i).type # t /\ Size(At(t, e, i)) <= Size(e)
<1> DEFINE Is(x, j) == At(t, x, j) \in Over(ty) /\ At(t, x, j).type # t /\ Size(At(t, x, j)) <= Size(x)
           S == {p \in Over(ty) \X Nat : Is(p[1], p[2])}
<1>1. ASSUME NEW x \in Over(ty), x.type # t PROVE <<x, 1>> \in S
  <2>1. x \in Exprs
    BY DEF Over
  <2>2. At(t, x, 1) = x
    BY <1>1, <2>1, AtDef
  <2>3. Size(x) \in Nat
    BY <2>1, SizeIs
  <2> QED BY <1>1, <2>2, <2>3
<1>2. ASSUME NEW a \in Over(ty), NEW b \in Over(ty), TwoExpr(t, a, b) \in Over(ty)
      PROVE  /\ \A j \in Slots(t, a) : <<a, j>> \in S => <<TwoExpr(t, a, b), j>> \in S
             /\ \A j \in Slots(t, b) : <<b, j>> \in S => <<TwoExpr(t, a, b), OperandCount(t, a) + j>> \in S
  <2> DEFINE x == TwoExpr(t, a, b)
  <2> HIDE DEF x
  <2>1. x \in Over(ty) /\ x = TwoExpr(t, a, b)
    BY <1>2 DEF x
  <2>2. Size(a) \in Nat /\ Size(b) \in Nat /\ OperandCount(t, a) \in Nat
    BY SizeIs, CountIs DEF Over
  <2>3. Size(a) <= Size(x) /\ Size(b) <= Size(x)
    BY <2>1, <2>2, ChainIs
  <2>4. ASSUME NEW j \in Slots(t, a), <<a, j>> \in S PROVE <<x, j>> \in S
    <3>1. At(t, x, j) = At(t, a, j) /\ j \in Nat
      BY <2>1, <2>4, ChainIs
    <3>2. Size(At(t, a, j)) \in Nat
      BY <2>4, SizeIs DEF Over
    <3> QED BY <2>1, <2>2, <2>3, <2>4, <3>1, <3>2, SizeIs DEF Over
  <2>5. ASSUME NEW j \in Slots(t, b), <<b, j>> \in S PROVE <<x, OperandCount(t, a) + j>> \in S
    <3>1. At(t, x, OperandCount(t, a) + j) = At(t, b, j) /\ j \in Nat
      BY <2>1, <2>5, ChainIs
    <3>2. Size(At(t, b, j)) \in Nat
      BY <2>5, SizeIs DEF Over
    <3> QED BY <2>1, <2>2, <2>3, <2>5, <3>1, <3>2, SizeIs DEF Over
  <2> QED BY <2>4, <2>5 DEF x
<1> HIDE DEF S
<1>3. <<e, i>> \in S
  BY <1>1, <1>2, SlotInduction
<1> QED BY <1>3 DEF S

\* p is the chain e with o for its operand i.
Swapped(ty, t, e, i, o, p) ==
    /\ p \in Over(ty)
    /\ Size(p) = Size(e) - Size(At(t, e, i)) + Size(o)
    /\ p.type = t <=> e.type = t
    /\ OperandCount(t, p) = OperandCount(t, e)
    /\ \A j \in Slots(t, e) : At(t, p, j) = IF j = i THEN o ELSE At(t, e, j)

Fits(t, e, i, o) == Size(e) - Size(At(t, e, i)) + Size(o) <= MaxDepth + 1

\* A chain of t in which the left, or the right, side is exchanged.
LEMMA SwappedSide ==
    ASSUME NEW ty, NEW t \in Connectives, NEW a \in Over(ty), NEW b \in Over(ty),
           NEW e \in Over(ty), e = TwoExpr(t, a, b), NEW o \in Over(ty)
    PROVE  /\ \A q : \A i \in Slots(t, a) :
                 Swapped(ty, t, a, i, o, q) /\ Fits(t, e, i, o) =>
                     Swapped(ty, t, e, i, o, TwoExpr(t, q, b))
           /\ \A q : \A i \in Slots(t, b) :
                 Swapped(ty, t, b, i, o, q) /\ Fits(t, e, OperandCount(t, a) + i, o) =>
                     Swapped(ty, t, e, OperandCount(t, a) + i, o, TwoExpr(t, a, q))
<1> DEFINE n == OperandCount(t, a)
<1>1. /\ Size(a) \in Nat /\ Size(b) \in Nat /\ Size(o) \in Nat
      /\ n \in Nat /\ OperandCount(t, b) \in Nat /\ Size(e) = Size(a) + Size(b)
      /\ OperandCount(t, e) = n + OperandCount(t, b) /\ e.type = t
  <2>1. a \in Exprs /\ b \in Exprs /\ o \in Exprs
    BY DEF Over
  <2>2. Size(a) \in Nat /\ Size(b) \in Nat /\ Size(o) \in Nat
    BY <2>1, SizeIs
  <2>3. n \in Nat /\ OperandCount(t, b) \in Nat
    BY CountIs
  <2>4. Size(e) = Size(a) + Size(b) /\ OperandCount(t, e) = n + OperandCount(t, b)
    BY ChainIs
  <2> QED BY <2>2, <2>3, <2>4, Selectors
<1>2. \A j \in Slots(t, e) : j \notin Slots(t, a) => j - n \in Slots(t, b) /\ j = n + (j - n)
  BY <1>1 DEF Slots
<1>3. ASSUME NEW i \in Slots(t, a), NEW q, Swapped(ty, t, a, i, o, q), Fits(t, e, i, o)
      PROVE  Swapped(ty, t, e, i, o, TwoExpr(t, q, b))
  <2>1. q \in Over(ty) /\ Size(q) = Size(a) - Size(At(t, a, i)) + Size(o) /\ OperandCount(t, q) = n
    BY <1>3 DEF Swapped
  <2>2. At(t, e, i) = At(t, a, i) /\ Size(At(t, a, i)) \in Nat /\ i \in Nat
    <3>1. At(t, e, i) = At(t, a, i) /\ i \in Nat
      BY ChainIs
    <3>2. At(t, a, i) \in Exprs
      BY AtIs DEF Over
    <3> QED BY <3>1, <3>2, SizeIs
  <2>3. Size(q) + Size(b) = Size(e) - Size(At(t, e, i)) + Size(o)
    BY <1>1, <2>1, <2>2
  <2> DEFINE p == TwoExpr(t, q, b)
  <2>4. p \in Over(ty) /\ Size(p) = Size(q) + Size(b) /\ p.type = t
    BY <1>3, <2>1, <2>3, TwoFits, Selectors DEF Fits
  <2>5. p = TwoExpr(t, q, b)
    OBVIOUS
  <2> HIDE DEF p
  <2>6. OperandCount(t, p) = OperandCount(t, e)
    BY <1>1, <2>1, <2>4, <2>5, ChainIs
  <2>7. ASSUME NEW j \in Slots(t, e) PROVE At(t, p, j) = IF j = i THEN o ELSE At(t, e, j)
    <3>1. CASE j \in Slots(t, a)
      <4>1. At(t, e, j) = At(t, a, j)
        BY <3>1, ChainIs
      <4>2. j \in Slots(t, q)
        BY <2>1, <3>1 DEF Slots
      <4>3. At(t, p, j) = At(t, q, j)
        BY <2>1, <2>4, <2>5, <4>2, ChainIs
      <4>4. At(t, q, j) = IF j = i THEN o ELSE At(t, a, j)
        BY <1>3, <3>1 DEF Swapped
      <4> QED BY <4>1, <4>3, <4>4
    <3>2. CASE j \notin Slots(t, a)
      <4> DEFINE l == j - n
      <4>1. l \in Slots(t, b) /\ j = n + l /\ j # i
        BY <1>2, <3>2
      <4> HIDE DEF l
      <4>2. At(t, e, n + l) = At(t, b, l)
        BY <4>1, ChainIs
      <4>3. At(t, p, OperandCount(t, q) + l) = At(t, b, l)
        BY <2>1, <2>4, <2>5, <4>1, ChainIs
      <4> QED BY <2>1, <4>1, <4>2, <4>3
    <3> QED BY <3>1, <3>2
  <2> QED BY <1>1, <2>3, <2>4, <2>6, <2>7 DEF Swapped, p
<1>4. ASSUME NEW i \in Slots(t, b), NEW q, Swapped(ty, t, b, i, o, q), Fits(t, e, n + i, o)
      PROVE  Swapped(ty, t, e, n + i, o, TwoExpr(t, a, q))
  <2>1. /\ q \in Over(ty) /\ Size(q) = Size(b) - Size(At(t, b, i)) + Size(o)
        /\ OperandCount(t, q) = OperandCount(t, b)
    BY <1>4 DEF Swapped
  <2>2. At(t, e, n + i) = At(t, b, i) /\ Size(At(t, b, i)) \in Nat /\ i \in Nat
    <3>1. At(t, e, n + i) = At(t, b, i) /\ i \in Nat
      BY ChainIs
    <3>2. At(t, b, i) \in Exprs
      BY AtIs DEF Over
    <3> QED BY <3>1, <3>2, SizeIs
  <2>3. Size(a) + Size(q) = Size(e) - Size(At(t, e, n + i)) + Size(o)
    BY <1>1, <2>1, <2>2
  <2> DEFINE p == TwoExpr(t, a, q)
  <2>4. p \in Over(ty) /\ Size(p) = Size(a) + Size(q) /\ p.type = t
    BY <1>4, <2>1, <2>3, TwoFits, Selectors DEF Fits
  <2>5. p = TwoExpr(t, a, q)
    OBVIOUS
  <2> HIDE DEF p
  <2>6. OperandCount(t, p) = OperandCount(t, e)
    BY <1>1, <2>1, <2>4, <2>5, ChainIs
  <2>7. ASSUME NEW j \in Slots(t, e) PROVE At(t, p, j) = IF j = n + i THEN o ELSE At(t, e, j)
    <3>1. CASE j \in Slots(t, a)
      <4>1. At(t, e, j) = At(t, a, j) /\ At(t, p, j) = At(t, a, j)
        BY <2>1, <2>4, <2>5, <3>1, ChainIs
      <4>2. j # n + i
        BY <1>1, <3>1 DEF Slots
      <4> QED BY <4>1, <4>2
    <3>2. CASE j \notin Slots(t, a)
      <4> DEFINE l == j - n
      <4>1. l \in Slots(t, b) /\ j = n + l
        BY <1>2, <3>2
      <4>2. (j = n + i) <=> (l = i)
        BY <1>1, <2>2, <4>1 DEF Slots
      <4> HIDE DEF l
      <4>3. At(t, e, n + l) = At(t, b, l)
        BY <4>1, ChainIs
      <4>4. l \in Slots(t, q)
        BY <2>1, <4>1 DEF Slots
      <4>5. At(t, p, n + l) = At(t, q, l)
        BY <2>1, <2>4, <2>5, <4>4, ChainIs
      <4>6. At(t, q, l) = IF l = i THEN o ELSE At(t, b, l)
        BY <1>4, <4>1 DEF Swapped
      <4> QED BY <4>1, <4>2, <4>3, <4>5, <4>6
    <3> QED BY <3>1, <3>2
  <2> QED BY <1>1, <2>3, <2>4, <2>6, <2>7 DEF Swapped, p
<1> QED BY <1>3, <1>4

LEMMA PutIs ==
    ASSUME NEW ty, NEW t \in Connectives, NEW e \in Over(ty), NEW i \in Slots(t, e),
           NEW o \in Over(ty), o.type # t, Fits(t, e, i, o)
    PROVE  Swapped(ty, t, e, i, o, Put(t, e, i, o))
<1> DEFINE Is(x, j) == Fits(t, x, j, o) => Swapped(ty, t, x, j, o, Put(t, x, j, o))
           S == {p \in Over(ty) \X Nat : Is(p[1], p[2])}
<1>1. ASSUME NEW x \in Over(ty), x.type # t PROVE <<x, 1>> \in S
  <2>1. x \in Exprs /\ o \in Exprs
    BY DEF Over
  <2>2. Put(t, x, 1, o) = o /\ At(t, x, 1) = x /\ At(t, o, 1) = o
    BY <1>1, <2>1, AtDef, PutDef
  <2>3. OperandCount(t, x) = 1 /\ OperandCount(t, o) = 1
    BY <1>1, <2>1, CountDef
  <2>4. Size(x) \in Nat /\ Size(o) \in Nat
    BY <2>1, SizeIs
  <2>5. \A j \in Slots(t, x) : j = 1
    BY <2>3 DEF Slots
  <2> QED BY <1>1, <2>2, <2>3, <2>4, <2>5 DEF Swapped
<1>2. ASSUME NEW a \in Over(ty), NEW b \in Over(ty), TwoExpr(t, a, b) \in Over(ty)
      PROVE  /\ \A j \in Slots(t, a) : <<a, j>> \in S => <<TwoExpr(t, a, b), j>> \in S
             /\ \A j \in Slots(t, b) : <<b, j>> \in S => <<TwoExpr(t, a, b), OperandCount(t, a) + j>> \in S
  <2> DEFINE x == TwoExpr(t, a, b)
  <2> HIDE DEF x
  <2>1. x \in Over(ty) /\ x = TwoExpr(t, a, b)
    BY <1>2 DEF x
  <2>2. a \in Exprs /\ b \in Exprs /\ o \in Exprs
    BY DEF Over
  <2>3. /\ Size(a) \in Nat /\ Size(b) \in Nat /\ OperandCount(t, a) \in Nat /\ Size(o) \in Nat
        /\ Size(x) = Size(a) + Size(b)
    BY <2>1, <2>2, SizeIs, CountIs, ChainIs
  <2>4. ASSUME NEW j \in Slots(t, a), <<a, j>> \in S PROVE <<x, j>> \in S
    <3>1. At(t, x, j) = At(t, a, j) /\ j \in Nat
      BY <2>1, ChainIs
    <3>2. At(t, a, j) \in Exprs
      BY AtIs DEF Over
    <3>3. Size(At(t, a, j)) \in Nat
      BY <3>2, SizeIs
    <3>4. Fits(t, x, j, o) => Fits(t, a, j, o)
      BY <2>3, <3>1, <3>3, DepthAssumption DEF Fits
    <3>5. Put(t, x, j, o) = TwoExpr(t, Put(t, a, j, o), b)
      BY <2>1, ChainPut
    <3>6. Fits(t, x, j, o) => Swapped(ty, t, x, j, o, Put(t, x, j, o))
      BY <2>1, <2>4, <3>4, <3>5, SwappedSide
    <3> QED BY <2>1, <3>1, <3>6
  <2>5. ASSUME NEW j \in Slots(t, b), <<b, j>> \in S PROVE <<x, OperandCount(t, a) + j>> \in S
    <3> DEFINE k == OperandCount(t, a) + j
    <3>0. k = OperandCount(t, a) + j
      OBVIOUS
    <3> HIDE DEF k
    <3>1. At(t, x, k) = At(t, b, j) /\ k \in Nat
      BY <2>1, <2>3, <3>0, ChainIs
    <3>2. At(t, b, j) \in Exprs
      BY AtIs DEF Over
    <3>3. Size(At(t, b, j)) \in Nat
      BY <3>2, SizeIs
    <3>4. Fits(t, x, k, o) => Fits(t, b, j, o)
      BY <2>3, <3>1, <3>3, DepthAssumption DEF Fits
    <3>5. Put(t, x, k, o) = TwoExpr(t, a, Put(t, b, j, o))
      BY <2>1, <3>0, ChainPut
    <3>6. Fits(t, x, k, o) => Swapped(ty, t, x, k, o, Put(t, x, k, o))
      BY <2>1, <2>5, <3>0, <3>4, <3>5, SwappedSide
    <3> QED BY <2>1, <3>0, <3>1, <3>6
  <2> QED BY <2>4, <2>5 DEF x
<1> HIDE DEF S
<1>3. <<e, i>> \in S
  BY <1>1, <1>2, SlotInduction
<1> QED BY <1>3 DEF S

\* && and || associate, and each has a neutral value.
LEMMA OpMore ==
    ASSUME NEW t \in Connectives
    PROVE  /\ \A a, b, c \in Tri : Op(t, Op(t, a, b), c) = Op(t, Op(t, a, c), b)
           /\ \A a, b, c \in Tri : Op(t, Op(t, a, b), c) = Op(t, a, Op(t, b, c))
           /\ \A a, b \in Tri : Op(t, a, b) = Op(t, b, a)
           /\ \A a \in Tri : Op(t, a, a) = a
           /\ \E a \in Tri : \A b \in Tri : Op(t, a, b) = b
<1>1. CASE t = "AND"
  BY <1>1 DEF Tri, Op, EXPR_AND, no, mod, yes
<1>2. CASE t = "OR"
  BY <1>2 DEF Tri, Op, EXPR_OR, no, mod, yes
<1> QED BY <1>1, <1>2 DEF Connectives

\* c is what the other operands of the chain e are worth, without operand i.
Others(ty, v, t, e, i, c) ==
    /\ Value(e, ty, v) = Op(t, c, Value(At(t, e, i), ty, v))
    /\ \A o \in Over(ty) : o.type # t /\ Fits(t, e, i, o) =>
          Value(Put(t, e, i, o), ty, v) = Op(t, c, Value(o, ty, v))

\* The other operands of a chain, and those of its left or its right side.
LEMMA OthersSide ==
    ASSUME NEW ty, NEW v, Legal(ty, v), NEW t \in Connectives,
           NEW a \in Over(ty), NEW b \in Over(ty), NEW e \in Over(ty), e = TwoExpr(t, a, b), NEW c \in Tri
    PROVE  /\ \A i \in Slots(t, a) : Others(ty, v, t, a, i, c) =>
                 Others(ty, v, t, e, i, Op(t, c, Value(b, ty, v)))
           /\ \A i \in Slots(t, b) : Others(ty, v, t, b, i, c) =>
                 Others(ty, v, t, e, OperandCount(t, a) + i, Op(t, c, Value(a, ty, v)))
<1>1. a \in Exprs /\ b \in Exprs /\ e \in Exprs
  BY DEF Over
<1>2. Size(a) \in Nat /\ Size(b) \in Nat /\ Size(e) = Size(a) + Size(b)
  BY <1>1, SizeIs, ChainIs
<1>3. Value(a, ty, v) \in Tri /\ Value(b, ty, v) \in Tri
  BY ValueTri
<1>4. Value(e, ty, v) = Op(t, Value(a, ty, v), Value(b, ty, v))
  BY <1>1, TwoValue
<1>5. ASSUME NEW i \in Slots(t, a), Others(ty, v, t, a, i, c)
      PROVE  Others(ty, v, t, e, i, Op(t, c, Value(b, ty, v)))
  <2>1. At(t, e, i) = At(t, a, i)
    BY ChainIs
  <2>2. At(t, a, i) \in Over(ty) /\ At(t, a, i) \in Exprs
    BY AtIs DEF Over
  <2>3. Value(At(t, a, i), ty, v) \in Tri /\ Size(At(t, a, i)) \in Nat
    BY <2>2, ValueTri, SizeIs
  <2>4. Value(a, ty, v) = Op(t, c, Value(At(t, a, i), ty, v))
    BY <1>5 DEF Others
  <2>5. Value(e, ty, v) = Op(t, Op(t, c, Value(b, ty, v)), Value(At(t, e, i), ty, v))
    BY <1>3, <1>4, <2>1, <2>3, <2>4, OpMore
  <2>6. ASSUME NEW o \in Over(ty), o.type # t, Fits(t, e, i, o)
        PROVE  Value(Put(t, e, i, o), ty, v) = Op(t, Op(t, c, Value(b, ty, v)), Value(o, ty, v))
    <3>1. o \in Exprs /\ Value(o, ty, v) \in Tri
      BY ValueTri DEF Over
    <3>2. Size(o) \in Nat
      BY <3>1, SizeIs
    <3>3. Fits(t, a, i, o)
      BY <1>2, <2>1, <2>3, <2>6, <3>2, DepthAssumption DEF Fits
    <3>4. Value(Put(t, a, i, o), ty, v) = Op(t, c, Value(o, ty, v))
      BY <1>5, <2>6, <3>3 DEF Others
    <3>5. Put(t, e, i, o) = TwoExpr(t, Put(t, a, i, o), b)
      BY ChainPut
    <3>6. Put(t, e, i, o) \in Exprs
      <4>1. i \in Slots(t, e)
        BY ChainIs
      <4> QED BY <2>6, <4>1, PutIs DEF Swapped, Over
    <3>7. Value(Put(t, e, i, o), ty, v) = Op(t, Value(Put(t, a, i, o), ty, v), Value(b, ty, v))
      BY <3>5, <3>6, TwoValue
    <3> QED BY <1>3, <3>1, <3>4, <3>7, OpMore
  <2> QED BY <2>5, <2>6 DEF Others
<1>6. ASSUME NEW i \in Slots(t, b), Others(ty, v, t, b, i, c)
      PROVE  Others(ty, v, t, e, OperandCount(t, a) + i, Op(t, c, Value(a, ty, v)))
  <2> DEFINE k == OperandCount(t, a) + i
  <2>0. k = OperandCount(t, a) + i
    OBVIOUS
  <2> HIDE DEF k
  <2>1. At(t, e, k) = At(t, b, i) /\ k \in Slots(t, e)
    BY <2>0, ChainIs
  <2>2. At(t, b, i) \in Over(ty) /\ At(t, b, i) \in Exprs
    BY AtIs DEF Over
  <2>3. Value(At(t, b, i), ty, v) \in Tri /\ Size(At(t, b, i)) \in Nat
    BY <2>2, ValueTri, SizeIs
  <2>4. Value(b, ty, v) = Op(t, c, Value(At(t, b, i), ty, v))
    BY <1>6 DEF Others
  <2>5. Value(e, ty, v) = Op(t, Op(t, c, Value(a, ty, v)), Value(At(t, e, k), ty, v))
    <3>1. Op(t, c, Value(At(t, b, i), ty, v)) \in Tri
      BY <2>3, OpTri
    <3>2. Value(e, ty, v) = Op(t, Op(t, c, Value(At(t, b, i), ty, v)), Value(a, ty, v))
      BY <1>3, <1>4, <2>4, <3>1, OpMore
    <3> QED BY <1>3, <2>1, <2>3, <3>2, OpMore
  <2>6. ASSUME NEW o \in Over(ty), o.type # t, Fits(t, e, k, o)
        PROVE  Value(Put(t, e, k, o), ty, v) = Op(t, Op(t, c, Value(a, ty, v)), Value(o, ty, v))
    <3>1. o \in Exprs /\ Value(o, ty, v) \in Tri
      BY ValueTri DEF Over
    <3>2. Size(o) \in Nat
      BY <3>1, SizeIs
    <3>3. Fits(t, b, i, o)
      BY <1>2, <2>1, <2>3, <2>6, <3>2, DepthAssumption DEF Fits
    <3>4. Value(Put(t, b, i, o), ty, v) = Op(t, c, Value(o, ty, v))
      BY <1>6, <2>6, <3>3 DEF Others
    <3>5. Put(t, e, k, o) = TwoExpr(t, a, Put(t, b, i, o))
      BY <2>0, ChainPut
    <3>6. Put(t, e, k, o) \in Exprs
      BY <2>1, <2>6, PutIs DEF Swapped, Over
    <3>7. Value(Put(t, e, k, o), ty, v) = Op(t, Value(a, ty, v), Value(Put(t, b, i, o), ty, v))
      BY <3>5, <3>6, TwoValue
    <3>8. Op(t, c, Value(o, ty, v)) \in Tri
      BY <3>1, OpTri
    <3>9. Value(Put(t, e, k, o), ty, v) = Op(t, Op(t, c, Value(o, ty, v)), Value(a, ty, v))
      BY <1>3, <3>4, <3>7, <3>8, OpMore
    <3> QED BY <1>3, <3>1, <3>9, OpMore
  <2>7. Others(ty, v, t, e, k, Op(t, c, Value(a, ty, v)))
    BY <2>5, <2>6 DEF Others
  <2> QED BY <2>0, <2>7
<1> QED BY <1>5, <1>6

LEMMA PutValue ==
    ASSUME NEW ty, NEW v, Legal(ty, v), NEW t \in Connectives, NEW e \in Over(ty), NEW i \in Slots(t, e)
    PROVE  \E c \in Tri : Others(ty, v, t, e, i, c)
<1> DEFINE S == {p \in Over(ty) \X Nat : \E c \in Tri : Others(ty, v, t, p[1], p[2], c)}
<1>1. ASSUME NEW x \in Over(ty), x.type # t PROVE <<x, 1>> \in S
  <2>1. x \in Exprs
    BY DEF Over
  <2>2. At(t, x, 1) = x /\ \A o : Put(t, x, 1, o) = o
    BY <1>1, <2>1, AtDef, PutDef
  <2>3. \A o \in Over(ty) : Value(o, ty, v) \in Tri
    BY ValueTri
  <2>4. PICK c \in Tri : \A b \in Tri : Op(t, c, b) = b
    BY OpMore
  <2>5. Others(ty, v, t, x, 1, c)
    BY <2>2, <2>3, <2>4 DEF Others
  <2> QED BY <2>5
<1>2. ASSUME NEW a \in Over(ty), NEW b \in Over(ty), TwoExpr(t, a, b) \in Over(ty)
      PROVE  /\ \A j \in Slots(t, a) : <<a, j>> \in S => <<TwoExpr(t, a, b), j>> \in S
             /\ \A j \in Slots(t, b) : <<b, j>> \in S => <<TwoExpr(t, a, b), OperandCount(t, a) + j>> \in S
  <2>1. Value(a, ty, v) \in Tri /\ Value(b, ty, v) \in Tri
    BY ValueTri
  <2>2. OperandCount(t, a) \in Nat /\ \A j \in Slots(t, a) \cup Slots(t, b) : j \in Nat
    BY CountIs DEF Slots
  <2>3. ASSUME NEW j \in Slots(t, a), <<a, j>> \in S PROVE <<TwoExpr(t, a, b), j>> \in S
    <3>1. PICK c \in Tri : Others(ty, v, t, a, j, c)
      BY <2>3
    <3>2. Others(ty, v, t, TwoExpr(t, a, b), j, Op(t, c, Value(b, ty, v)))
      BY <1>2, <3>1, OthersSide
    <3> QED BY <1>2, <2>1, <2>2, <3>2, OpTri
  <2>4. ASSUME NEW j \in Slots(t, b), <<b, j>> \in S PROVE <<TwoExpr(t, a, b), OperandCount(t, a) + j>> \in S
    <3>1. PICK c \in Tri : Others(ty, v, t, b, j, c)
      BY <2>4
    <3>2. Others(ty, v, t, TwoExpr(t, a, b), OperandCount(t, a) + j, Op(t, c, Value(a, ty, v)))
      BY <1>2, <3>1, OthersSide
    <3>3. OperandCount(t, a) + j \in Nat
      BY <2>2
    <3> QED BY <1>2, <2>1, <3>2, <3>3, OpTri
  <2> QED BY <2>3, <2>4
<1> HIDE DEF S
<1>3. <<e, i>> \in S
  BY <1>1, <1>2, SlotInduction
<1> QED BY <1>3 DEF S

\* expr_join_or and expr_join_and find one operand for two only where both are operands or
\* their negations, and find an operand.
LEMMA JoinRules ==
    ASSUME NEW ty, NEW v, Legal(ty, v), NEW a \in Over(ty), NEW b \in Over(ty)
    PROVE  /\ JoinOrRule(a, b, ty) # NULL =>
                 a \in Nodes(ty) /\ b \in Nodes(ty) /\ JoinOrRule(a, b, ty) \in Atoms \cap Operands(ty)
           /\ JoinAndRule(a, b, ty, ConstSymbols) # NULL =>
                 /\ a \in Operands(ty) /\ b \in Operands(ty)
                 /\ JoinAndRule(a, b, ty, ConstSymbols) \in Atoms \cap Operands(ty)
<1>1. ASSUME NEW e \in Over(ty), e.type \in {"SYMBOL"} \cup Relations
      PROVE  e \in Operands(ty) /\ e \in Atoms /\ e.sym \in Names \cap DOMAIN ty
  <2>1. e \in Atoms /\ e \in Operands(ty)
    BY <1>1, OverShape DEF Relations, Equalities, Connectives, NULL
  <2> QED BY <2>1, OperandIs DEF Relations, Equalities
<1>2. ASSUME NEW e \in Over(ty), e.type = "NOT", e.arg.type = "SYMBOL"
      PROVE  e \in Nodes(ty)
  <2>1. e.arg \in Over(ty) /\ e = NotExpr(e.arg)
    BY <1>2, OverShape, AtomShape DEF Relations, Equalities, Connectives, NULL
  <2> QED BY <1>1, <1>2, <2>1 DEF Nodes
<1>3. ASSUME NEW s \in Names \cap DOMAIN ty
      PROVE  /\ SymbolExpr(s) \in Atoms \cap Operands(ty)
             /\ \A t \in Relations, r \in Tristates : CompExpr(t, s, r) \in Atoms \cap Operands(ty)
  <2>1. Tristates \subseteq Names \cap DOMAIN ty
    BY ConstantValue
  <2> QED BY <2>1, AtomsAre DEF Operands
<1>4. "y" \in Tristates /\ "n" \in Tristates /\ Tristates \subseteq Names \cap DOMAIN ty
  BY ConstantValue DEF Tristates
<1>5. JoinOrRule(a, b, ty) # NULL =>
         a \in Nodes(ty) /\ b \in Nodes(ty) /\ JoinOrRule(a, b, ty) \in Atoms \cap Operands(ty)
  <2> DEFINE Tests == /\ a.type = "EQUAL" /\ b.type = "EQUAL"
                      /\ a.sym = b.sym /\ ty[a.sym] = "TRISTATE" /\ TwoTristates(a, b)
             NotRight == /\ a.type = "SYMBOL" /\ ty[a.sym] = "BOOLEAN"
                         /\ b.type = "NOT" /\ IsSymbol(b.arg, a.sym)
             NotLeft == /\ b.type = "SYMBOL" /\ ty[b.sym] = "BOOLEAN"
                        /\ a.type = "NOT" /\ IsSymbol(a.arg, b.sym)
  <2>1. CASE Tests
    <3>1. a \in Operands(ty) /\ b \in Operands(ty) /\ a.sym \in Names \cap DOMAIN ty
      BY <1>1, <2>1 DEF Relations, Equalities
    <3>2. Third(a.with, b.with) \in Tristates
      BY <2>1, ThirdTristate DEF TwoTristates
    <3>3. JoinOrRule(a, b, ty) = CompExpr("UNEQUAL", a.sym, Third(a.with, b.with))
      BY <2>1 DEF JoinOrRule
    <3> QED BY <1>3, <3>1, <3>2, <3>3 DEF Nodes, Relations, Equalities
  <2>2. CASE NotRight
    <3>1. a \in Operands(ty) /\ b \in Nodes(ty)
      BY <1>1, <1>2, <2>2 DEF IsSymbol
    <3>2. JoinOrRule(a, b, ty) = SymbolExpr("y")
      BY <2>2 DEF JoinOrRule
    <3> QED BY <1>3, <1>4, <3>1, <3>2 DEF Nodes
  <2>3. CASE NotLeft
    <3>1. b \in Operands(ty) /\ a \in Nodes(ty)
      BY <1>1, <1>2, <2>3 DEF IsSymbol
    <3>2. JoinOrRule(a, b, ty) = SymbolExpr("y")
      BY <2>3 DEF JoinOrRule
    <3> QED BY <1>3, <1>4, <3>1, <3>2 DEF Nodes
  <2>4. CASE ~Tests /\ ~NotRight /\ ~NotLeft
    BY <2>4 DEF JoinOrRule
  <2> QED BY <2>1, <2>2, <2>3, <2>4
<1>6. ASSUME JoinAndRule(a, b, ty, ConstSymbols) # NULL
      PROVE  /\ a \in Operands(ty) /\ b \in Operands(ty)
             /\ JoinAndRule(a, b, ty, ConstSymbols) \in Atoms \cap Operands(ty)
  <2>1. /\ a.type \in {"SYMBOL"} \cup Equalities /\ b.type \in {"SYMBOL"} \cup Equalities
        /\ a.sym = b.sym
    BY <1>6 DEF JoinAndRule
  <2>2. /\ a \in Operands(ty) /\ b \in Operands(ty) /\ a \in Atoms /\ b \in Atoms
        /\ a.sym \in Names \cap DOMAIN ty
    BY <1>1, <2>1 DEF Relations
  <2>3. ASSUME NEW e \in {a, b}, JoinTestRule(a.sym, e) # NULL
        PROVE  JoinTestRule(a.sym, e) \in Atoms \cap Operands(ty)
    <3>1. JoinTestRule(a.sym, e) \in {e, SymbolExpr(a.sym), CompExpr("EQUAL", a.sym, "y")}
      BY <2>3 DEF JoinTestRule
    <3> QED BY <1>3, <1>4, <2>2, <3>1 DEF Relations, Equalities
  <2>4. \/ JoinAndRule(a, b, ty, ConstSymbols) \in {JoinTestRule(a.sym, b), JoinTestRule(a.sym, a)}
        \/ JoinAndRule(a, b, ty, ConstSymbols) \in {SymbolExpr("n"), a, b}
        \/ /\ TwoTristates(a, b)
           /\ JoinAndRule(a, b, ty, ConstSymbols) = CompExpr("EQUAL", a.sym, Third(a.with, b.with))
    BY <1>6, <2>1 DEF JoinAndRule
  <2>5. TwoTristates(a, b) => Third(a.with, b.with) \in Tristates
    BY ThirdTristate DEF TwoTristates
  <2> QED BY <1>3, <1>4, <1>6, <2>2, <2>3, <2>4, <2>5 DEF Relations, Equalities
<1> QED BY <1>5, <1>6

\* Two operands of a chain that are joined are one operand of the same value, and a smaller one.
LEMMA JoinKeeps ==
    ASSUME NEW ty, NEW v, Legal(ty, v), Constants(ConstSymbols, ty, v), NEW t \in Connectives,
           NEW a \in Over(ty), NEW b \in Over(ty), a.type # t,
           NEW j, j = Join(t, a, b, ty), j.type # "NULL"
    PROVE  /\ j \in Over(ty) /\ j.type # t
           /\ Size(j) + 1 <= Size(a) + Size(b)
           /\ Value(j, ty, v) = Op(t, Value(a, ty, v), Value(b, ty, v))
<1>1. a \in Exprs /\ b \in Exprs
  BY DEF Over
<1>2. Size(a) \in Nat /\ Size(a) >= 1 /\ Size(b) \in Nat /\ Size(b) >= 1
  BY <1>1, SizeIs
<1>3. CASE expr_eq(a, b)
  <2>1. Value(a, ty, v) = Value(b, ty, v) /\ Value(a, ty, v) \in Tri
    BY <1>3, EqualMeansEqual, ValueTri
  <2>2. j = a
    BY <1>3 DEF Join
  <2> QED BY <1>2, <2>1, <2>2, OpMore
<1>4. CASE ~expr_eq(a, b)
  <2>1. ASSUME j \in Atoms, j \in Operands(ty)
        PROVE  /\ j \in Over(ty) /\ j.type # t /\ Size(j) = 1
               /\ Value(j, ty, v) = NodeValue(j, ty, v) /\ Value(j, ty, v) = OperandValue(j, ty, v)
    <3>1. j \in Over(ty)
      BY <2>1, OperandIs, AtomsOver
    <3>2. j.type \notin Connectives \cup {"NOT"}
      BY <2>1, AtomShape DEF Connectives, Relations, Equalities
    <3>3. Size(j) = 1
      BY <3>1, <3>2, SizeDef DEF Over
    <3>4. Value(j, ty, v) = OperandValue(j, ty, v)
      BY <2>1, AtomValue
    <3> QED BY <3>1, <3>2, <3>3, <3>4 DEF NodeValue
  <2>2. CASE t = "OR"
    <3>1. j = JoinOrRule(a, b, ty) /\ j # NULL
      BY <1>4, <2>2 DEF Join, NULL
    <3>2. a \in Nodes(ty) /\ b \in Nodes(ty) /\ j \in Atoms /\ j \in Operands(ty)
      BY <3>1, JoinRules
    <3>3. NodeValue(j, ty, v) = EXPR_OR(NodeValue(a, ty, v), NodeValue(b, ty, v))
      BY <3>1, <3>2, JoinOrRuleSound
    <3>4. Value(a, ty, v) = NodeValue(a, ty, v) /\ Value(b, ty, v) = NodeValue(b, ty, v)
      BY <1>1, <3>2, NodeIsValue
    <3> QED BY <1>2, <2>1, <2>2, <3>2, <3>3, <3>4 DEF Op
  <2>3. CASE t = "AND"
    <3>1. j = JoinAndRule(a, b, ty, ConstSymbols) /\ j # NULL
      BY <1>4, <2>3 DEF Join, NULL
    <3>2. a \in Operands(ty) /\ b \in Operands(ty) /\ j \in Atoms /\ j \in Operands(ty)
      BY <3>1, JoinRules
    <3>3. OperandValue(j, ty, v) = EXPR_AND(OperandValue(a, ty, v), OperandValue(b, ty, v))
      BY <3>1, <3>2, JoinAndRuleSound
    <3>4. /\ Value(a, ty, v) = NodeValue(a, ty, v) /\ Value(b, ty, v) = NodeValue(b, ty, v)
          /\ NodeValue(a, ty, v) = OperandValue(a, ty, v) /\ NodeValue(b, ty, v) = OperandValue(b, ty, v)
      <4>1. a \in Nodes(ty) /\ b \in Nodes(ty) /\ a.type # "NOT" /\ b.type # "NOT"
        BY <3>2, OperandShape DEF Nodes
      <4> QED BY <1>1, <4>1, NodeIsValue DEF NodeValue
    <3> QED BY <1>2, <2>1, <2>3, <3>2, <3>3, <3>4 DEF Op
  <2> QED BY <2>2, <2>3 DEF Connectives
<1> QED BY <1>3, <1>4

----------------------------------------------------------------------------
(* Joining the operands of a chain.                                        *)

\* p is worth what the chain e of t is worth, is a chain of as many operands, and not larger.
Kin(ty, v, t, e, p) ==
    /\ p \in Over(ty) /\ Value(p, ty, v) = Value(e, ty, v) /\ Size(p) <= Size(e)
    /\ OperandCount(t, p) = OperandCount(t, e)
    /\ p.type = t <=> e.type = t

LEMMA KinOfKin ==
    ASSUME NEW ty, NEW v, NEW t, NEW e \in Over(ty)
    PROVE  /\ Kin(ty, v, t, e, e)
           /\ \A p, q : Kin(ty, v, t, e, p) /\ Kin(ty, v, t, p, q) => Kin(ty, v, t, e, q)
<1>1. \A x \in Over(ty) : Size(x) \in Nat
  BY SizeIs DEF Over
<1> QED BY <1>1 DEF Kin

\* An operand of a chain is replaced by one of the same value that is not larger.
LEMMA PutKeeps ==
    ASSUME NEW ty, NEW v, Legal(ty, v), NEW t \in Connectives, NEW e \in Over(ty), NEW i \in Slots(t, e),
           Size(e) <= MaxDepth + 1,
           NEW o \in Over(ty), o.type # t, Size(o) <= Size(At(t, e, i)),
           Value(o, ty, v) = Value(At(t, e, i), ty, v)
    PROVE  Kin(ty, v, t, e, Put(t, e, i, o))
<1>1. At(t, e, i) \in Over(ty)
  BY AtIs
<1>2. Size(e) \in Nat /\ Size(o) \in Nat /\ Size(At(t, e, i)) \in Nat
  BY <1>1, SizeIs DEF Over
<1>3. Fits(t, e, i, o)
  BY <1>2, DepthAssumption DEF Fits
<1>4. Swapped(ty, t, e, i, o, Put(t, e, i, o))
  BY <1>3, PutIs
<1>5. PICK c \in Tri : Others(ty, v, t, e, i, c)
  BY PutValue
<1>6. Value(Put(t, e, i, o), ty, v) = Value(e, ty, v)
  BY <1>3, <1>5 DEF Others
<1> QED BY <1>2, <1>4, <1>6 DEF Swapped, Kin

\* Two operands of a chain are replaced by the neutral one and one of the value of both.
LEMMA PairKeeps ==
    ASSUME NEW ty, NEW v, Legal(ty, v), NEW t \in Connectives, NEW e \in Over(ty), Size(e) <= MaxDepth + 1,
           NEW i \in Slots(t, e), NEW j \in Slots(t, e), i # j,
           NEW o \in Over(ty), o.type # t,
           Size(o) + 1 <= Size(At(t, e, i)) + Size(At(t, e, j)),
           Value(o, ty, v) = Op(t, Value(At(t, e, i), ty, v), Value(At(t, e, j), ty, v))
    PROVE  Kin(ty, v, t, e, Put(t, Put(t, e, i, Neutral(t)), j, o))
<1> DEFINE a == At(t, e, i)
           b == At(t, e, j)
           d == Put(t, e, i, Neutral(t))
           p == Put(t, d, j, o)
<1>1. a \in Over(ty) /\ b \in Over(ty)
  BY AtIs
<1>2. /\ Size(e) \in Nat /\ Size(o) \in Nat /\ Size(a) \in Nat /\ Size(b) \in Nat /\ Size(a) >= 1
      /\ Value(a, ty, v) \in Tri /\ Value(b, ty, v) \in Tri /\ Value(o, ty, v) \in Tri
  BY <1>1, SizeIs, ValueTri DEF Over
<1>3. /\ Neutral(t) \in Over(ty) /\ Neutral(t).type # t /\ Size(Neutral(t)) = 1
      /\ \A x \in Tri : Op(t, x, Value(Neutral(t), ty, v)) = x
  <2>1. Neutral(t) \in Atoms \cap Over(ty)
    BY ConstantValue DEF Neutral, Tristates, Connectives
  <2>2. Neutral(t).type = "SYMBOL"
    BY DEF Neutral, SymbolExpr
  <2>3. Size(Neutral(t)) = 1
    BY <2>1, <2>2, SizeDef DEF Over, Connectives
  <2>4. Value(Neutral(t), ty, v) = IF t = "AND" THEN yes ELSE no
    BY ConstantValue DEF Neutral, Tristates, Connectives
  <2>5. \A x \in Tri : Op(t, x, Value(Neutral(t), ty, v)) = x
    BY <2>4 DEF Op, Tri, EXPR_AND, EXPR_OR, Connectives, no, mod, yes
  <2> QED BY <2>1, <2>2, <2>3, <2>5 DEF Connectives
<1> DEFINE neutral == Neutral(t)
<1>4. Fits(t, e, i, neutral)
  BY <1>2, <1>3, DepthAssumption DEF Fits
<1>5. Swapped(ty, t, e, i, neutral, d)
  BY <1>3, <1>4, PutIs
<1>6. PICK c \in Tri : Others(ty, v, t, e, i, c)
  BY PutValue
<1>7. Value(e, ty, v) = Op(t, c, Value(a, ty, v)) /\ Value(d, ty, v) = c
  BY <1>3, <1>4, <1>6 DEF Others
<1>8. d \in Over(ty) /\ j \in Slots(t, d) /\ At(t, d, j) = b /\ Size(d) = Size(e) - Size(a) + 1
  BY <1>3, <1>5 DEF Swapped, Slots
<1>9. Fits(t, d, j, o)
  BY <1>2, <1>8, DepthAssumption DEF Fits
<1> HIDE DEF d
<1>10. Swapped(ty, t, d, j, o, p)
  BY <1>8, <1>9, PutIs
<1>11. PICK c2 \in Tri : Others(ty, v, t, d, j, c2)
  BY <1>8, PutValue
<1>12. Value(d, ty, v) = Op(t, c2, Value(b, ty, v)) /\ Value(p, ty, v) = Op(t, c2, Value(o, ty, v))
  BY <1>8, <1>9, <1>11 DEF Others
<1> DEFINE A == Value(a, ty, v)
           B == Value(b, ty, v)
<1>13. A \in Tri /\ B \in Tri /\ Value(o, ty, v) = Op(t, A, B)
  BY <1>2
<1>14. Value(e, ty, v) = Op(t, Op(t, c2, B), A) /\ Value(p, ty, v) = Op(t, c2, Op(t, A, B))
  BY <1>7, <1>12
<1> HIDE DEF A, B
<1>15. Op(t, Op(t, c2, B), A) = Op(t, Op(t, c2, A), B) /\ Op(t, Op(t, c2, A), B) = Op(t, c2, Op(t, A, B))
  BY <1>13, OpMore
<1>16. Value(p, ty, v) = Value(e, ty, v)
  BY <1>14, <1>15
<1>17. /\ p \in Over(ty) /\ Size(p) = Size(d) - Size(b) + Size(o)
       /\ OperandCount(t, p) = OperandCount(t, d) /\ (p.type = t <=> d.type = t)
  BY <1>8, <1>10 DEF Swapped
<1>18. OperandCount(t, d) = OperandCount(t, e) /\ (d.type = t <=> e.type = t)
  BY <1>5 DEF Swapped
<1>19. Size(p) <= Size(e)
  BY <1>2, <1>8, <1>17
<1>20. Kin(ty, v, t, e, p)
  BY <1>16, <1>17, <1>18, <1>19 DEF Kin
<1> QED BY <1>20 DEF d

\* What simplifies a condition inside another keeps its value and its type.
Simplifies(ty, v, within) ==
    \A x \in Over(ty) : Size(x) <= MaxDepth + 1 =>
        /\ within[x].e \in Over(ty) /\ Value(within[x].e, ty, v) = Value(x, ty, v)
        /\ Size(within[x].e) <= Size(x) /\ within[x].e.type = x.type

LEMMA JoinTwoKeeps ==
    ASSUME NEW ty, NEW v, Legal(ty, v), Constants(ConstSymbols, ty, v), NEW t \in Connectives,
           NEW within, Simplifies(ty, v, within),
           NEW r, r.e \in Over(ty), Size(r.e) <= MaxDepth + 1,
           NEW i \in Slots(t, r.e), NEW j \in Slots(t, r.e)
    PROVE  Kin(ty, v, t, r.e, JoinTwo(t, r, i, j, ty, within).e)
<1> DEFINE x == At(t, r.e, i)
           w == within[x]
           p == Put(t, r.e, i, w.e)
           q == IF x.type \in Connectives THEN [e |-> p, count |-> r.count + w.count] ELSE r
           joined == Join(t, At(t, q.e, i), At(t, q.e, j), ty)
           both == Put(t, Put(t, q.e, i, Neutral(t)), j, joined)
<1>1. JoinTwo(t, r, i, j, ty, within).e =
         IF i = j THEN r.e ELSE IF joined.type = "NULL" THEN q.e ELSE both
  <2>1. JoinTwo(t, r, i, j, ty, within) =
           IF i = j THEN r ELSE IF joined.type = "NULL" THEN q
           ELSE [e |-> both, count |-> q.count + 1]
    BY DEF JoinTwo, JoinPair, PutJoined, WithinOne
  <2> QED BY <2>1
<1>2. q.e = IF x.type \in Connectives THEN p ELSE r.e
  OBVIOUS
<1> HIDE DEF q
<1>3. Kin(ty, v, t, r.e, q.e)
  <2>1. CASE x.type \in Connectives
    <3>1. x \in Over(ty) /\ x.type # t /\ Size(x) <= Size(r.e)
      BY AtIs
    <3>2. Size(x) \in Nat /\ Size(r.e) \in Nat
      BY <3>1, SizeIs DEF Over
    <3>3. Size(x) <= MaxDepth + 1
      BY <3>1, <3>2, DepthAssumption
    <3>4. /\ w.e \in Over(ty) /\ Value(w.e, ty, v) = Value(x, ty, v)
          /\ Size(w.e) <= Size(x) /\ w.e.type # t
      BY <3>1, <3>3 DEF Simplifies
    <3>5. Kin(ty, v, t, r.e, p)
      BY <3>4, PutKeeps
    <3> QED BY <1>2, <2>1, <3>5
  <2>2. CASE x.type \notin Connectives
    BY <1>2, <2>2, KinOfKin
  <2> QED BY <2>1, <2>2
<1>4. q.e \in Over(ty) /\ Size(q.e) <= MaxDepth + 1 /\ i \in Slots(t, q.e) /\ j \in Slots(t, q.e)
  <2>1. q.e \in Over(ty) /\ Size(q.e) <= Size(r.e) /\ OperandCount(t, q.e) = OperandCount(t, r.e)
    BY <1>3 DEF Kin
  <2>2. Size(q.e) \in Nat /\ Size(r.e) \in Nat
    BY <2>1, SizeIs DEF Over
  <2> QED BY <2>1, <2>2, DepthAssumption DEF Slots
<1>5. CASE i # j /\ joined.type # "NULL"
  <2> DEFINE a == At(t, q.e, i)
             b == At(t, q.e, j)
  <2>1. a \in Over(ty) /\ b \in Over(ty) /\ a.type # t
    BY <1>4, AtIs
  <2>2. /\ joined \in Over(ty) /\ joined.type # t /\ Size(joined) + 1 <= Size(a) + Size(b)
        /\ Value(joined, ty, v) = Op(t, Value(a, ty, v), Value(b, ty, v))
    BY <1>5, <2>1, JoinKeeps
  <2> HIDE DEF joined
  <2>3. Kin(ty, v, t, q.e, Put(t, Put(t, q.e, i, Neutral(t)), j, joined))
    BY <1>4, <1>5, <2>2, PairKeeps
  <2>4. Kin(ty, v, t, r.e, both)
    BY <1>3, <2>3, KinOfKin
  <2> QED BY <1>1, <1>5, <2>4
<1>6. CASE ~(i # j /\ joined.type # "NULL")
  <2>1. Kin(ty, v, t, r.e, r.e)
    BY KinOfKin
  <2> QED BY <1>1, <1>3, <1>6, <2>1
<1> QED BY <1>5, <1>6

\* What the loops over the operands and over the depth of an expression make of each step.
LEMMA JoinOneDef ==
    ASSUME NEW t, NEW r, NEW i, NEW ty, NEW within, NEW N \in Nat, N = OperandCount(t, r.e)
    PROVE  \E f : /\ JoinOne(t, r, i, ty, within) = f[N] /\ f[0] = r
                  /\ \A n \in 0..N : n # 0 => f[n] = JoinTwo(t, f[n - 1], i, n, ty, within)
<1> DEFINE Body(f, n) == IF n = 0 THEN r ELSE JoinTwo(t, f[n - 1], i, n, ty, within)
           Is(f, m) == f = [n \in 0..m |-> Body(f, n)]
           S == {m \in 0..N : \E f : Is(f, m)}
<1>0. 0 \in 0..N /\ N \in 0..N /\ N \in Nat
  BY DepthAssumption
<1>1. ASSUME NEW f, NEW g, NEW n \in 0..N, n # 0 => f[n - 1] = g[n - 1]
      PROVE  Body(f, n) = Body(g, n)
  <2>1. CASE n = 0
    BY <2>1
  <2>2. CASE n # 0
    BY <1>1, <2>2
  <2> QED BY <2>1, <2>2
<1>2. \A f : Body(f, 0) = r
  OBVIOUS
<1>3. \A f, n : n \in 0..N /\ n # 0 => Body(f, n) = JoinTwo(t, f[n - 1], i, n, ty, within)
  OBVIOUS
<1> HIDE DEF Body
<1>4. 0 \in S
  <2> DEFINE g == [n \in 0..0 |-> r]
  <2>1. Is(g, 0)
    BY <1>2
  <2> QED BY <1>0, <2>1
<1>5. ASSUME NEW m \in 0..N, m \in S, m < N PROVE m + 1 \in S
  <2>1. PICK g : Is(g, m)
    BY <1>5
  <2> DEFINE h == [n \in 0..m + 1 |-> Body(g, n)]
  <2>2. ASSUME NEW n \in 0..m + 1 PROVE Body(h, n) = Body(g, n)
    <3>1. n # 0 => h[n - 1] = g[n - 1]
      BY <2>1
    <3>2. n \in 0..N
      BY <1>0, <1>5
    <3> QED BY <1>1, <3>1, <3>2
  <2>3. Is(h, m + 1)
    BY <2>2
  <2>4. m + 1 \in 0..N
    BY <1>0, <1>5
  <2> QED BY <2>3, <2>4
<1>6. N \in S
  <2> HIDE DEF S
  <2>1. 0..N \subseteq S
    BY <1>0, <1>4, <1>5, Induction
  <2> QED BY <1>0, <2>1
<1> DEFINE against == CHOOSE f : f = [n \in 0..N |-> Body(f, n)]
<1>7. against = [n \in 0..N |-> Body(against, n)]
  BY <1>6
<1>8. JoinOne(t, r, i, ty, within) = against[N]
  BY DEF JoinOne, Body
<1> HIDE DEF against
<1>9. \A n \in 0..N : against[n] = Body(against, n)
  BY <1>7
<1>10. against[0] = r /\ \A n \in 0..N : n # 0 => against[n] = JoinTwo(t, against[n - 1], i, n, ty, within)
  BY <1>0, <1>2, <1>3, <1>9
<1> QED BY <1>8, <1>10

LEMMA JoinAllDef ==
    ASSUME NEW t, NEW e, NEW ty, NEW within, NEW N \in Nat, N = OperandCount(t, e)
    PROVE  \E f : /\ JoinAll(t, e, ty, within) = f[N] /\ f[0].e = e
                  /\ \A n \in 0..N : n # 0 => f[n] = JoinOne(t, f[n - 1], n, ty, within)
<1> DEFINE Body(f, n) == IF n = 0 THEN [e |-> e, count |-> 0] ELSE JoinOne(t, f[n - 1], n, ty, within)
           Is(f, m) == f = [n \in 0..m |-> Body(f, n)]
           S == {m \in 0..N : \E f : Is(f, m)}
<1>0. 0 \in 0..N /\ N \in 0..N /\ N \in Nat
  BY DepthAssumption
<1>1. ASSUME NEW f, NEW g, NEW n \in 0..N, n # 0 => f[n - 1] = g[n - 1]
      PROVE  Body(f, n) = Body(g, n)
  <2>1. CASE n = 0
    BY <2>1
  <2>2. CASE n # 0
    BY <1>1, <2>2
  <2> QED BY <2>1, <2>2
<1>2. \A f : Body(f, 0) = [e |-> e, count |-> 0]
  OBVIOUS
<1>3. \A f, n : n \in 0..N /\ n # 0 => Body(f, n) = JoinOne(t, f[n - 1], n, ty, within)
  OBVIOUS
<1> HIDE DEF Body
<1>4. 0 \in S
  <2> DEFINE g == [n \in 0..0 |-> [e |-> e, count |-> 0]]
  <2>1. Is(g, 0)
    BY <1>2
  <2> QED BY <1>0, <2>1
<1>5. ASSUME NEW m \in 0..N, m \in S, m < N PROVE m + 1 \in S
  <2>1. PICK g : Is(g, m)
    BY <1>5
  <2> DEFINE h == [n \in 0..m + 1 |-> Body(g, n)]
  <2>2. ASSUME NEW n \in 0..m + 1 PROVE Body(h, n) = Body(g, n)
    <3>1. n # 0 => h[n - 1] = g[n - 1]
      BY <2>1
    <3>2. n \in 0..N
      BY <1>0, <1>5
    <3> QED BY <1>1, <3>1, <3>2
  <2>3. Is(h, m + 1)
    BY <2>2
  <2>4. m + 1 \in 0..N
    BY <1>0, <1>5
  <2> QED BY <2>3, <2>4
<1>6. N \in S
  <2> HIDE DEF S
  <2>1. 0..N \subseteq S
    BY <1>0, <1>4, <1>5, Induction
  <2> QED BY <1>0, <2>1
<1> DEFINE joined == CHOOSE f : f = [n \in 0..N |-> Body(f, n)]
<1>7. joined = [n \in 0..N |-> Body(joined, n)]
  BY <1>6
<1>8. JoinAll(t, e, ty, within) = joined[N]
  BY DEF JoinAll, Body
<1> HIDE DEF joined
<1>9. \A n \in 0..N : joined[n] = Body(joined, n)
  BY <1>7
<1>10. joined[0].e = e /\ \A n \in 0..N : n # 0 => joined[n] = JoinOne(t, joined[n - 1], n, ty, within)
  BY <1>0, <1>2, <1>3, <1>9
<1> QED BY <1>8, <1>10

LEMMA Dups1Def ==
    ASSUME NEW ty, NEW N, N = MaxDepth
    PROVE  \E f : /\ \A e : expr_eliminate_dups1(e, ty) = f[N][e]
                  /\ \A n \in 0..N, x \in Exprs :
                        f[n][x] = IF n = 0 \/ x.type \notin Connectives THEN [e |-> x, count |-> 0]
                                  ELSE JoinAll(x.type, x, ty, f[n - 1])
<1> DEFINE Body(f, n) == [x \in Exprs |->
               IF n = 0 \/ x.type \notin Connectives THEN [e |-> x, count |-> 0]
               ELSE JoinAll(x.type, x, ty, f[n - 1])]
           Is(f, m) == f = [n \in 0..m |-> Body(f, n)]
           S == {m \in 0..N : \E f : Is(f, m)}
<1>0. 0 \in 0..N /\ N \in 0..N /\ N \in Nat
  BY DepthAssumption
<1>1. ASSUME NEW f, NEW g, NEW n \in 0..N, n # 0 => f[n - 1] = g[n - 1]
      PROVE  Body(f, n) = Body(g, n)
  <2>1. CASE n = 0
    BY <2>1
  <2>2. CASE n # 0
    BY <1>1, <2>2
  <2> QED BY <2>1, <2>2
<1>2. \A f : Body(f, 0) = [x \in Exprs |-> [e |-> x, count |-> 0]]
  OBVIOUS
<1>3. \A f, n : n \in 0..N /\ n # 0 => Body(f, n) = 
      [x \in Exprs |-> IF x.type \notin Connectives THEN [e |-> x, count |-> 0]
                       ELSE JoinAll(x.type, x, ty, f[n - 1])]
  OBVIOUS
<1> HIDE DEF Body
<1>4. 0 \in S
  <2> DEFINE g == [n \in 0..0 |-> [x \in Exprs |-> [e |-> x, count |-> 0]]]
  <2>1. Is(g, 0)
    BY <1>2
  <2> QED BY <1>0, <2>1
<1>5. ASSUME NEW m \in 0..N, m \in S, m < N PROVE m + 1 \in S
  <2>1. PICK g : Is(g, m)
    BY <1>5
  <2> DEFINE h == [n \in 0..m + 1 |-> Body(g, n)]
  <2>2. ASSUME NEW n \in 0..m + 1 PROVE Body(h, n) = Body(g, n)
    <3>1. n # 0 => h[n - 1] = g[n - 1]
      BY <2>1
    <3>2. n \in 0..N
      BY <1>0, <1>5
    <3> QED BY <1>1, <3>1, <3>2
  <2>3. Is(h, m + 1)
    BY <2>2
  <2>4. m + 1 \in 0..N
    BY <1>0, <1>5
  <2> QED BY <2>3, <2>4
<1>6. N \in S
  <2> HIDE DEF S
  <2>1. 0..N \subseteq S
    BY <1>0, <1>4, <1>5, Induction
  <2> QED BY <1>0, <2>1
<1> DEFINE joined == CHOOSE f : f = [n \in 0..N |-> Body(f, n)]
<1>7. joined = [n \in 0..N |-> Body(joined, n)]
  BY <1>6
<1>8. \A e : expr_eliminate_dups1(e, ty) = joined[N][e]
  BY DEF expr_eliminate_dups1, Body
<1> HIDE DEF joined
<1>9. \A n \in 0..N : joined[n] = Body(joined, n)
  BY <1>7
<1>10. ASSUME NEW n \in 0..N, NEW x \in Exprs
       PROVE  joined[n][x] = IF n = 0 \/ x.type \notin Connectives THEN [e |-> x, count |-> 0]
                             ELSE JoinAll(x.type, x, ty, joined[n - 1])
  <2>1. joined[n] = Body(joined, n)
    BY <1>9
  <2> QED BY <2>1 DEF Body
<1> QED BY <1>8, <1>10

LEMMA DupsDef ==
    ASSUME NEW ty, NEW N, N = MaxDepth
    PROVE  \E f : /\ \A e : expr_eliminate_dups(e, ty) = f[N][e]
                  /\ \A n \in 0..N, x \in Exprs : \E r :
                        /\ r = expr_eliminate_dups1(x, ty)
                        /\ f[n][x] = IF n = 0 \/ r.count = 0 THEN r.e
                                     ELSE f[n - 1][expr_eliminate_yn(r.e)]
<1> DEFINE Body(f, n) == [x \in Exprs |->
               LET r == expr_eliminate_dups1(x, ty)
               IN IF n = 0 \/ r.count = 0 THEN r.e ELSE f[n - 1][expr_eliminate_yn(r.e)]]
           Is(f, m) == f = [n \in 0..m |-> Body(f, n)]
           S == {m \in 0..N : \E f : Is(f, m)}
<1>0. 0 \in 0..N /\ N \in 0..N /\ N \in Nat
  BY DepthAssumption
<1>1. ASSUME NEW f, NEW g, NEW n \in 0..N, n # 0 => f[n - 1] = g[n - 1]
      PROVE  Body(f, n) = Body(g, n)
  <2>1. CASE n = 0
    BY <2>1
  <2>2. CASE n # 0
    BY <1>1, <2>2
  <2> QED BY <2>1, <2>2
<1>2. \A f : Body(f, 0) = [x \in Exprs |-> expr_eliminate_dups1(x, ty).e]
  OBVIOUS
<1>3. \A f, n : n \in 0..N /\ n # 0 => Body(f, n) = 
      [x \in Exprs |-> LET r == expr_eliminate_dups1(x, ty)
                       IN IF r.count = 0 THEN r.e ELSE f[n - 1][expr_eliminate_yn(r.e)]]
  OBVIOUS
<1> HIDE DEF Body
<1>4. 0 \in S
  <2> DEFINE g == [n \in 0..0 |-> [x \in Exprs |-> expr_eliminate_dups1(x, ty).e]]
  <2>1. Is(g, 0)
    BY <1>2
  <2> QED BY <1>0, <2>1
<1>5. ASSUME NEW m \in 0..N, m \in S, m < N PROVE m + 1 \in S
  <2>1. PICK g : Is(g, m)
    BY <1>5
  <2> DEFINE h == [n \in 0..m + 1 |-> Body(g, n)]
  <2>2. ASSUME NEW n \in 0..m + 1 PROVE Body(h, n) = Body(g, n)
    <3>1. n # 0 => h[n - 1] = g[n - 1]
      BY <2>1
    <3>2. n \in 0..N
      BY <1>0, <1>5
    <3> QED BY <1>1, <3>1, <3>2
  <2>3. Is(h, m + 1)
    BY <2>2
  <2>4. m + 1 \in 0..N
    BY <1>0, <1>5
  <2> QED BY <2>3, <2>4
<1>6. N \in S
  <2> HIDE DEF S
  <2>1. 0..N \subseteq S
    BY <1>0, <1>4, <1>5, Induction
  <2> QED BY <1>0, <2>1
<1> DEFINE again == CHOOSE f : f = [n \in 0..N |-> Body(f, n)]
<1>7. again = [n \in 0..N |-> Body(again, n)]
  BY <1>6
<1>8. \A e : expr_eliminate_dups(e, ty) = again[N][e]
  BY DEF expr_eliminate_dups, Body
<1> HIDE DEF again
<1>9. \A n \in 0..N : again[n] = Body(again, n)
  BY <1>7
<1>10. \A n \in 0..N, x \in Exprs : \E r :
          /\ r = expr_eliminate_dups1(x, ty)
          /\ again[n][x] = IF n = 0 \/ r.count = 0 THEN r.e ELSE again[n - 1][expr_eliminate_yn(r.e)]
  <2> SUFFICES ASSUME NEW n \in 0..N, NEW x \in Exprs, NEW r, r = expr_eliminate_dups1(x, ty)
               PROVE  again[n][x] = IF n = 0 \/ r.count = 0 THEN r.e
                                    ELSE again[n - 1][expr_eliminate_yn(r.e)]
    OBVIOUS
  <2>1. again[n][x] = Body(again, n)[x]
    BY <1>9
  <2>2. Body(again, n)[x] = IF n = 0 \/ r.count = 0 THEN r.e
                            ELSE again[n - 1][expr_eliminate_yn(r.e)]
    BY DEF Body
  <2> QED BY <2>1, <2>2
<1> QED BY <1>8, <1>10

LEMMA JoinOneKeeps ==
    ASSUME NEW ty, NEW v, Legal(ty, v), Constants(ConstSymbols, ty, v), NEW t \in Connectives,
           NEW within, Simplifies(ty, v, within),
           NEW r, r.e \in Over(ty), Size(r.e) <= MaxDepth + 1, NEW i \in Slots(t, r.e)
    PROVE  Kin(ty, v, t, r.e, JoinOne(t, r, i, ty, within).e)
<1> DEFINE N == OperandCount(t, r.e)
<1>1. N \in Nat /\ Size(r.e) \in Nat
  BY CountIs, SizeIs DEF Over
<1>2. PICK f : /\ JoinOne(t, r, i, ty, within) = f[N] /\ f[0] = r
               /\ \A n \in 0..N : n # 0 => f[n] = JoinTwo(t, f[n - 1], i, n, ty, within)
  BY <1>1, JoinOneDef
<1> DEFINE S == {n \in 0..N : Kin(ty, v, t, r.e, f[n].e)}
<1>3. 0 \in S
  BY <1>1, <1>2, KinOfKin
<1>4. ASSUME NEW m \in 0..N, m \in S, m < N PROVE m + 1 \in S
  <2> DEFINE q == f[m]
  <2>1. Kin(ty, v, t, r.e, q.e)
    BY <1>4
  <2>2. f[m + 1] = JoinTwo(t, q, i, m + 1, ty, within) /\ m + 1 \in 0..N
    <3>1. m + 1 \in 0..N /\ m + 1 # 0 /\ (m + 1) - 1 = m
      BY <1>1, <1>4
    <3>2. f[m + 1] = JoinTwo(t, f[(m + 1) - 1], i, m + 1, ty, within)
      BY <1>2, <3>1
    <3> QED BY <3>1, <3>2
  <2> HIDE DEF q
  <2>3. q.e \in Over(ty) /\ Size(q.e) <= Size(r.e) /\ OperandCount(t, q.e) = N
    BY <2>1 DEF Kin
  <2>4. Size(q.e) \in Nat
    BY <2>3, SizeIs DEF Over
  <2>5. Size(q.e) <= MaxDepth + 1 /\ i \in Slots(t, q.e) /\ m + 1 \in Slots(t, q.e)
    BY <1>1, <2>2, <2>3, <2>4, DepthAssumption DEF Slots
  <2>6. Kin(ty, v, t, q.e, JoinTwo(t, q, i, m + 1, ty, within).e)
    BY <2>3, <2>5, JoinTwoKeeps
  <2>7. Kin(ty, v, t, r.e, f[m + 1].e)
    BY <2>1, <2>2, <2>6, KinOfKin
  <2> QED BY <2>2, <2>7
<1> HIDE DEF S
<1>5. 0..N \subseteq S
  BY <1>1, <1>3, <1>4, Induction
<1> QED BY <1>1, <1>2, <1>5 DEF S

LEMMA JoinAllKeeps ==
    ASSUME NEW ty, NEW v, Legal(ty, v), Constants(ConstSymbols, ty, v), NEW t \in Connectives,
           NEW within, Simplifies(ty, v, within), NEW e \in Over(ty), Size(e) <= MaxDepth + 1
    PROVE  Kin(ty, v, t, e, JoinAll(t, e, ty, within).e)
<1> DEFINE N == OperandCount(t, e)
<1>1. N \in Nat /\ Size(e) \in Nat
  BY CountIs, SizeIs DEF Over
<1>0. N = OperandCount(t, e)
  OBVIOUS
<1> HIDE DEF N
<1>2. PICK f : /\ JoinAll(t, e, ty, within) = f[N] /\ f[0].e = e
               /\ \A n \in 0..N : n # 0 => f[n] = JoinOne(t, f[n - 1], n, ty, within)
  BY <1>0, <1>1, JoinAllDef
<1> DEFINE S == {n \in 0..N : Kin(ty, v, t, e, f[n].e)}
<1>3. 0 \in S
  BY <1>1, <1>2, KinOfKin
<1>4. ASSUME NEW m \in 0..N, m \in S, m < N PROVE m + 1 \in S
  <2> DEFINE q == f[m]
  <2>1. Kin(ty, v, t, e, q.e)
    BY <1>4
  <2>2. f[m + 1] = JoinOne(t, q, m + 1, ty, within) /\ m + 1 \in 0..N
    <3>1. m + 1 \in 0..N /\ m + 1 # 0 /\ (m + 1) - 1 = m
      BY <1>1, <1>4
    <3>2. f[m + 1] = JoinOne(t, f[(m + 1) - 1], m + 1, ty, within)
      BY <1>2, <3>1
    <3> QED BY <3>1, <3>2
  <2> HIDE DEF q
  <2>3. q.e \in Over(ty) /\ Size(q.e) <= Size(e) /\ OperandCount(t, q.e) = N
    BY <1>0, <2>1 DEF Kin
  <2>4. Size(q.e) \in Nat
    BY <2>3, SizeIs DEF Over
  <2>5. Size(q.e) <= MaxDepth + 1 /\ m + 1 \in Slots(t, q.e)
    BY <1>1, <2>2, <2>3, <2>4, DepthAssumption DEF Slots
  <2>6. Kin(ty, v, t, q.e, JoinOne(t, q, m + 1, ty, within).e)
    BY <2>3, <2>5, JoinOneKeeps
  <2>7. Kin(ty, v, t, e, f[m + 1].e)
    BY <2>1, <2>2, <2>6, KinOfKin
  <2> QED BY <2>2, <2>7
<1> HIDE DEF S
<1>5. 0..N \subseteq S
  BY <1>1, <1>3, <1>4, Induction
<1> QED BY <1>1, <1>2, <1>5 DEF S

\* One pass of expr_eliminate_dups1 over all operands, and over those of the operands.
LEMMA Dups1Keeps ==
    ASSUME NEW ty, NEW v, Legal(ty, v), Constants(ConstSymbols, ty, v),
           NEW e \in Over(ty), Size(e) <= MaxDepth + 1, NEW r, r = expr_eliminate_dups1(e, ty)
    PROVE  r.e \in Over(ty) /\ Value(r.e, ty, v) = Value(e, ty, v) /\ Size(r.e) <= Size(e)
<1>1. PICK f : /\ \A x : expr_eliminate_dups1(x, ty) = f[MaxDepth][x]
               /\ \A n \in 0..MaxDepth, x \in Exprs :
                     f[n][x] = IF n = 0 \/ x.type \notin Connectives THEN [e |-> x, count |-> 0]
                               ELSE JoinAll(x.type, x, ty, f[n - 1])
  BY Dups1Def
<1> DEFINE S == {n \in 0..MaxDepth : Simplifies(ty, v, f[n])}
<1>2. ASSUME NEW n \in 0..MaxDepth, n # 0 => n - 1 \in S PROVE n \in S
  <2> SUFFICES ASSUME NEW x \in Over(ty), Size(x) <= MaxDepth + 1
               PROVE  /\ f[n][x].e \in Over(ty) /\ Value(f[n][x].e, ty, v) = Value(x, ty, v)
                      /\ Size(f[n][x].e) <= Size(x) /\ f[n][x].e.type = x.type
    BY DEF Simplifies
  <2>1. x \in Exprs
    BY DEF Over
  <2>2. Size(x) \in Nat
    BY <2>1, SizeIs
  <2>3. CASE n = 0 \/ x.type \notin Connectives
    <3>1. f[n][x] = [e |-> x, count |-> 0]
      BY <1>1, <2>1, <2>3
    <3> QED BY <2>2, <3>1
  <2>4. CASE n # 0 /\ x.type \in Connectives
    <3>1. f[n][x] = JoinAll(x.type, x, ty, f[n - 1])
      BY <1>1, <2>1, <2>4
    <3>2. Simplifies(ty, v, f[n - 1])
      BY <1>2, <2>4
    <3>3. Kin(ty, v, x.type, x, f[n][x].e)
      BY <2>4, <3>1, <3>2, JoinAllKeeps
    <3> QED BY <3>3 DEF Kin
  <2> QED BY <2>3, <2>4
<1>3. 0 \in S
  BY <1>2, DepthAssumption
<1>4. ASSUME NEW n \in 0..MaxDepth, n \in S, n < MaxDepth PROVE n + 1 \in S
  <2>1. n + 1 \in 0..MaxDepth /\ (n + 1) - 1 = n
    BY <1>4, DepthAssumption
  <2> HIDE DEF S
  <2> QED BY <1>2, <1>4, <2>1
<1>5. MaxDepth \in S
  <2> HIDE DEF S
  <2>1. 0..MaxDepth \subseteq S
    BY <1>3, <1>4, DepthAssumption, Induction
  <2> QED BY <2>1, DepthAssumption
<1>6. Simplifies(ty, v, f[MaxDepth]) /\ r = f[MaxDepth][e]
  BY <1>1, <1>5
<1> QED BY <1>6 DEF Simplifies

\* expr_eliminate_yn makes nothing larger.
LEMMA EliminateYnSize ==
    ASSUME NEW ty, NEW v, Legal(ty, v), NEW e \in Over(ty)
    PROVE  Size(expr_eliminate_yn(e)) <= Size(e)
<1> DEFINE S == {x \in Over(ty) : Size(expr_eliminate_yn(x)) <= Size(x)}
<1>1. ASSUME NEW x \in Over(ty), x.type \notin Connectives PROVE x \in S
  <2>1. x \in Exprs
    BY DEF Over
  <2>2. expr_eliminate_yn(x) = x /\ Size(x) \in Nat
    BY <1>1, <2>1, EliminateYnDef, SizeIs
  <2> QED BY <2>2
<1>2. Over(ty) \cap Atoms \subseteq S
  BY <1>1, AtomShape DEF Connectives, Relations, Equalities
<1>3. \A a \in S : NotExpr(a) \in Over(ty) => NotExpr(a) \in S
  BY <1>1, Selectors DEF Connectives
<1>4. ASSUME NEW a \in S, NEW b \in S, NEW t \in Connectives, TwoExpr(t, a, b) \in Over(ty)
      PROVE  TwoExpr(t, a, b) \in S
  <2> DEFINE x == TwoExpr(t, a, b)
             c == expr_eliminate_yn(a)
             d == expr_eliminate_yn(b)
  <2>1. x \in Exprs /\ x.type = t /\ x.left = a /\ x.right = b
    BY <1>4, Selectors DEF Over
  <2>2. expr_eliminate_yn(x) = YnRule(TwoExpr(t, c, d)) /\ Size(x) = Size(a) + Size(b)
    <3> HIDE DEF x
    <3> QED BY <2>1, EliminateYnDef, SizeDef
  <2>3. TwoExpr(t, c, d) \in Over(ty) /\ c \in Over(ty) /\ d \in Over(ty)
    <3>1. MaxDepth \in 0..MaxDepth /\ x \in OverAt(ty, MaxDepth)
      BY <1>4, DepthAssumption, OverLayers
    <3> DEFINE n == MaxDepth - 1
    <3>2. n \in 0..MaxDepth /\ n < MaxDepth /\ a \in OverAt(ty, n) /\ b \in OverAt(ty, n)
      <4>1. x \notin Atoms
        BY <2>1, AtomShape DEF Connectives, Relations, Equalities
      <4>2. x.type # "NOT"
        BY <2>1 DEF Connectives
      <4> HIDE DEF x
      <4> QED BY <2>1, <3>1, <4>1, <4>2, OverAtShape
    <3> HIDE DEF n
    <3>3. c \in OverAt(ty, n) /\ d \in OverAt(ty, n)
      BY <3>2, EliminateYnSound
    <3> QED BY <3>2, <3>3, OverAtAre
  <2>4. /\ Size(a) \in Nat /\ Size(b) \in Nat /\ Size(c) \in Nat /\ Size(d) \in Nat
        /\ Size(a) >= 1 /\ Size(b) >= 1 /\ Size(c) <= Size(a) /\ Size(d) <= Size(b)
    BY <1>4, <2>3, SizeIs DEF Over
  <2>5. Size(TwoExpr(t, c, d)) = Size(c) + Size(d)
    BY <2>3, SizeDef, Selectors DEF Over
  <2>6. Size(Absorbing(t)) = 1
    <3>1. Absorbing(t) \in Atoms \cap Over(ty) /\ Absorbing(t).type = "SYMBOL"
      BY ConstantValue DEF Absorbing, Tristates, Connectives, SymbolExpr
    <3> QED BY <3>1, SizeDef DEF Over, Connectives
  <2> HIDE DEF c, d
  <2>7. YnRule(TwoExpr(t, c, d)) \in {Absorbing(t), c, d, TwoExpr(t, c, d)}
    BY Selectors DEF YnRule
  <2>8. Size(YnRule(TwoExpr(t, c, d))) <= Size(a) + Size(b)
    BY <2>4, <2>5, <2>6, <2>7
  <2> QED BY <1>4, <2>2, <2>8
<1> HIDE DEF S
<1>5. Over(ty) \subseteq S
  BY <1>2, <1>3, <1>4, OverInduction
<1> QED BY <1>5 DEF S

\* expr_eliminate_dups, which joins the operands of a condition until nothing is joined, keeps
\* what the condition is worth, for every condition that is not larger than the model's bound.
THEOREM EliminateDupsSound ==
    ASSUME NEW ty, NEW v, Legal(ty, v), Constants(ConstSymbols, ty, v),
           NEW e \in Over(ty), Size(e) <= MaxDepth + 1
    PROVE  /\ expr_eliminate_dups(e, ty) \in Over(ty)
           /\ Value(expr_eliminate_dups(e, ty), ty, v) = Value(e, ty, v)
           /\ Size(expr_eliminate_dups(e, ty)) <= Size(e)
<1>1. PICK f : /\ \A x : expr_eliminate_dups(x, ty) = f[MaxDepth][x]
               /\ \A n \in 0..MaxDepth, x \in Exprs : \E r :
                     /\ r = expr_eliminate_dups1(x, ty)
                     /\ f[n][x] = IF n = 0 \/ r.count = 0 THEN r.e
                                  ELSE f[n - 1][expr_eliminate_yn(r.e)]
  BY DupsDef
<1> DEFINE Is(n) == \A x \in Over(ty) : Size(x) <= MaxDepth + 1 =>
                       /\ f[n][x] \in Over(ty) /\ Value(f[n][x], ty, v) = Value(x, ty, v)
                       /\ Size(f[n][x]) <= Size(x)
           S == {n \in 0..MaxDepth : Is(n)}
<1>2. ASSUME NEW n \in 0..MaxDepth, n # 0 => n - 1 \in S PROVE n \in S
  <2> SUFFICES ASSUME NEW x \in Over(ty), Size(x) <= MaxDepth + 1
               PROVE  /\ f[n][x] \in Over(ty) /\ Value(f[n][x], ty, v) = Value(x, ty, v)
                      /\ Size(f[n][x]) <= Size(x)
    OBVIOUS
  <2>1. x \in Exprs
    BY DEF Over
  <2>2. PICK r : /\ r = expr_eliminate_dups1(x, ty)
                 /\ f[n][x] = IF n = 0 \/ r.count = 0 THEN r.e ELSE f[n - 1][expr_eliminate_yn(r.e)]
    BY <1>1, <2>1
  <2>3. r.e \in Over(ty) /\ Value(r.e, ty, v) = Value(x, ty, v) /\ Size(r.e) <= Size(x)
    BY <2>2, Dups1Keeps
  <2>4. CASE n = 0 \/ r.count = 0
    BY <2>2, <2>3, <2>4
  <2>5. CASE ~(n = 0 \/ r.count = 0)
    <3> DEFINE y == expr_eliminate_yn(r.e)
    <3>1. f[n][x] = f[n - 1][y] /\ n - 1 \in S
      BY <1>2, <2>2, <2>5
    <3>2. y \in Over(ty) /\ Value(y, ty, v) = Value(x, ty, v)
      <4>1. r.e \in OverAt(ty, MaxDepth) /\ MaxDepth \in 0..MaxDepth
        BY <2>3, OverLayers, DepthAssumption
      <4>2. y \in OverAt(ty, MaxDepth) /\ Value(y, ty, v) = Value(r.e, ty, v)
        BY <4>1, EliminateYnSound
      <4> QED BY <2>3, <4>1, <4>2, OverLayers
    <3>3. Size(y) <= Size(r.e)
      BY <2>3, EliminateYnSize
    <3>4. Size(y) \in Nat /\ Size(r.e) \in Nat /\ Size(x) \in Nat
      BY <2>3, <3>2, SizeIs DEF Over
    <3>5. Size(y) <= Size(x) /\ Size(y) <= MaxDepth + 1
      BY <2>3, <3>3, <3>4, DepthAssumption
    <3> HIDE DEF y
    <3>6. f[n - 1][y] \in Over(ty) /\ Value(f[n - 1][y], ty, v) = Value(y, ty, v) /\ Size(f[n - 1][y]) <= Size(y)
      BY <3>1, <3>2, <3>5
    <3>7. Size(f[n - 1][y]) \in Nat
      BY <3>6, SizeIs DEF Over
    <3> QED BY <3>1, <3>2, <3>4, <3>5, <3>6, <3>7
  <2> QED BY <2>4, <2>5
<1>3. 0 \in S
  BY <1>2, DepthAssumption
<1>4. ASSUME NEW n \in 0..MaxDepth, n \in S, n < MaxDepth PROVE n + 1 \in S
  <2>1. n + 1 \in 0..MaxDepth /\ (n + 1) - 1 = n
    BY <1>4, DepthAssumption
  <2> HIDE DEF S
  <2> QED BY <1>2, <1>4, <2>1
<1>5. MaxDepth \in S
  <2> HIDE DEF S
  <2>1. 0..MaxDepth \subseteq S
    BY <1>3, <1>4, DepthAssumption, Induction
  <2> QED BY <2>1, DepthAssumption
<1>6. Is(MaxDepth) /\ expr_eliminate_dups(e, ty) = f[MaxDepth][e]
  BY <1>1, <1>5
<1> QED BY <1>6

----------------------------------------------------------------------------
(* How large the rewritings of a condition are.                            *)

\* The operands of an expression, and whether it negates nothing else.
Leaves(e) ==
    LET leaves[x \in Exprs] ==
            CASE x.type \in Connectives -> leaves[x.left] + leaves[x.right]
              [] x.type = "NOT" -> leaves[x.arg]
              [] OTHER -> 1
    IN leaves[e]

NegatesOperands(e) ==
    LET negates[x \in Exprs] ==
            CASE x.type \in Connectives -> negates[x.left] /\ negates[x.right]
              [] x.type = "NOT" -> Size(x.arg) = 1
              [] OTHER -> TRUE
    IN negates[e]

LEMMA LeavesDef ==
    ASSUME NEW e \in Exprs
    PROVE  /\ e.type \in Connectives => Leaves(e) = Leaves(e.left) + Leaves(e.right)
           /\ e.type = "NOT" => Leaves(e) = Leaves(e.arg)
           /\ e.type \notin Connectives \cup {"NOT"} => Leaves(e) = 1
<1> DEFINE Body(f, x) ==
               CASE x.type \in Connectives -> f[x.left] + f[x.right]
                 [] x.type = "NOT" -> f[x.arg]
                 [] OTHER -> 1
           S == {n \in 0..MaxDepth + 1 : \E f : f = [x \in Below(n) |-> Body(f, x)]}
<1>1. ASSUME NEW f, NEW g, NEW E, NEW x, PartsIn(x, E), \A y \in E : f[y] = g[y]
      PROVE  Body(f, x) = Body(g, x)
  BY <1>1, AtomShape DEF PartsIn, Connectives, Relations, Equalities
<1> HIDE DEF Body
<1>2. ASSUME NEW n \in 0..MaxDepth, n \in S PROVE n + 1 \in S
  <2>1. PICK f : f = [x \in Below(n) |-> Body(f, x)]
    BY <1>2
  <2> DEFINE g == [x \in Below(n + 1) |-> Body(f, x)]
  <2>2. \A y \in Below(n) : g[y] = f[y]
    BY <2>1, BelowShape
  <2>3. \A x \in Below(n + 1) : Body(g, x) = Body(f, x)
    BY <1>1, <2>2, BelowShape
  <2>4. g = [x \in Below(n + 1) |-> Body(g, x)]
    BY <2>3
  <2>5. n + 1 \in 0..MaxDepth + 1
    BY DepthAssumption
  <2> QED BY <2>4, <2>5
<1>3. 0 \in S
  <2>1. \E f : f = [x \in Below(0) |-> Body(f, x)]
    BY DEF Below
  <2> QED BY <2>1, DepthAssumption
<1>4. \E f : f = [x \in Exprs |-> Body(f, x)]
  <2> HIDE DEF S
  <2>1. MaxDepth + 1 \in S
    BY <1>2, <1>3, LayerInduction
  <2> QED BY <2>1, BelowShape DEF S
<1> DEFINE leaves == CHOOSE f : f = [x \in Exprs |-> Body(f, x)]
<1>5. leaves = [x \in Exprs |-> Body(leaves, x)]
  BY <1>4
<1>6. \A x : Leaves(x) = leaves[x]
  BY DEF Leaves, Body
<1> HIDE DEF leaves
<1>7. leaves[e] = Body(leaves, e)
  BY <1>5
<1> QED BY <1>6, <1>7 DEF Body, Connectives

LEMMA NegatesDef ==
    ASSUME NEW e \in Exprs
    PROVE  /\ e.type \in Connectives =>
                 (NegatesOperands(e) <=> NegatesOperands(e.left) /\ NegatesOperands(e.right))
           /\ e.type = "NOT" => (NegatesOperands(e) <=> Size(e.arg) = 1)
           /\ e.type \notin Connectives \cup {"NOT"} => NegatesOperands(e)
<1> DEFINE Body(f, x) ==
               CASE x.type \in Connectives -> f[x.left] /\ f[x.right]
                 [] x.type = "NOT" -> Size(x.arg) = 1
                 [] OTHER -> TRUE
           S == {n \in 0..MaxDepth + 1 : \E f : f = [x \in Below(n) |-> Body(f, x)]}
<1>1. ASSUME NEW f, NEW g, NEW E, NEW x, PartsIn(x, E), \A y \in E : f[y] = g[y]
      PROVE  Body(f, x) = Body(g, x)
  BY <1>1, AtomShape DEF PartsIn, Connectives, Relations, Equalities
<1> HIDE DEF Body
<1>2. ASSUME NEW n \in 0..MaxDepth, n \in S PROVE n + 1 \in S
  <2>1. PICK f : f = [x \in Below(n) |-> Body(f, x)]
    BY <1>2
  <2> DEFINE g == [x \in Below(n + 1) |-> Body(f, x)]
  <2>2. \A y \in Below(n) : g[y] = f[y]
    BY <2>1, BelowShape
  <2>3. \A x \in Below(n + 1) : Body(g, x) = Body(f, x)
    BY <1>1, <2>2, BelowShape
  <2>4. g = [x \in Below(n + 1) |-> Body(g, x)]
    BY <2>3
  <2>5. n + 1 \in 0..MaxDepth + 1
    BY DepthAssumption
  <2> QED BY <2>4, <2>5
<1>3. 0 \in S
  <2>1. \E f : f = [x \in Below(0) |-> Body(f, x)]
    BY DEF Below
  <2> QED BY <2>1, DepthAssumption
<1>4. \E f : f = [x \in Exprs |-> Body(f, x)]
  <2> HIDE DEF S
  <2>1. MaxDepth + 1 \in S
    BY <1>2, <1>3, LayerInduction
  <2> QED BY <2>1, BelowShape DEF S
<1> DEFINE negates == CHOOSE f : f = [x \in Exprs |-> Body(f, x)]
<1>5. negates = [x \in Exprs |-> Body(negates, x)]
  BY <1>4
<1>6. \A x : NegatesOperands(x) = negates[x]
  BY DEF NegatesOperands, Body
<1> HIDE DEF negates
<1>7. negates[e] = Body(negates, e)
  BY <1>5
<1> QED BY <1>6, <1>7 DEF Body, Connectives

LEMMA LeavesAre ==
    ASSUME NEW ty, NEW n \in 0..MaxDepth, n < MaxDepth,
           NEW t \in Connectives, NEW a \in OverAt(ty, n), NEW b \in OverAt(ty, n)
    PROVE  /\ Size(NotExpr(a)) = Size(a) + 1 /\ Size(TwoExpr(t, a, b)) = Size(a) + Size(b)
           /\ Leaves(NotExpr(a)) = Leaves(a) /\ Leaves(TwoExpr(t, a, b)) = Leaves(a) + Leaves(b)
           /\ NegatesOperands(TwoExpr(t, a, b)) <=> NegatesOperands(a) /\ NegatesOperands(b)
           /\ NegatesOperands(NotExpr(a)) <=> Size(a) = 1
<1>1. NotExpr(a) \in Exprs /\ TwoExpr(t, a, b) \in Exprs
  BY OverAtAre DEF Over
<1>2. Size(NotExpr(a)) = Size(a) + 1 /\ Size(TwoExpr(t, a, b)) = Size(a) + Size(b)
  BY <1>1, SizeDef, Selectors
<1>3. Leaves(NotExpr(a)) = Leaves(a) /\ Leaves(TwoExpr(t, a, b)) = Leaves(a) + Leaves(b)
  BY <1>1, LeavesDef, Selectors
<1>4. NegatesOperands(TwoExpr(t, a, b)) <=> NegatesOperands(a) /\ NegatesOperands(b)
  BY <1>1, NegatesDef, Selectors
<1>5. NegatesOperands(NotExpr(a)) <=> Size(a) = 1
  BY <1>1, NegatesDef, Selectors
<1> QED BY <1>2, <1>3, <1>4, <1>5

LEMMA LeafIs ==
    ASSUME NEW e \in Exprs, e.type \notin Connectives \cup {"NOT"}
    PROVE  Size(e) = 1 /\ Leaves(e) = 1 /\ NegatesOperands(e)
  BY SizeDef, LeavesDef, NegatesDef

\* An expression has at least as many operands and negations as it has operands; and at most
\* twice as many, if it negates nothing but operands.
LEMMA LeavesBound ==
    ASSUME NEW ty, NEW e \in Over(ty)
    PROVE  /\ Leaves(e) \in Nat /\ Leaves(e) <= Size(e) /\ Size(e) \in Nat
           /\ NegatesOperands(e) => Size(e) <= 2 * Leaves(e)
           /\ Leaves(e) >= 1
<1> DEFINE Is(x) == /\ Leaves(x) \in Nat /\ Leaves(x) >= 1 /\ Leaves(x) <= Size(x) /\ Size(x) \in Nat
                    /\ NegatesOperands(x) => Size(x) <= 2 * Leaves(x)
           S == {x \in Over(ty) : Is(x)}
<1>1. Over(ty) \cap Atoms \subseteq S
  <2> SUFFICES ASSUME NEW x \in Over(ty), x \in Atoms PROVE Is(x)
    OBVIOUS
  <2>1. x \in Exprs /\ x.type \notin Connectives \cup {"NOT"}
    BY AtomShape DEF Over, Connectives, Relations, Equalities
  <2> QED BY <2>1, LeafIs
<1>2. ASSUME NEW a \in S, NotExpr(a) \in Over(ty) PROVE NotExpr(a) \in S
  <2>1. NotExpr(a) \in Exprs
    BY <1>2 DEF Over
  <2>2. Size(NotExpr(a)) = Size(a) + 1
    BY <2>1, SizeDef, Selectors
  <2>3. Leaves(NotExpr(a)) = Leaves(a)
    BY <2>1, LeavesDef, Selectors
  <2>4. NegatesOperands(NotExpr(a)) <=> Size(a) = 1
    BY <2>1, NegatesDef, Selectors
  <2> QED BY <1>2, <2>2, <2>3, <2>4
<1>3. ASSUME NEW a \in S, NEW b \in S, NEW t \in Connectives, TwoExpr(t, a, b) \in Over(ty)
      PROVE  TwoExpr(t, a, b) \in S
  <2>1. TwoExpr(t, a, b) \in Exprs
    BY <1>3 DEF Over
  <2>2. Size(TwoExpr(t, a, b)) = Size(a) + Size(b)
    BY <2>1, SizeDef, Selectors
  <2>3. Leaves(TwoExpr(t, a, b)) = Leaves(a) + Leaves(b)
    BY <2>1, LeavesDef, Selectors
  <2>4. NegatesOperands(TwoExpr(t, a, b)) <=> NegatesOperands(a) /\ NegatesOperands(b)
    BY <2>1, NegatesDef, Selectors
  <2> QED BY <1>3, <2>2, <2>3, <2>4
<1> HIDE DEF S
<1>4. Over(ty) \subseteq S
  BY <1>1, <1>2, <1>3, OverInduction
<1> QED BY <1>4 DEF S

LEMMA RewriteMSize ==
    ASSUME NEW ty, NEW v, Legal(ty, v), NEW n \in 0..MaxDepth, n < MaxDepth,
           NEW M \in DOMAIN ty \cap Names, NEW e \in OverAt(ty, n)
    PROVE  Leaves(rewrite_m(e, M)) <= 2 * Size(e)
<1> DEFINE Is(x) == Leaves(rewrite_m(x, M)) <= 2 * Size(x)
           S == [m \in 0..MaxDepth |-> {x \in OverAt(ty, m) : m < MaxDepth => Is(x)}]
<1>1. ASSUME NEW m \in 0..MaxDepth, m < MaxDepth, NEW x \in Atoms \cap OverAt(ty, m)
      PROVE  Is(x)
  <2>1. x \in Exprs /\ x.type \notin Connectives \cup {"NOT"}
    BY AtomShape, OverLayers DEF Over, Connectives, Relations, Equalities
  <2>2. Size(x) = 1 /\ Leaves(x) = 1
    BY <2>1, LeafIs
  <2>3. CASE IsSymbol(x, "m")
    <3>1. SymbolExpr(M) \in OverAt(ty, m) /\ SymbolExpr(M) \in Exprs /\ x.type = "SYMBOL"
      BY <2>3, AtomsOver, OverLayers DEF IsSymbol, Over
    <3>2. SymbolExpr(M).type = "SYMBOL"
      BY DEF SymbolExpr
    <3>3. rewrite_m(x, M) = TwoExpr("AND", x, SymbolExpr(M))
      BY <2>1, <2>3, <3>1, <3>2, RewriteMDef DEF expr_alloc_and
    <3>4. Leaves(SymbolExpr(M)) = 1
      BY <3>1, <3>2, LeafIs DEF Connectives
    <3>5. Leaves(TwoExpr("AND", x, SymbolExpr(M))) = Leaves(x) + Leaves(SymbolExpr(M))
      BY <1>1, <3>1, LeavesAre DEF Connectives
    <3> QED BY <2>2, <3>3, <3>4, <3>5
  <2>4. CASE ~IsSymbol(x, "m")
    BY <2>1, <2>2, <2>4, RewriteMDef
  <2> QED BY <2>3, <2>4
<1>2. ASSUME NEW m \in 0..MaxDepth, m < MaxDepth, NEW t \in Connectives,
             NEW a \in OverAt(ty, m) \cap S[m], NEW b \in OverAt(ty, m) \cap S[m]
      PROVE  NotExpr(a) \in S[m + 1] /\ TwoExpr(t, a, b) \in S[m + 1]
  <2>1. /\ m + 1 \in 0..MaxDepth
        /\ NotExpr(a) \in OverAt(ty, m + 1) /\ NotExpr(a) \in Exprs
        /\ TwoExpr(t, a, b) \in OverAt(ty, m + 1) /\ TwoExpr(t, a, b) \in Exprs
        /\ a \in Over(ty) /\ b \in Over(ty)
    BY <1>2, OverAtAre DEF Over
  <2>2. Size(NotExpr(a)) = Size(a) + 1 /\ Size(TwoExpr(t, a, b)) = Size(a) + Size(b)
    BY <1>2, LeavesAre
  <2>3. /\ rewrite_m(NotExpr(a), M) = NotExpr(rewrite_m(a, M))
        /\ rewrite_m(TwoExpr(t, a, b), M) = TwoExpr(t, rewrite_m(a, M), rewrite_m(b, M))
    BY <2>1, RewriteMDef, Selectors
  <2>4. Is(a) /\ Is(b)
    BY <1>2
  <2>5. rewrite_m(a, M) \in OverAt(ty, m + 1) /\ rewrite_m(b, M) \in OverAt(ty, m + 1)
    BY <1>2, RewriteMSound
  <2>6. /\ Leaves(rewrite_m(a, M)) \in Nat /\ Leaves(rewrite_m(b, M)) \in Nat
        /\ Size(a) \in Nat /\ Size(b) \in Nat
    BY <2>1, <2>5, OverLayers, LeavesBound
  <2>7. ASSUME m + 1 < MaxDepth PROVE Is(NotExpr(a)) /\ Is(TwoExpr(t, a, b))
    <3>1. /\ Leaves(NotExpr(rewrite_m(a, M))) = Leaves(rewrite_m(a, M))
          /\ Leaves(TwoExpr(t, rewrite_m(a, M), rewrite_m(b, M))) =
                 Leaves(rewrite_m(a, M)) + Leaves(rewrite_m(b, M))
      BY <2>1, <2>5, <2>7, LeavesAre
    <3> QED BY <2>2, <2>3, <2>4, <2>6, <3>1
  <2> QED BY <2>1, <2>7
<1>3. \A m \in 0..MaxDepth : Atoms \cap OverAt(ty, m) \subseteq S[m]
  <2> SUFFICES ASSUME NEW m \in 0..MaxDepth, NEW x \in Atoms \cap OverAt(ty, m) PROVE x \in S[m]
    OBVIOUS
  <2> QED BY <1>1
<1>4. S[n] = {x \in OverAt(ty, n) : n < MaxDepth => Is(x)}
  OBVIOUS
<1> HIDE DEF S, Is
<1>5. OverAt(ty, n) \subseteq S[n]
  BY <1>2, <1>3, OverAtInduction
<1> QED BY <1>4, <1>5 DEF Is

LEMMA NegatedSize ==
    ASSUME NEW ty, NEW v, Legal(ty, v), NEW n \in 0..MaxDepth, n < MaxDepth,
           NEW e \in OverAt(ty, n), NegatesOperands(e)
    PROVE  NegatesOperands(Negated(e)) /\ Leaves(Negated(e)) = Leaves(e)
<1> DEFINE Is(x) == NegatesOperands(x) => NegatesOperands(Negated(x)) /\ Leaves(Negated(x)) = Leaves(x)
           S == [m \in 0..MaxDepth |-> {x \in OverAt(ty, m) : m < MaxDepth => Is(x)}]
<1>1. ASSUME NEW m \in 0..MaxDepth, m < MaxDepth, NEW x \in Atoms \cap OverAt(ty, m)
      PROVE  Is(x)
  <2>1. x \in Exprs /\ x.type \notin Connectives \cup {"NOT"}
    BY AtomShape, OverLayers DEF Over, Connectives, Relations, Equalities
  <2>2. Size(x) = 1 /\ Leaves(x) = 1
    BY <2>1, LeafIs
  <2>3. Negated(x) = NotExpr(x) \/ Negated(x) \in Atoms \cap Over(ty)
    <3>1. Negated(x) = NegationRule(x)
      BY <2>1, NegatedDef
    <3>2. CASE x = NULL
      BY <3>1, <3>2 DEF NegationRule, NULL, Relations, Equalities
    <3>3. CASE x \in Operands(ty)
      BY <3>1, <3>3, NegationRuleShape
    <3> QED BY <2>1, <3>2, <3>3, OverAtShape
  <2>4. CASE Negated(x) = NotExpr(x)
    BY <1>1, <2>2, <2>4, LeavesAre DEF Connectives
  <2>5. CASE Negated(x) \in Atoms \cap Over(ty)
    <3>1. Negated(x) \in Exprs /\ Negated(x).type \notin Connectives \cup {"NOT"}
      BY <2>5, AtomShape DEF Over, Connectives, Relations, Equalities
    <3> QED BY <2>2, <3>1, LeafIs
  <2> QED BY <2>3, <2>4, <2>5
<1>2. ASSUME NEW m \in 0..MaxDepth, m < MaxDepth, NEW t \in Connectives,
             NEW a \in OverAt(ty, m) \cap S[m], NEW b \in OverAt(ty, m) \cap S[m]
      PROVE  NotExpr(a) \in S[m + 1] /\ TwoExpr(t, a, b) \in S[m + 1]
  <2>1. /\ m + 1 \in 0..MaxDepth
        /\ NotExpr(a) \in OverAt(ty, m + 1) /\ NotExpr(a) \in Exprs
        /\ TwoExpr(t, a, b) \in OverAt(ty, m + 1) /\ TwoExpr(t, a, b) \in Exprs
        /\ a \in Over(ty) /\ b \in Over(ty) /\ a \in Exprs
    BY <1>2, OverAtAre DEF Over
  <2>2. Is(a) /\ Is(b)
    BY <1>2
  <2>3. Is(NotExpr(a))
    <3>1. Negated(NotExpr(a)) = a /\ Leaves(NotExpr(a)) = Leaves(a)
      BY <1>2, <2>1, NegatedDef, Selectors, LeavesAre DEF Connectives
    <3>2. NegatesOperands(NotExpr(a)) => Size(a) = 1
      BY <1>2, LeavesAre
    <3>3. ASSUME Size(a) = 1 PROVE NegatesOperands(a)
      <4>1. CASE a.type \in Connectives
        <5>1. Size(a) = Size(a.left) + Size(a.right) /\ a.left \in Exprs /\ a.right \in Exprs
          BY <2>1, <4>1, SizeDef, ExprParts, AtomShape DEF PartsIn, Connectives, Relations, Equalities
        <5>2. Size(a.left) \in Nat /\ Size(a.left) >= 1 /\ Size(a.right) \in Nat /\ Size(a.right) >= 1
          BY <5>1, SizeIs
        <5> QED BY <3>3, <5>1, <5>2
      <4>2. CASE a.type = "NOT"
        <5>1. Size(a) = Size(a.arg) + 1 /\ a.arg \in Exprs
          BY <2>1, <4>2, SizeDef, ExprParts, AtomShape DEF PartsIn, Connectives, Relations, Equalities
        <5>2. Size(a.arg) \in Nat /\ Size(a.arg) >= 1
          BY <5>1, SizeIs
        <5> QED BY <3>3, <5>1, <5>2
      <4>3. CASE a.type \notin Connectives \cup {"NOT"}
        BY <2>1, <4>3, LeafIs
      <4> QED BY <4>1, <4>2, <4>3
    <3> QED BY <3>1, <3>2, <3>3
  <2>4. ASSUME m + 1 < MaxDepth PROVE Is(TwoExpr(t, a, b))
    <3>1. Negated(TwoExpr(t, a, b)) = TwoExpr(Dual(t), Negated(a), Negated(b)) /\ Dual(t) \in Connectives
      BY <2>1, NegatedDef, Selectors DEF Connectives, Dual
    <3>2. Negated(a) \in OverAt(ty, m + 1) /\ Negated(b) \in OverAt(ty, m + 1)
      BY <1>2, NegatedSound
    <3>3. /\ Leaves(Negated(TwoExpr(t, a, b))) = Leaves(Negated(a)) + Leaves(Negated(b))
          /\ NegatesOperands(Negated(TwoExpr(t, a, b))) <=>
                 NegatesOperands(Negated(a)) /\ NegatesOperands(Negated(b))
      BY <2>1, <2>4, <3>1, <3>2, LeavesAre
    <3>4. /\ Leaves(TwoExpr(t, a, b)) = Leaves(a) + Leaves(b)
          /\ NegatesOperands(TwoExpr(t, a, b)) <=> NegatesOperands(a) /\ NegatesOperands(b)
      BY <1>2, LeavesAre
    <3> QED BY <2>2, <3>3, <3>4
  <2> QED BY <2>1, <2>3, <2>4
<1>3. \A m \in 0..MaxDepth : Atoms \cap OverAt(ty, m) \subseteq S[m]
  <2> SUFFICES ASSUME NEW m \in 0..MaxDepth, NEW x \in Atoms \cap OverAt(ty, m) PROVE x \in S[m]
    OBVIOUS
  <2> QED BY <1>1
<1>4. S[n] = {x \in OverAt(ty, n) : n < MaxDepth => Is(x)}
  OBVIOUS
<1> HIDE DEF S, Is
<1>5. OverAt(ty, n) \subseteq S[n]
  BY <1>2, <1>3, OverAtInduction
<1> QED BY <1>4, <1>5 DEF Is

\* expr_transform negates nothing but operands, and keeps their number.
LEMMA TransformSize ==
    ASSUME NEW ty, NEW v, Legal(ty, v), NEW n \in 0..MaxDepth, n < MaxDepth,
           NEW e \in OverAt(ty, n)
    PROVE  NegatesOperands(expr_transform(e, ty)) /\ Leaves(expr_transform(e, ty)) = Leaves(e)
<1> DEFINE Is(x) == NegatesOperands(expr_transform(x, ty)) /\ Leaves(expr_transform(x, ty)) = Leaves(x)
           S == [m \in 0..MaxDepth |-> {x \in OverAt(ty, m) : m < MaxDepth => Is(x)}]
<1>1. ASSUME NEW m \in 0..MaxDepth, m < MaxDepth, NEW x \in Atoms \cap OverAt(ty, m)
      PROVE  Is(x)
  <2>1. x \in Exprs /\ x.type \notin Connectives \cup {"NOT"}
    BY AtomShape, OverLayers DEF Over, Connectives, Relations, Equalities
  <2>2. Size(x) = 1 /\ Leaves(x) = 1 /\ NegatesOperands(x)
    BY <2>1, LeafIs
  <2>3. CASE x.type \notin Equalities
    BY <2>1, <2>2, <2>3, TransformDef
  <2>4. CASE x.type \in Equalities
    <3>1. expr_transform(x, ty) = BoolTestRule(x, ty)
      BY <2>1, <2>4, TransformDef
    <3>2. BoolTestRule(x, ty) \in {x, SymbolExpr("y"), SymbolExpr("n"), SymbolExpr(x.sym),
                                   NotExpr(SymbolExpr(x.sym))}
      BY DEF BoolTestRule
    <3>3. /\ SymbolExpr(x.sym) \in OverAt(ty, m)
          /\ SymbolExpr("y") \in Exprs /\ SymbolExpr("n") \in Exprs
      <4>1. x.type \in Relations /\ x # NULL
        BY <2>4 DEF Relations, Equalities, NULL
      <4>2. x.sym \in Names \cap DOMAIN ty
        BY <2>1, <2>4, <4>1, OverAtShape, OperandIs DEF Relations, Equalities
      <4> QED BY <4>2, AtomsOver, ConstantValue, OverLayers DEF Tristates, Over
    <3>4. ASSUME NEW s, SymbolExpr(s) \in Exprs
          PROVE  Size(SymbolExpr(s)) = 1 /\ Leaves(SymbolExpr(s)) = 1 /\ NegatesOperands(SymbolExpr(s))
      <4>1. SymbolExpr(s).type = "SYMBOL"
        BY DEF SymbolExpr
      <4> QED BY <3>4, <4>1, LeafIs DEF Connectives
    <3>5. /\ Leaves(NotExpr(SymbolExpr(x.sym))) = 1 /\ NegatesOperands(NotExpr(SymbolExpr(x.sym)))
          /\ SymbolExpr(x.sym) \in Exprs
      <4>1. SymbolExpr(x.sym) \in Exprs
        BY <3>3, OverLayers DEF Over
      <4>2. /\ Leaves(NotExpr(SymbolExpr(x.sym))) = Leaves(SymbolExpr(x.sym))
            /\ NegatesOperands(NotExpr(SymbolExpr(x.sym))) <=> Size(SymbolExpr(x.sym)) = 1
        BY <1>1, <3>3, LeavesAre DEF Connectives
      <4> QED BY <3>4, <4>1, <4>2
    <3> QED BY <2>2, <3>1, <3>2, <3>3, <3>4, <3>5
  <2> QED BY <2>3, <2>4
<1>2. ASSUME NEW m \in 0..MaxDepth, m < MaxDepth, NEW t \in Connectives,
             NEW a \in OverAt(ty, m) \cap S[m], NEW b \in OverAt(ty, m) \cap S[m]
      PROVE  NotExpr(a) \in S[m + 1] /\ TwoExpr(t, a, b) \in S[m + 1]
  <2>1. /\ m + 1 \in 0..MaxDepth
        /\ NotExpr(a) \in OverAt(ty, m + 1) /\ NotExpr(a) \in Exprs
        /\ TwoExpr(t, a, b) \in OverAt(ty, m + 1) /\ TwoExpr(t, a, b) \in Exprs
    BY <1>2, OverAtAre DEF Over
  <2>2. Is(a) /\ Is(b)
    BY <1>2
  <2>3. expr_transform(a, ty) \in OverAt(ty, m + 1) /\ expr_transform(b, ty) \in OverAt(ty, m + 1)
    BY <1>2, TransformSound
  <2>4. /\ Leaves(NotExpr(a)) = Leaves(a) /\ Leaves(TwoExpr(t, a, b)) = Leaves(a) + Leaves(b)
    BY <1>2, LeavesAre
  <2>5. ASSUME m + 1 < MaxDepth PROVE Is(NotExpr(a))
    <3>1. expr_transform(NotExpr(a), ty) = Negated(expr_transform(a, ty))
      BY <2>1, TransformDef, Selectors DEF Connectives
    <3>2. /\ NegatesOperands(Negated(expr_transform(a, ty)))
          /\ Leaves(Negated(expr_transform(a, ty))) = Leaves(expr_transform(a, ty))
      BY <2>1, <2>2, <2>3, <2>5, NegatedSize
    <3> QED BY <2>2, <2>4, <3>1, <3>2
  <2>6. ASSUME m + 1 < MaxDepth PROVE Is(TwoExpr(t, a, b))
    <3>1. expr_transform(TwoExpr(t, a, b), ty) = TwoExpr(t, expr_transform(a, ty), expr_transform(b, ty))
      BY <2>1, TransformDef, Selectors DEF Connectives
    <3>2. LET p == expr_transform(a, ty)
              q == expr_transform(b, ty)
          IN /\ Leaves(TwoExpr(t, p, q)) = Leaves(p) + Leaves(q)
             /\ NegatesOperands(TwoExpr(t, p, q)) <=> NegatesOperands(p) /\ NegatesOperands(q)
      BY <2>1, <2>3, <2>6, LeavesAre
    <3> QED BY <2>2, <2>4, <3>1, <3>2
  <2> QED BY <2>1, <2>5, <2>6
<1>3. \A m \in 0..MaxDepth : Atoms \cap OverAt(ty, m) \subseteq S[m]
  <2> SUFFICES ASSUME NEW m \in 0..MaxDepth, NEW x \in Atoms \cap OverAt(ty, m) PROVE x \in S[m]
    OBVIOUS
  <2> QED BY <1>1
<1>4. S[n] = {x \in OverAt(ty, n) : n < MaxDepth => Is(x)}
  OBVIOUS
<1> HIDE DEF S, Is
<1>5. OverAt(ty, n) \subseteq S[n]
  BY <1>2, <1>3, OverAtInduction
<1> QED BY <1>4, <1>5 DEF Is

----------------------------------------------------------------------------
\* A condition of the file, as the parser rewrites it and menu_finalize transforms it.
LEMMA TransformedFits ==
    ASSUME NEW ty, NEW v, Legal(ty, v), NEW e \in Over(ty), 4 * Size(e) <= MaxDepth
    PROVE  /\ expr_transform(rewrite_m(e, MODULES), ty) \in Over(ty)
           /\ Value(expr_transform(rewrite_m(e, MODULES), ty), ty, v) =
                  Value(e, ty, WithModules(v, MODULES))
           /\ Size(expr_transform(rewrite_m(e, MODULES), ty)) <= 4 * Size(e)
<1> DEFINE n == Size(e) - 1
           r == rewrite_m(e, MODULES)
           x == expr_transform(r, ty)
<1>1. Size(e) \in Nat /\ Size(e) >= 1 /\ e \in Exprs
  BY SizeIs DEF Over
<1>2. /\ n \in 0..MaxDepth /\ n < MaxDepth /\ Size(e) <= n + 1
      /\ n + 1 \in 0..MaxDepth /\ n + 1 < MaxDepth /\ (n + 1) + 1 \in 0..MaxDepth
  BY <1>1, DepthAssumption
<1>3. MODULES \in DOMAIN ty \cap Names
  BY ConstantValue DEF MODULES, Tristates
<1> HIDE DEF n
<1>4. e \in OverAt(ty, n)
  BY <1>1, <1>2, SizeIs DEF OverAt, Over
<1>5. /\ r \in OverAt(ty, n + 1)
      /\ Value(r, ty, v) = Value(e, ty, WithModules(v, MODULES))
      /\ Leaves(r) <= 2 * Size(e)
  BY <1>2, <1>3, <1>4, RewriteMSound, RewriteMSize
<1> HIDE DEF r
<1>6. /\ x \in OverAt(ty, (n + 1) + 1) /\ Value(x, ty, v) = Value(r, ty, v)
      /\ NegatesOperands(x) /\ Leaves(x) = Leaves(r)
  BY <1>2, <1>5, TransformSound, TransformSize
<1> HIDE DEF x
<1>7. x \in Over(ty)
  BY <1>2, <1>6, OverLayers
<1>8. Size(x) <= 2 * Leaves(x) /\ Leaves(x) \in Nat /\ Size(x) \in Nat
  BY <1>6, <1>7, LeavesBound
<1>9. Size(x) <= 4 * Size(e)
  BY <1>1, <1>5, <1>6, <1>8
<1> QED BY <1>5, <1>6, <1>7, <1>9 DEF x, r

\* menu_finalize: what it makes of a condition ("if", "depends on", "visible if", the condition
\* of a prompt, a default or a select) that stands below another is worth the lesser of
\* the two, the symbol m of the file being worth what m && MODULES is.  So nothing
\* is shown, chosen or selected that the file's own conditions forbid, and everything is
\* that they allow, in every configuration.
THEOREM SimplifiedSound ==
    ASSUME NEW ty, NEW v, Legal(ty, v), Constants(ConstSymbols, ty, v),
           NEW above \in Over(ty), NEW e \in Over(ty),
           Size(above) + 4 * Size(e) <= MaxDepth + 1
    PROVE  /\ Simplified(above, e, ty) \in Over(ty)
           /\ Value(Simplified(above, e, ty), ty, v) =
                  EXPR_AND(Value(above, ty, v), Value(e, ty, WithModules(v, MODULES)))
<1> DEFINE x == expr_transform(rewrite_m(e, MODULES), ty)
           both == expr_alloc_and(above, x)
<1>1. /\ Size(above) \in Nat /\ Size(above) >= 1 /\ Size(e) \in Nat /\ Size(e) >= 1
      /\ 4 * Size(e) <= MaxDepth
  <2>1. above \in Exprs /\ e \in Exprs
    BY DEF Over
  <2> QED BY <2>1, SizeIs, DepthAssumption
<1>2. /\ x \in Over(ty) /\ Value(x, ty, v) = Value(e, ty, WithModules(v, MODULES))
      /\ Size(x) <= 4 * Size(e)
  BY <1>1, TransformedFits
<1> HIDE DEF x
<1>3. /\ both \in Over(ty)
      /\ Value(both, ty, v) = EXPR_AND(Value(above, ty, v), Value(x, ty, v))
      /\ Size(both) <= MaxDepth + 1
  <2>1. Size(x) \in Nat /\ Size(x) >= 1
    BY <1>2, SizeIs DEF Over
  <2>2. Value(above, ty, v) \in Tri /\ Value(x, ty, v) \in Tri /\ Value(NULL, ty, v) = yes
    BY <1>2, ValueTri, AtomValue
  <2>3. \A z \in Over(ty) : z.type = "NULL" => z = NULL
    BY NullIs
  <2>4. CASE above.type = "NULL"
    <3>1. both = x /\ above = NULL
      BY <1>2, <2>3, <2>4 DEF expr_alloc_and
    <3>2. Value(x, ty, v) = EXPR_AND(yes, Value(x, ty, v))
      BY <2>2 DEF EXPR_AND, Tri, no, mod, yes
    <3>3. Size(x) <= MaxDepth + 1
      BY <1>1, <1>2, <2>1, DepthAssumption
    <3> QED BY <1>2, <2>2, <3>1, <3>2, <3>3
  <2>5. CASE above.type # "NULL" /\ x.type = "NULL"
    <3>1. both = above /\ x = NULL
      BY <1>2, <2>3, <2>5 DEF expr_alloc_and
    <3>2. Value(above, ty, v) = EXPR_AND(Value(above, ty, v), yes)
      BY <2>2 DEF EXPR_AND, Tri, no, mod, yes
    <3>3. Size(above) <= MaxDepth + 1
      BY <1>1, DepthAssumption
    <3> QED BY <2>2, <3>1, <3>2, <3>3
  <2>6. CASE above.type # "NULL" /\ x.type # "NULL"
    <3>1. both = TwoExpr("AND", above, x)
      BY <2>6 DEF expr_alloc_and
    <3>2. Size(above) + Size(x) <= MaxDepth + 1
      BY <1>1, <1>2, <2>1, DepthAssumption
    <3>3. /\ TwoExpr("AND", above, x) \in Over(ty)
          /\ Size(TwoExpr("AND", above, x)) = Size(above) + Size(x)
          /\ Value(TwoExpr("AND", above, x), ty, v) = Op("AND", Value(above, ty, v), Value(x, ty, v))
      BY <1>2, <3>2, TwoFits DEF Connectives
    <3> QED BY <3>1, <3>2, <3>3 DEF Op
  <2> QED BY <2>4, <2>5, <2>6
<1> HIDE DEF both
<1>4. /\ expr_eliminate_dups(both, ty) \in Over(ty)
      /\ Value(expr_eliminate_dups(both, ty), ty, v) = Value(both, ty, v)
  BY <1>3, EliminateDupsSound
<1>5. Simplified(above, e, ty) = expr_eliminate_dups(both, ty)
  BY DEF Simplified, both, x
<1> QED BY <1>2, <1>3, <1>4, <1>5

\* The symbols that stand for themselves in an expression, outside of a comparison.
Bare(e) ==
    LET bare[x \in Exprs] ==
            CASE x.type \in Connectives -> bare[x.left] \cup bare[x.right]
              [] x.type = "NOT" -> bare[x.arg]
              [] x.type = "SYMBOL" -> {x.sym}
              [] OTHER -> {}
    IN bare[e]

LEMMA BareDef ==
    ASSUME NEW e \in Exprs
    PROVE  /\ e.type \in Connectives => Bare(e) = Bare(e.left) \cup Bare(e.right)
           /\ e.type = "NOT" => Bare(e) = Bare(e.arg)
           /\ e.type = "SYMBOL" => Bare(e) = {e.sym}
<1> DEFINE Body(f, x) ==
               CASE x.type \in Connectives -> f[x.left] \cup f[x.right]
                 [] x.type = "NOT" -> f[x.arg]
                 [] x.type = "SYMBOL" -> {x.sym}
                 [] OTHER -> {}
           S == {n \in 0..MaxDepth + 1 : \E f : f = [x \in Below(n) |-> Body(f, x)]}
<1>1. ASSUME NEW f, NEW g, NEW E, NEW x, PartsIn(x, E), \A y \in E : f[y] = g[y]
      PROVE  Body(f, x) = Body(g, x)
  BY <1>1, AtomShape DEF PartsIn, Connectives, Relations, Equalities
<1> HIDE DEF Body
<1>2. ASSUME NEW n \in 0..MaxDepth, n \in S PROVE n + 1 \in S
  <2>1. PICK f : f = [x \in Below(n) |-> Body(f, x)]
    BY <1>2
  <2> DEFINE g == [x \in Below(n + 1) |-> Body(f, x)]
  <2>2. \A y \in Below(n) : g[y] = f[y]
    BY <2>1, BelowShape
  <2>3. \A x \in Below(n + 1) : Body(g, x) = Body(f, x)
    BY <1>1, <2>2, BelowShape
  <2>4. g = [x \in Below(n + 1) |-> Body(g, x)]
    BY <2>3
  <2>5. n + 1 \in 0..MaxDepth + 1
    BY DepthAssumption
  <2> QED BY <2>4, <2>5
<1>3. 0 \in S
  <2>1. \E f : f = [x \in Below(0) |-> Body(f, x)]
    BY DEF Below
  <2> QED BY <2>1, DepthAssumption
<1>4. \E f : f = [x \in Exprs |-> Body(f, x)]
  <2> HIDE DEF S
  <2>1. MaxDepth + 1 \in S
    BY <1>2, <1>3, LayerInduction
  <2> QED BY <2>1, BelowShape DEF S
<1> DEFINE bare == CHOOSE f : f = [x \in Exprs |-> Body(f, x)]
<1>5. bare = [x \in Exprs |-> Body(bare, x)]
  BY <1>4
<1>6. \A x : Bare(x) = bare[x]
  BY DEF Bare, Body
<1> HIDE DEF bare
<1>7. bare[e] = Body(bare, e)
  BY <1>5
<1> QED BY <1>6, <1>7 DEF Body, Connectives


\* expr_trans_bool, for the conditions of what is not a tristate: worth the same while no
\* tristate is m, as in every configuration without MODULES.
THEOREM TransBoolSound ==
    ASSUME NEW ty, NEW v, Legal(ty, v), \A s \in DOMAIN ty : ty[s] = "TRISTATE" => v[s].tri # mod,
           NEW n \in 0..MaxDepth, NEW e \in OverAt(ty, n)
    PROVE  /\ expr_trans_bool(e, ty) \in OverAt(ty, n)
           /\ Value(expr_trans_bool(e, ty), ty, v) = Value(e, ty, v)
<1> DEFINE Keeps(x, m) == /\ expr_trans_bool(x, ty) \in OverAt(ty, m)
                          /\ Value(expr_trans_bool(x, ty), ty, v) = Value(x, ty, v)
           S == [m \in 0..MaxDepth |-> {x \in OverAt(ty, m) : Keeps(x, m)}]
<1>1. ASSUME NEW m \in 0..MaxDepth, NEW x \in OverAt(ty, m), x \in Atoms PROVE Keeps(x, m)
  <2>1. x.type \notin Connectives \cup {"NOT"} /\ x \in Exprs
    BY <1>1, AtomShape, OverLayers DEF Connectives, Relations, Equalities, Over
  <2>2. expr_trans_bool(x, ty) = TransBoolRule(x, ty)
    BY <2>1, TransBoolDef
  <2>3. CASE x = NULL \/ TransBoolRule(x, ty) = x
    BY <2>2, <2>3 DEF TransBoolRule, NULL
  <2>4. CASE x \in Operands(ty) /\ TransBoolRule(x, ty) # x
    <3>1. x.type = "UNEQUAL" /\ TransBoolRule(x, ty) = SymbolExpr(x.sym)
      BY <2>4 DEF TransBoolRule
    <3>2. x.sym \in DOMAIN ty \cap Names
      BY <1>1, <2>4, <3>1, OperandIs DEF Relations, Equalities
    <3>3. SymbolExpr(x.sym) \in Atoms /\ SymbolExpr(x.sym) \in OverAt(ty, m)
      BY <3>2, AtomsOver, OverLayers
    <3>4. OperandValue(TransBoolRule(x, ty), ty, v) = OperandValue(x, ty, v)
      BY <2>4, TransBoolRuleSound
    <3> QED BY <1>1, <2>2, <3>1, <3>3, <3>4, AtomValue
  <2>5. x = NULL \/ x \in Operands(ty)
    BY <1>1, <2>1, OverAtShape
  <2> QED BY <2>3, <2>4, <2>5
<1>2. ASSUME NEW m \in 0..MaxDepth, m < MaxDepth, NEW t \in Connectives,
             NEW a \in OverAt(ty, m), NEW b \in OverAt(ty, m), Keeps(a, m), Keeps(b, m)
      PROVE  NotExpr(a) \in S[m + 1] /\ TwoExpr(t, a, b) \in S[m + 1]
  <2> DEFINE p == expr_trans_bool(a, ty)
             q == expr_trans_bool(b, ty)
  <2>1. /\ m + 1 \in 0..MaxDepth
        /\ NotExpr(a) \in OverAt(ty, m + 1) /\ NotExpr(a) \in Exprs
        /\ TwoExpr(t, a, b) \in OverAt(ty, m + 1) /\ TwoExpr(t, a, b) \in Exprs
    BY <1>2, OverAtAre DEF Over
  <2>2. /\ Value(NotExpr(a), ty, v) = EXPR_NOT(Value(a, ty, v))
        /\ Value(TwoExpr(t, a, b), ty, v) = Op(t, Value(a, ty, v), Value(b, ty, v))
    BY <1>2, OverAtValue
  <2>3. expr_trans_bool(NotExpr(a), ty) = NotExpr(p) /\ expr_trans_bool(TwoExpr(t, a, b), ty) = TwoExpr(t, p, q)
    BY <2>1, TransBoolDef, Selectors
  <2>4. p \in OverAt(ty, m) /\ q \in OverAt(ty, m)
    BY <1>2
  <2>5. Value(p, ty, v) = Value(a, ty, v) /\ Value(q, ty, v) = Value(b, ty, v)
    BY <1>2
  <2> HIDE DEF p, q
  <2>6. /\ NotExpr(p) \in OverAt(ty, m + 1) /\ TwoExpr(t, p, q) \in OverAt(ty, m + 1)
        /\ Value(NotExpr(p), ty, v) = EXPR_NOT(Value(p, ty, v))
        /\ Value(TwoExpr(t, p, q), ty, v) = Op(t, Value(p, ty, v), Value(q, ty, v))
    BY <1>2, <2>4, OverAtAre, OverAtValue
  <2> QED BY <2>1, <2>2, <2>3, <2>5, <2>6
<1> HIDE DEF Keeps
<1>3. OverAt(ty, n) \subseteq S[n]
  BY <1>1, <1>2, OverAtInduction
<1> QED BY <1>3 DEF Keeps

----------------------------------------------------------------------------
Tested(t, x) == IF t = "UNEQUAL" THEN NotExpr(x) ELSE x

LEMMA TransCompareDef ==
    ASSUME NEW t \in Equalities, NEW s \in {"n", "y"}, NEW e \in Exprs
    PROVE  /\ e.type = "NOT" => expr_trans_compare(e, t, s) = expr_trans_compare(e.arg, Opposite(t), s)
           /\ e.type \in Connectives =>
                 expr_trans_compare(e, t, s) =
                     Tested(t, TwoExpr(IF s = "y" THEN e.type ELSE Dual(e.type),
                                       expr_trans_compare(e.left, "EQUAL", s),
                                       expr_trans_compare(e.right, "EQUAL", s)))
           /\ e.type = "NULL" => expr_trans_compare(e, t, s) = Tested(t, SymbolExpr(s))
           /\ e.type = "SYMBOL" => expr_trans_compare(e, t, s) = CompExpr(t, e.sym, s)
           /\ e.type \in Relations =>
                 expr_trans_compare(e, t, s) =
                     IF (s = "y") = (t = "EQUAL") THEN e ELSE NotExpr(e)
<1> DEFINE Body(f, x) ==
               [tt \in Equalities |->
                 CASE x.type = "NOT" -> f[x.arg][Opposite(tt)]
                   [] x.type \in Connectives ->
                        Tested(tt, IF s = "m" THEN x
                                   ELSE TwoExpr(IF s = "y" THEN x.type ELSE Dual(x.type),
                                                f[x.left]["EQUAL"], f[x.right]["EQUAL"]))
                   [] x.type = "NULL" -> Tested(tt, SymbolExpr(s))
                   [] x.type = "SYMBOL" -> CompExpr(tt, x.sym, s)
                   [] x.type \in Relations ->
                        (CASE s = "m" -> SymbolExpr(IF tt = "EQUAL" THEN "n" ELSE "y")
                           [] s = "y" -> Tested(tt, x)
                           [] s = "n" -> IF tt = "EQUAL" THEN NotExpr(x) ELSE x)]
           S == {n \in 0..MaxDepth + 1 : \E f : f = [x \in Below(n) |-> Body(f, x)]}
<1>1. ASSUME NEW f, NEW g, NEW E, NEW x, PartsIn(x, E), \A y \in E : f[y] = g[y]
      PROVE  Body(f, x) = Body(g, x)
  BY <1>1, AtomShape DEF PartsIn, Connectives, Relations, Equalities
<1> HIDE DEF Body
<1>2. ASSUME NEW n \in 0..MaxDepth, n \in S PROVE n + 1 \in S
  <2>1. PICK f : f = [x \in Below(n) |-> Body(f, x)]
    BY <1>2
  <2> DEFINE g == [x \in Below(n + 1) |-> Body(f, x)]
  <2>2. \A y \in Below(n) : g[y] = f[y]
    BY <2>1, BelowShape
  <2>3. \A x \in Below(n + 1) : Body(g, x) = Body(f, x)
    BY <1>1, <2>2, BelowShape
  <2>4. g = [x \in Below(n + 1) |-> Body(g, x)]
    BY <2>3
  <2>5. n + 1 \in 0..MaxDepth + 1
    BY DepthAssumption
  <2> QED BY <2>4, <2>5
<1>3. 0 \in S
  <2>1. \E f : f = [x \in Below(0) |-> Body(f, x)]
    BY DEF Below
  <2> QED BY <2>1, DepthAssumption
<1>4. \E f : f = [x \in Exprs |-> Body(f, x)]
  <2> HIDE DEF S
  <2>1. MaxDepth + 1 \in S
    BY <1>2, <1>3, LayerInduction
  <2> QED BY <2>1, BelowShape DEF S
<1> DEFINE compared == CHOOSE f : f = [x \in Exprs |-> Body(f, x)]
<1>5. compared = [x \in Exprs |-> Body(compared, x)]
  BY <1>4
<1>6. \A x, tt : expr_trans_compare(x, tt, s) = compared[x][tt]
  BY DEF expr_trans_compare, Tested, Body
<1> HIDE DEF compared
<1>7. compared[e] = Body(compared, e)
  BY <1>5
<1> QED BY <1>6, <1>7 DEF Body, Connectives, Relations, Equalities, Tested, Opposite

\* The conditions that can be tested against n or y: their symbols are y, n, bools and
\* tristates that are not m.  An undefined symbol or a string is neither y nor n.
Plain(e, ty, v) ==
    \A s \in Bare(e) : v[s].tri # mod /\ (s \in {"y", "n"} \/ ty[s] \in {"BOOLEAN", "TRISTATE"})

TristateOf(s) == IF s = "y" THEN yes ELSE no

LEMMA SymbolTest ==
    ASSUME NEW ty, NEW v, Legal(ty, v), NEW s \in {"n", "y"}, NEW x \in DOMAIN ty, v[x].tri # mod,
           x \in {"y", "n"} \/ ty[x] \in {"BOOLEAN", "TRISTATE"}
    PROVE  /\ OperandValue(CompExpr("EQUAL", x, s), ty, v) =
                  IF v[x].tri = TristateOf(s) THEN yes ELSE no
           /\ OperandValue(CompExpr("UNEQUAL", x, s), ty, v) =
                  IF v[x].tri = TristateOf(s) THEN no ELSE yes
<1>1. Constants({"n", "y"}, ty, v)
  BY StringsAssumption DEF Constants, Legal, Tristates
<1>2. /\ OperandValue(CompExpr("EQUAL", x, s), ty, v) = IF v[x].str = s THEN yes ELSE no
      /\ OperandValue(CompExpr("UNEQUAL", x, s), ty, v) = IF v[x].str = s THEN no ELSE yes
  BY <1>1, ConstantTest
<1>3. v[x].str = TriName(v[x].tri) /\ v[x].tri \in {no, yes}
  BY DEF Legal, Tristates
<1>4. v[x].str = s <=> v[x].tri = TristateOf(s)
  BY <1>3 DEF TriName, TristateOf, no, mod, yes
<1> QED BY <1>2, <1>4

\* What a test of x is: where, what it is worth, and how many operands it has.
Tests(p, type, x, s, ty, v) ==
    /\ Value(p, ty, v) = IF (Value(x, ty, v) = TristateOf(s)) = (type = "EQUAL") THEN yes ELSE no
    /\ Leaves(p) = Leaves(x)

LEMMA Negation ==
    ASSUME NEW ty, NEW v, NEW n \in 0..MaxDepth, n < MaxDepth, NEW e \in OverAt(ty, n)
    PROVE  /\ n + 1 \in 0..MaxDepth /\ NotExpr(e) \in OverAt(ty, n + 1) /\ e \in OverAt(ty, n + 1)
           /\ Value(NotExpr(e), ty, v) = EXPR_NOT(Value(e, ty, v))
           /\ Leaves(NotExpr(e)) = Leaves(e)
  BY OverAtAre, OverAtValue, LeavesAre DEF Connectives

LEMMA NegatedTest ==
    ASSUME NEW ty, NEW v, NEW n \in 0..MaxDepth, n < MaxDepth, NEW p \in OverAt(ty, n),
           NEW x, NEW s, Tests(p, "EQUAL", x, s, ty, v)
    PROVE  NotExpr(p) \in OverAt(ty, n + 1) /\ Tests(NotExpr(p), "UNEQUAL", x, s, ty, v)
<1>1. /\ NotExpr(p) \in OverAt(ty, n + 1) /\ Value(NotExpr(p), ty, v) = EXPR_NOT(Value(p, ty, v))
      /\ Leaves(NotExpr(p)) = Leaves(p)
  BY Negation
<1> QED BY <1>1 DEF Tests, EXPR_NOT, no, yes

LEMMA AtomTested ==
    ASSUME NEW ty, NEW v, Legal(ty, v), NEW n \in 0..MaxDepth, n + 1 < MaxDepth, NEW s \in {"n", "y"},
           NEW e \in Atoms \cap OverAt(ty, n), Plain(e, ty, v)
    PROVE  /\ expr_trans_compare(e, "EQUAL", s) \in OverAt(ty, n + 1)
           /\ Tests(expr_trans_compare(e, "EQUAL", s), "EQUAL", e, s, ty, v)
           /\ expr_trans_compare(e, "UNEQUAL", s) \in OverAt(ty, n + 1)
           /\ Tests(expr_trans_compare(e, "UNEQUAL", s), "UNEQUAL", e, s, ty, v)
           /\ Value(e, ty, v) \in {no, yes}
<1>1. /\ e \in Exprs /\ e.type \notin Connectives \cup {"NOT"} /\ Leaves(e) = 1
      /\ Value(e, ty, v) = OperandValue(e, ty, v)
  <2>1. e \in Exprs /\ e.type \notin Connectives \cup {"NOT"}
    BY AtomShape, OverLayers DEF Over, Connectives, Relations, Equalities
  <2> QED BY <2>1, LeafIs, AtomValue
<1>2. n < MaxDepth /\ n + 1 \in 0..MaxDepth
  BY DepthAssumption
<1>3. ASSUME NEW p \in Atoms \cap Over(ty)
      PROVE  /\ p \in OverAt(ty, n + 1) /\ p \in OverAt(ty, n) /\ Leaves(p) = 1
             /\ NotExpr(p) \in OverAt(ty, n + 1) /\ Leaves(NotExpr(p)) = 1
             /\ Value(NotExpr(p), ty, v) = EXPR_NOT(Value(p, ty, v))
  <2>1. p \in OverAt(ty, n + 1) /\ p \in OverAt(ty, n)
    BY <1>2, <1>3, OverLayers
  <2>2. p.type \notin Connectives \cup {"NOT"} /\ p \in Exprs
    BY <1>3, AtomShape DEF Over, Connectives, Relations, Equalities
  <2>3. Leaves(p) = 1
    BY <2>2, LeafIs
  <2> QED BY <1>2, <2>1, <2>3, Negation
<1>4. "EQUAL" \in Equalities /\ "UNEQUAL" \in Equalities
  BY DEF Equalities
<1>5. CASE e = NULL
  <2>1. /\ SymbolExpr(s) \in Atoms \cap Over(ty) /\ Value(SymbolExpr(s), ty, v) = TristateOf(s)
        /\ Value(e, ty, v) = yes /\ e.type = "NULL"
    <3>1. s \in Tristates
      BY DEF Tristates
    <3>2. SymbolExpr(s) \in Atoms \cap Over(ty) /\ Value(SymbolExpr(s), ty, v) = TristateOf(s)
      BY <3>1, ConstantValue DEF TristateOf
    <3> QED BY <1>5, <3>2, AtomValue DEF NULL
  <2>2. /\ expr_trans_compare(e, "EQUAL", s) = SymbolExpr(s)
        /\ expr_trans_compare(e, "UNEQUAL", s) = NotExpr(SymbolExpr(s))
    BY <1>1, <1>4, <2>1, TransCompareDef DEF Tested
  <2> QED BY <1>1, <1>3, <2>1, <2>2 DEF Tests, TristateOf, EXPR_NOT, no, yes
<1>6. CASE e.type = "SYMBOL" /\ e.sym \in DOMAIN ty /\ e.sym \in Names /\ e = SymbolExpr(e.sym)
  <2> DEFINE c(t) == CompExpr(t, e.sym, s)
  <2>1. s \in Names \cap DOMAIN ty
    BY ConstantValue DEF Tristates
  <2>2. ASSUME NEW t \in Equalities
        PROVE  c(t) \in Atoms \cap Over(ty) /\ Value(c(t), ty, v) = OperandValue(c(t), ty, v)
    <3>1. t \in Relations /\ e.sym \in Names \cap DOMAIN ty
      BY <1>6 DEF Relations
    <3> QED BY <2>1, <3>1, AtomsOver
  <2>3. \A t \in Equalities : expr_trans_compare(e, t, s) = c(t)
    BY <1>1, <1>6, TransCompareDef
  <2>4. v[e.sym].tri # mod /\ (e.sym \in {"y", "n"} \/ ty[e.sym] \in {"BOOLEAN", "TRISTATE"})
    BY <1>1, <1>6, BareDef DEF Plain
  <2>5. Value(e, ty, v) = v[e.sym].tri
    BY <1>1, <1>6, SymbolValue
  <2>6. /\ OperandValue(c("EQUAL"), ty, v) = IF v[e.sym].tri = TristateOf(s) THEN yes ELSE no
        /\ OperandValue(c("UNEQUAL"), ty, v) = IF v[e.sym].tri = TristateOf(s) THEN no ELSE yes
    BY <1>6, <2>4, SymbolTest
  <2>7. v[e.sym].tri \in {no, yes}
    BY <1>6, <2>4 DEF Legal
  <2> HIDE DEF c
  <2> QED BY <1>1, <1>3, <1>4, <2>2, <2>3, <2>5, <2>6, <2>7 DEF Tests
<1>7. CASE e.type \in Relations
  <2>1. \A t \in Equalities : expr_trans_compare(e, t, s) = IF (s = "y") = (t = "EQUAL") THEN e ELSE NotExpr(e)
    BY <1>1, <1>7, TransCompareDef
  <2>2. Value(e, ty, v) \in {no, yes}
    <3>1. e = CompExpr(e.type, e.sym, e.with)
      BY <1>7, AtomShape
    <3>2. OperandValue(CompExpr(e.type, e.sym, e.with), ty, v) \in {no, yes}
      BY <1>7, CompValue
    <3> QED BY <1>1, <3>1, <3>2
  <2>3. e \in Over(ty)
    BY OverLayers
  <2>4. Value(NotExpr(e), ty, v) = EXPR_NOT(Value(e, ty, v)) /\ Leaves(NotExpr(e)) = 1
    BY <1>3, <2>3
  <2>5. /\ Tests(expr_trans_compare(e, "EQUAL", s), "EQUAL", e, s, ty, v)
        /\ Tests(expr_trans_compare(e, "UNEQUAL", s), "UNEQUAL", e, s, ty, v)
    <3>1. CASE s = "y"
      BY <1>1, <1>4, <2>1, <2>2, <2>4, <3>1 DEF Tests, TristateOf, EXPR_NOT, no, yes
    <3>2. CASE s = "n"
      BY <1>1, <1>4, <2>1, <2>2, <2>4, <3>2 DEF Tests, TristateOf, EXPR_NOT, no, yes
    <3> QED BY <3>1, <3>2
  <2> QED BY <1>3, <1>4, <2>1, <2>2, <2>3, <2>5
<1>8. CASE e \in Operands(ty)
  BY <1>6, <1>7, <1>8, OperandIs
<1> QED BY <1>1, <1>5, <1>8, OverAtShape

\* expr_trans_compare, the test of a whole condition against y or n, spread over its operands:
\* it is y where the condition has that value and n where it has not (or the other way
\* round), as long as nothing in the condition is m.  It nests at most two deeper, with
\* as many operands.
THEOREM TransCompareSound ==
    ASSUME NEW ty, NEW v, Legal(ty, v), NEW s \in {"n", "y"}, NEW n \in 0..MaxDepth, n + 1 < MaxDepth,
           NEW e \in OverAt(ty, n), Plain(e, ty, v)
    PROVE  /\ expr_trans_compare(e, "EQUAL", s) \in OverAt(ty, n + 1)
           /\ Tests(expr_trans_compare(e, "EQUAL", s), "EQUAL", e, s, ty, v)
           /\ expr_trans_compare(e, "UNEQUAL", s) \in OverAt(ty, n + 2)
           /\ Tests(expr_trans_compare(e, "UNEQUAL", s), "UNEQUAL", e, s, ty, v)
           /\ Value(e, ty, v) \in {no, yes}
<1> DEFINE E(x) == expr_trans_compare(x, "EQUAL", s)
           U(x) == expr_trans_compare(x, "UNEQUAL", s)
           Is(x, m) == /\ E(x) \in OverAt(ty, m + 1) /\ Tests(E(x), "EQUAL", x, s, ty, v)
                       /\ U(x) \in OverAt(ty, m + 2) /\ Tests(U(x), "UNEQUAL", x, s, ty, v)
                       /\ Value(x, ty, v) \in {no, yes}
           S == [m \in 0..MaxDepth |->
                    {x \in OverAt(ty, m) : m + 1 < MaxDepth /\ Plain(x, ty, v) => Is(x, m)}]
<1>0. \A m \in 0..MaxDepth : m + 1 < MaxDepth =>
          /\ m < MaxDepth /\ m + 1 \in 0..MaxDepth /\ m + 2 \in 0..MaxDepth /\ (m + 1) + 1 = m + 2
          /\ OverAt(ty, m) \subseteq OverAt(ty, m + 1) /\ OverAt(ty, m + 1) \subseteq OverAt(ty, m + 2)
  <2> SUFFICES ASSUME NEW m \in 0..MaxDepth, m + 1 < MaxDepth
               PROVE  /\ m < MaxDepth /\ m + 1 \in 0..MaxDepth /\ m + 2 \in 0..MaxDepth /\ (m + 1) + 1 = m + 2
                      /\ OverAt(ty, m) \subseteq OverAt(ty, m + 1)
                      /\ OverAt(ty, m + 1) \subseteq OverAt(ty, m + 2)
    OBVIOUS
  <2>1. /\ m < MaxDepth /\ m + 1 \in 0..MaxDepth /\ m + 2 \in 0..MaxDepth /\ (m + 1) + 1 = m + 2
        /\ m \in 0..m + 1 /\ m + 1 \in 0..m + 2
    BY DepthAssumption
  <2> QED BY <2>1, OverLayers
<1>1. ASSUME NEW m \in 0..MaxDepth, m + 1 < MaxDepth, NEW x \in Atoms \cap OverAt(ty, m), Plain(x, ty, v)
      PROVE  Is(x, m)
  BY <1>0, <1>1, AtomTested
<1>2. ASSUME NEW m \in 0..MaxDepth, (m + 1) + 1 < MaxDepth, NEW a \in OverAt(ty, m), Is(a, m),
             NotExpr(a) \in OverAt(ty, m + 1)
      PROVE  Is(NotExpr(a), m + 1)
  <2>1. /\ m + 1 < MaxDepth /\ m < MaxDepth /\ m + 1 \in 0..MaxDepth
        /\ m + 2 = (m + 1) + 1 /\ (m + 1) + 2 \in 0..MaxDepth
    BY <1>2, DepthAssumption
  <2>2. NotExpr(a) \in Exprs
    BY <1>2, <2>1, OverLayers DEF Over
  <2>3. E(NotExpr(a)) = U(a) /\ U(NotExpr(a)) = E(a)
    BY <2>2, TransCompareDef, Selectors DEF Equalities, Opposite
  <2>4. Value(NotExpr(a), ty, v) = EXPR_NOT(Value(a, ty, v)) /\ Leaves(NotExpr(a)) = Leaves(a)
    BY <1>2, <2>1, Negation
  <2>5. E(a) \in OverAt(ty, (m + 1) + 2)
    <3>1. m + 1 \in 0..(m + 1) + 2
      BY <2>1
    <3> QED BY <1>2, <2>1, <3>1, OverLayers
  <2>6. Value(NotExpr(a), ty, v) \in {no, yes} /\
        (Value(NotExpr(a), ty, v) = TristateOf(s) <=> Value(a, ty, v) # TristateOf(s))
    BY <1>2, <2>4 DEF TristateOf, EXPR_NOT, no, yes
  <2>7. Tests(U(a), "EQUAL", NotExpr(a), s, ty, v) /\ Tests(E(a), "UNEQUAL", NotExpr(a), s, ty, v)
    BY <1>2, <2>4, <2>6 DEF Tests
  <2> QED BY <1>2, <2>1, <2>3, <2>5, <2>6, <2>7
<1>3. ASSUME NEW m \in 0..MaxDepth, (m + 1) + 1 < MaxDepth, NEW t \in Connectives,
             NEW a \in OverAt(ty, m), NEW b \in OverAt(ty, m), Is(a, m), Is(b, m),
             TwoExpr(t, a, b) \in OverAt(ty, m + 1)
      PROVE  Is(TwoExpr(t, a, b), m + 1)
  <2> DEFINE x == TwoExpr(t, a, b)
             o == IF s = "y" THEN t ELSE Dual(t)
             p == TwoExpr(o, E(a), E(b))
  <2>1. /\ m + 1 < MaxDepth /\ m < MaxDepth /\ m + 1 \in 0..MaxDepth /\ (m + 1) + 1 \in 0..MaxDepth
        /\ m + 2 = (m + 1) + 1 /\ ((m + 1) + 1) + 1 = (m + 1) + 2
    BY <1>3, DepthAssumption
  <2>2. o \in Connectives
    BY DEF Dual, Connectives
  <2>3. x \in Exprs /\ x.type = t /\ x.left = a /\ x.right = b
    BY <1>3, <2>1, OverLayers, Selectors DEF Over
  <2>4. E(x) = p /\ U(x) = NotExpr(p)
    BY <2>3, TransCompareDef DEF Equalities, Tested
  <2>5. /\ Value(x, ty, v) = Op(t, Value(a, ty, v), Value(b, ty, v))
        /\ Leaves(x) = Leaves(a) + Leaves(b)
    BY <1>3, <2>1, OverAtValue, LeavesAre
  <2> HIDE DEF o, E, U
  <2>6. /\ p \in OverAt(ty, (m + 1) + 1)
        /\ Value(p, ty, v) = Op(o, Value(E(a), ty, v), Value(E(b), ty, v))
        /\ Leaves(p) = Leaves(E(a)) + Leaves(E(b))
    BY <1>3, <2>1, <2>2, OverAtAre, OverAtValue, LeavesAre
  <2> HIDE DEF x, p
  <2>7. Value(x, ty, v) \in {no, yes} /\ Tests(p, "EQUAL", x, s, ty, v)
    <3>1. /\ Value(a, ty, v) \in {no, yes} /\ Value(b, ty, v) \in {no, yes}
          /\ Value(E(a), ty, v) = IF Value(a, ty, v) = TristateOf(s) THEN yes ELSE no
          /\ Value(E(b), ty, v) = IF Value(b, ty, v) = TristateOf(s) THEN yes ELSE no
          /\ Leaves(E(a)) = Leaves(a) /\ Leaves(E(b)) = Leaves(b)
      BY <1>3 DEF Tests
    <3>2. Value(x, ty, v) \in {no, yes}
      BY <2>5, <3>1 DEF Op, EXPR_AND, EXPR_OR, no, yes
    <3>3. Op(o, IF Value(a, ty, v) = TristateOf(s) THEN yes ELSE no,
                IF Value(b, ty, v) = TristateOf(s) THEN yes ELSE no) =
          IF Op(t, Value(a, ty, v), Value(b, ty, v)) = TristateOf(s) THEN yes ELSE no
      BY <3>1 DEF o, Dual, Connectives, TristateOf, Op, EXPR_AND, EXPR_OR, no, yes
    <3> QED BY <2>5, <2>6, <3>1, <3>2, <3>3 DEF Tests
  <2>8. NotExpr(p) \in OverAt(ty, (m + 1) + 2) /\ Tests(NotExpr(p), "UNEQUAL", x, s, ty, v)
    BY <1>3, <2>1, <2>6, <2>7, NegatedTest
  <2>9. Is(x, m + 1)
    BY <2>4, <2>6, <2>7, <2>8
  <2> QED BY <2>9 DEF x
<1>4. ASSUME NEW m \in 0..MaxDepth, m < MaxDepth, NEW t \in Connectives,
             NEW a \in OverAt(ty, m) \cap S[m], NEW b \in OverAt(ty, m) \cap S[m]
      PROVE  NotExpr(a) \in S[m + 1] /\ TwoExpr(t, a, b) \in S[m + 1]
  <2>1. /\ m + 1 \in 0..MaxDepth
        /\ NotExpr(a) \in OverAt(ty, m + 1) /\ NotExpr(a) \in Exprs
        /\ TwoExpr(t, a, b) \in OverAt(ty, m + 1) /\ TwoExpr(t, a, b) \in Exprs
    BY <1>4, OverAtAre DEF Over
  <2>2. Bare(NotExpr(a)) = Bare(a) /\ Bare(TwoExpr(t, a, b)) = Bare(a) \cup Bare(b)
    BY <2>1, BareDef, Selectors
  <2>3. /\ Plain(NotExpr(a), ty, v) => Plain(a, ty, v)
        /\ Plain(TwoExpr(t, a, b), ty, v) => Plain(a, ty, v) /\ Plain(b, ty, v)
    BY <2>2 DEF Plain
  <2>4. (m + 1) + 1 < MaxDepth => m + 1 < MaxDepth
    BY <2>1, DepthAssumption
  <2>5. /\ m + 1 < MaxDepth /\ Plain(a, ty, v) => Is(a, m)
        /\ m + 1 < MaxDepth /\ Plain(b, ty, v) => Is(b, m)
    BY <1>4
  <2>6. /\ (m + 1) + 1 < MaxDepth /\ Plain(NotExpr(a), ty, v) => Is(NotExpr(a), m + 1)
        /\ (m + 1) + 1 < MaxDepth /\ Plain(TwoExpr(t, a, b), ty, v) => Is(TwoExpr(t, a, b), m + 1)
    <3> HIDE DEF Is, S
    <3> QED BY <1>2, <1>3, <1>4, <2>1, <2>3, <2>4, <2>5
  <2>7. S[m + 1] = {x \in OverAt(ty, m + 1) : (m + 1) + 1 < MaxDepth /\ Plain(x, ty, v) => Is(x, m + 1)}
    BY <2>1
  <2> HIDE DEF S, Is
  <2> QED BY <2>1, <2>6, <2>7
<1>5. \A m \in 0..MaxDepth : Atoms \cap OverAt(ty, m) \subseteq S[m]
  <2> SUFFICES ASSUME NEW m \in 0..MaxDepth, NEW x \in Atoms \cap OverAt(ty, m) PROVE x \in S[m]
    OBVIOUS
  <2> QED BY <1>1
<1>6. S[n] = {x \in OverAt(ty, n) : n + 1 < MaxDepth /\ Plain(x, ty, v) => Is(x, n)}
  OBVIOUS
<1> HIDE DEF S, Is
<1>7. OverAt(ty, n) \subseteq S[n]
  BY <1>4, <1>5, OverAtInduction
<1> QED BY <1>6, <1>7 DEF Is

\* What menu_finalize makes of a condition to ask whether an entry is shown: y where the
\* condition is not n, and n where it is.
THEOREM NotNoSound ==
    ASSUME NEW ty, NEW v, Legal(ty, v), Constants(ConstSymbols, ty, v),
           NEW e \in Over(ty), Plain(e, ty, v), 2 * Size(e) + 2 <= MaxDepth
    PROVE  /\ NotNo(e, ty) \in Over(ty)
           /\ Value(NotNo(e, ty), ty, v) = IF Value(e, ty, v) = no THEN no ELSE yes
<1> DEFINE n == Size(e) - 1
           u == expr_trans_compare(e, "UNEQUAL", "n")
           x == expr_transform(u, ty)
<1>1. Size(e) \in Nat /\ Size(e) >= 1 /\ e \in Exprs
  BY SizeIs DEF Over
<1>2. /\ n \in 0..MaxDepth /\ n + 1 < MaxDepth /\ Size(e) <= n + 1
      /\ n + 2 \in 0..MaxDepth /\ n + 2 < MaxDepth /\ (n + 2) + 1 \in 0..MaxDepth
  BY <1>1, DepthAssumption
<1> HIDE DEF n
<1>3. e \in OverAt(ty, n)
  BY <1>1, <1>2, SizeIs DEF OverAt, Over
<1>4. u \in OverAt(ty, n + 2) /\ Tests(u, "UNEQUAL", e, "n", ty, v) /\ Value(e, ty, v) \in {no, yes}
  BY <1>2, <1>3, TransCompareSound
<1> HIDE DEF u
<1>5. /\ x \in OverAt(ty, (n + 2) + 1) /\ Value(x, ty, v) = Value(u, ty, v)
      /\ NegatesOperands(x) /\ Leaves(x) = Leaves(u)
  BY <1>2, <1>4, TransformSound, TransformSize
<1> HIDE DEF x
<1>6. x \in Over(ty)
  BY <1>2, <1>5, OverLayers
<1>7. Size(x) <= MaxDepth + 1
  <2>1. Size(x) <= 2 * Leaves(x) /\ Leaves(x) \in Nat /\ Size(x) \in Nat
    BY <1>5, <1>6, LeavesBound
  <2>2. Leaves(e) <= Size(e) /\ Leaves(e) \in Nat /\ Leaves(x) = Leaves(e)
    BY <1>4, <1>5, LeavesBound DEF Tests
  <2> QED BY <1>1, <2>1, <2>2, DepthAssumption
<1>8. Value(u, ty, v) = IF Value(e, ty, v) = no THEN no ELSE yes
  BY <1>4 DEF Tests, TristateOf, no, yes
<1>9. /\ expr_eliminate_dups(x, ty) \in Over(ty)
      /\ Value(expr_eliminate_dups(x, ty), ty, v) = Value(x, ty, v)
  BY <1>6, <1>7, EliminateDupsSound
<1>10. NotNo(e, ty) = expr_eliminate_dups(x, ty)
  BY DEF NotNo, x, u
<1> QED BY <1>5, <1>8, <1>9, <1>10

\* Where menu_finalize puts an entry into the submenu of the one before it for what is left
\* of the two conditions, dep of the entry and base of the prompt before it: whenever the
\* entry is shown, so is that prompt.  The menu never hides an entry that the file shows.
THEOREM SubmenuSound ==
    ASSUME NEW ty, NEW v, Legal(ty, v), Constants(ConstSymbols, ty, v),
           NEW dep \in Over(ty), Plain(dep, ty, v), 2 * Size(dep) + 2 <= MaxDepth,
           NEW base \in Over(ty), Plain(base, ty, v), 2 * Size(base) + 2 <= MaxDepth,
           expr_is_yes(expr_eliminate_eq(NotNo(dep, ty), NotNo(base, ty))[2])
    PROVE  Value(dep, ty, v) # no => Value(base, ty, v) # no
<1>1. NotNo(dep, ty) \in Over(ty) /\ NotNo(base, ty) \in Over(ty)
  BY NotNoSound
<1>2. Value(NotNo(dep, ty), ty, v) <= Value(NotNo(base, ty), ty, v)
  <2> DEFINE r == expr_eliminate_eq(NotNo(dep, ty), NotNo(base, ty))
  <2>1. expr_is_yes(r[2])
    OBVIOUS
  <2> HIDE DEF r
  <2>2. r = expr_eliminate_eq(NotNo(dep, ty), NotNo(base, ty))
    BY DEF r
  <2> QED BY <1>1, <2>1, <2>2, EliminateEqSound
<1>3. /\ Value(NotNo(dep, ty), ty, v) = IF Value(dep, ty, v) = no THEN no ELSE yes
      /\ Value(NotNo(base, ty), ty, v) = IF Value(base, ty, v) = no THEN no ELSE yes
  BY NotNoSound
<1> QED BY <1>2, <1>3 DEF no, yes
=============================================================================
