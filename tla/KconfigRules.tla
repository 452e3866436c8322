---------------------------- MODULE KconfigRules ----------------------------
(***************************************************************************)
(* The expressions of Buildroot's configuration language and the rules     *)
(* that kconfig's expr.c applies at one node of an expression: the value   *)
(* of an operand, and the local rewritings out of which KconfigExpr builds *)
(* the recursive simplifications.  No operator here is recursive, so that  *)
(* theorems can be stated about the rules (KconfigExpr_proofs).            *)
(*                                                                         *)
(* ty is the type of every symbol, and a valuation v gives every symbol a  *)
(* tristate (tri) and a string (str).                                      *)
(***************************************************************************)
EXTENDS Integers

CONSTANTS
    Str,     \* the strings that symbols take as values
    Rank,    \* their order under strcmp()
    Number,  \* base |-> the strings strtoll() accepts whole |-> their value
    Wrap     \* 2^64, the first number beyond an unsigned long long

Tristates == {"n", "m", "y"}     \* the symbols symbol_no, symbol_mod, symbol_yes

ASSUME StringsAssumption ==
    /\ Tristates \subseteq Str
    /\ Rank \in [Str -> Nat]
    /\ \A a, b \in Str : Rank[a] = Rank[b] => a = b
    /\ DOMAIN Number = {"INT", "HEX", "STRING", "UNKNOWN"}
    /\ \A t \in DOMAIN Number : /\ Tristates \cap DOMAIN Number[t] = {}
                               /\ \A s \in DOMAIN Number[t] : Number[t][s] \in Int
    /\ Wrap \in Nat

no == 0
mod == 1
yes == 2

TriName(t) == CASE t = no -> "n" [] t = mod -> "m" [] t = yes -> "y"

EXPR_AND(a, b) == IF a < b THEN a ELSE b
EXPR_OR(a, b) == IF a > b THEN a ELSE b
EXPR_NOT(a) == 2 - a

----------------------------------------------------------------------------
(* Expressions.  NULL is the missing expression, which is worth yes.       *)

NULL == [type |-> "NULL"]
SymbolExpr(s) == [type |-> "SYMBOL", sym |-> s]
CompExpr(t, s1, s2) == [type |-> t, sym |-> s1, with |-> s2]
NotExpr(e) == [type |-> "NOT", arg |-> e]
TwoExpr(t, e1, e2) == [type |-> t, left |-> e1, right |-> e2]

Equalities == {"EQUAL", "UNEQUAL"}
Relations == Equalities \cup {"LTH", "LEQ", "GTH", "GEQ"}
Connectives == {"AND", "OR"}

IsSymbol(e, s) == e.type = "SYMBOL" /\ e.sym = s

expr_alloc_and(e1, e2) ==
    CASE e1.type = "NULL" -> e2
      [] e2.type = "NULL" -> e1
      [] OTHER -> TwoExpr("AND", e1, e2)

expr_alloc_or(e1, e2) ==
    CASE e1.type = "NULL" -> e2
      [] e2.type = "NULL" -> e1
      [] OTHER -> TwoExpr("OR", e1, e2)

----------------------------------------------------------------------------
(* The value of a comparison.                                              *)

expr_parse_string(type, str) ==
    CASE type \in {"BOOLEAN", "TRISTATE"} ->
            [kind |-> "signed",
             num  |-> CASE str = "n" -> 0 [] str = "m" -> 1 [] str = "y" -> 2 [] OTHER -> -1]
      [] type \in DOMAIN Number ->
            IF str \in DOMAIN Number[type]
            THEN [kind |-> IF type = "HEX" THEN "unsigned" ELSE "signed", num |-> Number[type][str]]
            ELSE [kind |-> "string", num |-> 0]

Unsigned(n) == IF n < 0 THEN n + Wrap ELSE n

\* The sign of the difference of two symbols' values: of their numbers when both
\* are numbers, of their strings otherwise.
Difference(type1, str1, type2, str2) ==
    LET Between(p, q) ==
            IF \/ type1 = "STRING" /\ type2 = "STRING"
               \/ "string" \in {p.kind, q.kind}
            THEN Rank[str1] - Rank[str2]
            ELSE IF "unsigned" \in {p.kind, q.kind} THEN Unsigned(p.num) - Unsigned(q.num)
            ELSE p.num - q.num
    IN Between(expr_parse_string(type1, str1), expr_parse_string(type2, str2))

Holds(type, diff) ==
    CASE type = "EQUAL"   -> diff = 0
      [] type = "UNEQUAL" -> diff # 0
      [] type = "LTH"     -> diff < 0
      [] type = "LEQ"     -> diff <= 0
      [] type = "GTH"     -> diff > 0
      [] type = "GEQ"     -> diff >= 0

\* The value of an expression without connectives and negation.
OperandValue(e, ty, v) ==
    CASE e.type = "NULL" -> yes
      [] e.type = "SYMBOL" -> v[e.sym].tri
      [] e.type \in Relations ->
            IF Holds(e.type, Difference(ty[e.sym], v[e.sym].str, ty[e.with], v[e.with].str))
            THEN yes ELSE no

----------------------------------------------------------------------------
(* Rewriting rules at one node.                                            *)

\* The operand that a connective can drop, and the one that decides it.
Neutral(t) == SymbolExpr(IF t = "AND" THEN "y" ELSE "n")
Absorbing(t) == SymbolExpr(IF t = "AND" THEN "n" ELSE "y")

\* expr_eliminate_yn at a node whose operands are simplified already.
YnRule(e) ==
    LET Is(o, x) == IsSymbol(o, x.sym)
    IN CASE Is(e.left, Absorbing(e.type)) -> Absorbing(e.type)
         [] Is(e.left, Neutral(e.type)) -> e.right
         [] Is(e.right, Absorbing(e.type)) -> Absorbing(e.type)
         [] Is(e.right, Neutral(e.type)) -> e.left
         [] OTHER -> e

\* expr_transform of a test of a bool symbol against y, m or n.
BoolTestRule(e, ty) ==
    IF ty[e.sym] = "BOOLEAN" /\ e.with \in Tristates
    THEN IF e.with = "m" THEN SymbolExpr(IF e.type = "EQUAL" THEN "n" ELSE "y")
         ELSE IF (e.type = "EQUAL") = (e.with = "y") THEN SymbolExpr(e.sym)
         ELSE NotExpr(SymbolExpr(e.sym))
    ELSE e

Opposite(t) ==
    CASE t = "EQUAL" -> "UNEQUAL" [] t = "UNEQUAL" -> "EQUAL"
      [] t = "LEQ" -> "GTH" [] t = "GEQ" -> "LTH" [] t = "LTH" -> "GEQ" [] t = "GTH" -> "LEQ"

\* expr_transform of the negation of an operand.
NegationRule(e) ==
    CASE e.type \in Relations -> [e EXCEPT !.type = Opposite(@)]
      [] e.type = "SYMBOL" /\ e.sym \in Tristates ->
            SymbolExpr(CASE e.sym = "y" -> "n" [] e.sym = "m" -> "m" [] e.sym = "n" -> "y")
      [] OTHER -> NotExpr(e)

\* bool FOO!=n => FOO
TransBoolRule(e, ty) ==
    IF e.type = "UNEQUAL" /\ ty[e.sym] = "TRISTATE" /\ e.with = "n" THEN SymbolExpr(e.sym) ELSE e

Third(s1, s2) == CHOOSE s \in Tristates : s \notin {s1, s2}
TwoTristates(e1, e2) == e1.with \in Tristates /\ e2.with \in Tristates /\ e1.with # e2.with

\* One operand for two that || or && join, or NULL.
JoinOrRule(e1, e2, ty) ==
    CASE /\ e1.type = "EQUAL" /\ e2.type = "EQUAL"
         /\ e1.sym = e2.sym /\ ty[e1.sym] = "TRISTATE" /\ TwoTristates(e1, e2)
           -> CompExpr("UNEQUAL", e1.sym, Third(e1.with, e2.with))
      [] /\ e1.type = "SYMBOL" /\ ty[e1.sym] = "BOOLEAN"
         /\ e2.type = "NOT" /\ IsSymbol(e2.arg, e1.sym)
           -> SymbolExpr("y")
      [] /\ e2.type = "SYMBOL" /\ ty[e2.sym] = "BOOLEAN"
         /\ e1.type = "NOT" /\ IsSymbol(e1.arg, e2.sym)
           -> SymbolExpr("y")
      [] OTHER -> NULL

JoinTestRule(s, test) ==      \* s && test, where test is a comparison of s
    CASE test.type = "EQUAL" /\ test.with = "y" -> test
      [] test.type = "UNEQUAL" /\ test.with = "n" -> SymbolExpr(s)
      [] test.type = "UNEQUAL" /\ test.with = "m" -> CompExpr("EQUAL", s, "y")
      [] OTHER -> NULL

JoinAndRule(e1, e2, ty, consts) ==
    IF \/ {e1.type, e2.type} \cap ({"SYMBOL"} \cup Equalities) # {e1.type, e2.type}
       \/ e1.sym # e2.sym
       \/ ty[e1.sym] \notin {"BOOLEAN", "TRISTATE"}
    THEN NULL
    ELSE CASE e1.type = "SYMBOL" /\ e2.type # "SYMBOL" -> JoinTestRule(e1.sym, e2)
           [] e2.type = "SYMBOL" /\ e1.type # "SYMBOL" -> JoinTestRule(e2.sym, e1)
           [] /\ ty[e1.sym] = "TRISTATE" /\ {e1.type, e2.type} = Equalities
              /\ {e1.with, e2.with} \subseteq consts ->
                IF e1.with = e2.with THEN SymbolExpr("n")
                ELSE IF e1.type = "EQUAL" THEN e1 ELSE e2
           [] /\ ty[e1.sym] = "TRISTATE" /\ e1.type = "UNEQUAL" /\ e2.type = "UNEQUAL"
              /\ TwoTristates(e1, e2) -> CompExpr("EQUAL", e1.sym, Third(e1.with, e2.with))
           [] OTHER -> NULL
=============================================================================
