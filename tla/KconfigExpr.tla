---------------------------- MODULE KconfigExpr -----------------------------
(***************************************************************************)
(* What kconfig's expr.c does with whole expressions, by recursion over    *)
(* their operands.  The code rewrites trees in place through pointers to   *)
(* pointers; here a function returns the new tree, or the pair of new      *)
(* trees where the code has two.                                           *)
(*                                                                         *)
(* The recursions are functions over the expressions that nest at most     *)
(* MaxDepth deep, not recursive operators, so that KconfigExpr_proofs can  *)
(* show what they keep.                                                    *)
(***************************************************************************)
EXTENDS KconfigRules

CONSTANTS
    ConstSymbols,    \* the symbols with SYMBOL_CONST: y, m, n and quoted words
    MaxDepth         \* bound: how many && || and ! lie around an operand

ASSUME ConstsAssumption == Tristates \subseteq ConstSymbols
ASSUME DepthAssumption == MaxDepth \in Nat

\* F of a value that F needs more than once.  TLC evaluates v first, and F afterwards,
\* not v in the midst of F, where the calculations of many symbols would pile up.
With(v, F(_)) == CHOOSE r \in {F(x) : x \in {v}} : TRUE

\* The names of symbols; the provers do not see that "n" is a string.
Names == Tristates \cup STRING

Atoms == {NULL} \cup [type : {"SYMBOL"}, sym : Names]
                 \cup [type : Relations, sym : Names, with : Names]
Composed(E) == [type : {"NOT"}, arg : E] \cup [type : Connectives, left : E, right : E]

\* The expressions that nest at most n deep.
Layer[n \in 0..MaxDepth] == IF n = 0 THEN Atoms ELSE Atoms \cup Composed(Layer[n - 1])
Exprs == Layer[MaxDepth]

\* The value of an expression under a valuation; KconfigSymbol has the one that
\* calculates the symbols on its way.
Value(e, ty, v) ==
    LET value[x \in Exprs] ==
            CASE x.type = "AND" -> EXPR_AND(value[x.left], value[x.right])
              [] x.type = "OR"  -> EXPR_OR(value[x.left], value[x.right])
              [] x.type = "NOT" -> EXPR_NOT(value[x.arg])
              [] OTHER -> OperandValue(x, ty, v)
    IN value[e]

SymbolsOf(e) ==
    LET symbols[x \in Exprs] ==
            CASE x.type \in Connectives -> symbols[x.left] \cup symbols[x.right]
              [] x.type = "NOT" -> symbols[x.arg]
              [] x.type = "SYMBOL" -> {x.sym}
              [] x.type \in Relations -> {x.sym, x.with}
              [] OTHER -> {}
    IN symbols[e]

expr_contains_symbol(e, s) == s \in SymbolsOf(e)

expr_depends_symbol(e, s) ==
    LET depends[x \in Exprs] ==
            CASE x.type = "AND" -> depends[x.left] \/ depends[x.right]
              [] x.type = "SYMBOL" -> x.sym = s
              [] x.type = "EQUAL" -> x.sym = s /\ x.with \in {"y", "m"}
              [] x.type = "UNEQUAL" -> x.sym = s /\ x.with = "n"
              [] OTHER -> FALSE
    IN depends[e]

----------------------------------------------------------------------------
(* The simplifications of one expression.                                  *)

\* 'm' becomes 'm' && MODULES; modules is the symbol of "option modules".
rewrite_m(e, modules) ==
    LET rewritten[x \in Exprs] ==
            CASE x.type \in Connectives -> TwoExpr(x.type, rewritten[x.left], rewritten[x.right])
              [] x.type = "NOT" -> NotExpr(rewritten[x.arg])
              [] IsSymbol(x, "m") -> expr_alloc_and(x, SymbolExpr(modules))
              [] OTHER -> x
    IN rewritten[e]

expr_eliminate_yn(e) ==
    LET eliminated[x \in Exprs] ==
            IF x.type \in Connectives
            THEN YnRule(TwoExpr(x.type, eliminated[x.left], eliminated[x.right]))
            ELSE x
    IN eliminated[e]

expr_trans_bool(e, ty) ==
    LET transformed[x \in Exprs] ==
            CASE x.type \in Connectives -> TwoExpr(x.type, transformed[x.left], transformed[x.right])
              [] x.type = "NOT" -> NotExpr(transformed[x.arg])
              [] OTHER -> TransBoolRule(x, ty)
    IN transformed[e]

Dual(t) == IF t = "OR" THEN "AND" ELSE "OR"

\* The negation of a transformed expression: !!a is a, and !(a || b) is !a && !b.  The
\* code transforms the result of both again; that finds nothing new but the !a and !b.
Negated(e) ==
    LET negated[x \in Exprs] ==
            CASE x.type \in Connectives -> TwoExpr(Dual(x.type), negated[x.left], negated[x.right])
              [] x.type = "NOT" -> x.arg
              [] OTHER -> NegationRule(x)
    IN negated[e]

expr_transform(e, ty) ==
    LET transformed[x \in Exprs] ==
            CASE x.type \in Connectives -> TwoExpr(x.type, transformed[x.left], transformed[x.right])
              [] x.type = "NOT" -> Negated(transformed[x.arg])
              [] x.type \in Equalities -> BoolTestRule(x, ty)
              [] OTHER -> x
    IN transformed[e]

\* The test of an expression against y or n, spread over its operands.
expr_trans_compare(e, type, s) ==
    LET Test(t, x) == IF t = "UNEQUAL" THEN NotExpr(x) ELSE x
        compared[x \in Exprs] == [t \in Equalities |->
            CASE x.type = "NOT" -> compared[x.arg][Opposite(t)]
              [] x.type \in Connectives ->
                   Test(t, IF s = "m" THEN x
                           ELSE TwoExpr(IF s = "y" THEN x.type ELSE Dual(x.type),
                                        compared[x.left]["EQUAL"], compared[x.right]["EQUAL"]))
              [] x.type = "NULL" -> Test(t, SymbolExpr(s))
              [] x.type = "SYMBOL" -> CompExpr(t, x.sym, s)
              [] x.type \in Relations ->
                   (CASE s = "m" -> SymbolExpr(IF t = "EQUAL" THEN "n" ELSE "y")
                      [] s = "y" -> Test(t, x)
                      [] s = "n" -> IF t = "EQUAL" THEN NotExpr(x) ELSE x)]
    IN compared[e][type]

----------------------------------------------------------------------------
(* Equality of expressions, and operands common to two of them.  equal is  *)
(* expr_eq for the operands of the two.                                    *)

\* An operand of e1 against the operands of y: two that are equal become y (n).
EliminateOne(type, operand, e2, equal) ==
    LET IsConstant(x) == x.type = "SYMBOL" /\ x.sym \in {"y", "n"}
        eliminated[y \in Exprs] == [x \in Exprs |->
            IF y.type = type
            THEN LET l == eliminated[y.left][x]
                     r == eliminated[y.right][l[1]]
                 IN <<r[1], TwoExpr(type, l[2], r[2])>>
            ELSE IF equal[x][y] /\ ~IsConstant(x) THEN <<Neutral(type), Neutral(type)>>
            ELSE <<x, y>>]
    IN eliminated[e2][operand]

\* e1 and e2 are && (||) chains.
__expr_eliminate_eq(type, e1, e2, equal) ==
    LET eliminated[x \in Exprs] == [y \in Exprs |->
            IF x.type = type
            THEN LET l == eliminated[x.left][y]
                     r == eliminated[x.right][l[2]]
                 IN <<TwoExpr(type, l[1], r[1]), r[2]>>
            ELSE EliminateOne(type, x, y, equal)]
    IN eliminated[e1][e2]

\* p is a pair of expressions.  What a chain of the given type on either side has in common
\* with the other side goes; then the other side's type is tried, if it is a different one.
EliminateChain(type, p, equal) ==
    IF type \in Connectives THEN __expr_eliminate_eq(type, p[1], p[2], equal) ELSE p

EliminateOther(p, equal) ==
    IF p[1].type # p[2].type THEN EliminateChain(p[2].type, p, equal) ELSE p

Cleared(p) == <<expr_eliminate_yn(p[1]), expr_eliminate_yn(p[2])>>

EliminateEq(e1, e2, equal) ==
    IF "NULL" \in {e1.type, e2.type} THEN <<e1, e2>>
    ELSE Cleared(EliminateOther(EliminateChain(e1.type, <<e1, e2>>, equal), equal))

\* What is left of two chains is one symbol.
OneSymbol(p) == p[1].type = "SYMBOL" /\ IsSymbol(p[2], p[1].sym)

\* The equality of expressions that nest at most n deep.
Equal[n \in 0..MaxDepth] == [x \in Exprs |-> [y \in Exprs |->
    /\ x.type = y.type
    /\ CASE x.type \in Relations -> x.sym = y.sym /\ x.with = y.with
         [] x.type = "SYMBOL" -> x.sym = y.sym
         [] x.type = "NOT" /\ n > 0 -> Equal[n - 1][x.arg][y.arg]
         [] x.type \in Connectives /\ n > 0 -> OneSymbol(EliminateEq(x, y, Equal[n - 1]))
         [] OTHER -> FALSE]]

expr_eq(e1, e2) == Equal[MaxDepth][e1][e2]
expr_eliminate_eq(e1, e2) == EliminateEq(e1, e2, Equal[MaxDepth])

----------------------------------------------------------------------------
(* Joining the operands of a chain, which are numbered from left to right. *)

\* expr_join_or and expr_join_and
Join(type, e1, e2, ty) ==
    IF expr_eq(e1, e2) THEN e1
    ELSE IF type = "OR" THEN JoinOrRule(e1, e2, ty) ELSE JoinAndRule(e1, e2, ty, ConstSymbols)

OperandCount(type, e) ==
    LET count[x \in Exprs] == IF x.type = type THEN count[x.left] + count[x.right] ELSE 1
    IN count[e]

\* Operand i of a chain, and the chain with another in its place; n operands are on the left.
At(type, e, i) ==
    LET Side(f, x, k, n) == IF k <= n THEN f[x.left][k] ELSE f[x.right][k - n]
        at[x \in Exprs] == [k \in Nat |->
            IF x.type = type THEN Side(at, x, k, OperandCount(type, x.left)) ELSE x]
    IN at[e][i]

Put(type, e, i, operand) ==
    LET Side(f, x, k, n) == IF k <= n THEN TwoExpr(type, f[x.left][k], x.right)
                            ELSE TwoExpr(type, x.left, f[x.right][k - n])
        put[x \in Exprs] == [k \in Nat |->
            IF x.type = type THEN Side(put, x, k, OperandCount(type, x.left)) ELSE operand]
    IN put[e][i]

\* Operand i, which is x, with what within makes of it in its place; count is trans_count.
WithinOne(type, r, i, x, within) ==
    IF x.type \in Connectives
    THEN [e |-> Put(type, r.e, i, within[x].e), count |-> r.count + within[x].count] ELSE r

\* What operands i and j join to, in their places.
PutJoined(type, r, i, j, joined) ==
    IF joined.type = "NULL" THEN r
    ELSE [e     |-> Put(type, Put(type, r.e, i, Neutral(type)), j, joined),
          count |-> r.count + 1]

JoinPair(type, r, i, j, ty) ==
    PutJoined(type, r, i, j, Join(type, At(type, r.e, i), At(type, r.e, j), ty))

\* Operand i against operand j of the chain r.e, which may be in operand i already.
JoinTwo(type, r, i, j, ty, within) ==
    IF i = j THEN r
    ELSE JoinPair(type, WithinOne(type, r, i, At(type, r.e, i), within), i, j, ty)

\* Every operand against every other.
JoinOne(type, r, i, ty, within) ==
    LET against[j \in 0..OperandCount(type, r.e)] ==
            IF j = 0 THEN r ELSE JoinTwo(type, against[j - 1], i, j, ty, within)
    IN against[OperandCount(type, r.e)]

JoinAll(type, e, ty, within) ==
    LET joined[i \in 0..OperandCount(type, e)] ==
            IF i = 0 THEN [e |-> e, count |-> 0] ELSE JoinOne(type, joined[i - 1], i, ty, within)
    IN joined[OperandCount(type, e)]

expr_eliminate_dups1(e, ty) ==
    LET joined[n \in 0..MaxDepth] == [x \in Exprs |->
            IF n = 0 \/ x.type \notin Connectives THEN [e |-> x, count |-> 0]
            ELSE JoinAll(x.type, x, ty, joined[n - 1])]
    IN joined[MaxDepth][e]

\* Again, until nothing is joined: as often as MaxDepth, which no tree needs.
expr_eliminate_dups(e, ty) ==
    LET Further(n, r, again) ==
            IF n = 0 \/ r.count = 0 THEN r.e ELSE again[n - 1][expr_eliminate_yn(r.e)]
        dups[n \in 0..MaxDepth] == [x \in Exprs |-> Further(n, expr_eliminate_dups1(x, ty), dups)]
    IN dups[MaxDepth][e]

----------------------------------------------------------------------------
(* What menu_finalize makes of a condition and of one that lies above it.  *)

MODULES == "n"      \* conf_parse's choice where no symbol has "option modules"

Simplified(above, e, ty) ==
    expr_eliminate_dups(expr_alloc_and(above, expr_transform(rewrite_m(e, MODULES), ty)), ty)

\* For an automatic submenu: whether an entry is shown.
NotNo(e, ty) == expr_eliminate_dups(expr_transform(expr_trans_compare(e, "UNEQUAL", "n"), ty), ty)

expr_is_yes(e) == e.type = "NULL" \/ IsSymbol(e, "y")
=============================================================================
