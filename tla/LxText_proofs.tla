--------------------------- MODULE LxText_proofs ---------------------------
(***************************************************************************)
(* Proofs about menuconfig's text box: where dialog_textbox's ways through *)
(* a text lead, counted in lines, for every text whose lines all end, and  *)
(* what a page printed from there shows.                                   *)
(***************************************************************************)
EXTENDS LxText, FiniteSetTheorems, WellFoundedInduction, TLAPS

(***************************************************************************)
(* The least and the greatest of a set, and induction over a set.          *)
(***************************************************************************)
LEMMA MinOfTwo == \A a, b \in Int : Min({a, b}) = IF a <= b THEN a ELSE b
BY DEF Min

LEMMA MaxOfTwo == \A a, b \in Int : Max({a, b}) = IF a >= b THEN a ELSE b
BY DEF Max

LEMMA MinOfMany ==
    ASSUME NEW S \in SUBSET Nat, S # {}
    PROVE  Min(S) \in S /\ \A m \in S : Min(S) <= m
<1> DEFINE R == OpToRel(<, Nat)
<1>1. \A n, m \in Nat : n < m => <<n, m>> \in R
  BY Zenon DEF OpToRel
<1>2. IsWellFoundedOn(R, Nat)
  BY NatLessThanWellFounded, Zenon
<1> HIDE DEF R
<1>3. PICK n \in S : \A m \in S : ~ (<<m, n>> \in R)
  BY <1>2, WFMin, Zenon
<1>4. \A m \in S : ~(m < n)
  BY <1>1, <1>3, Zenon
<1>5. \A m \in S : n <= m
  BY <1>4
<1> QED BY <1>5, Zenon DEF Min

LEMMA MaxOfMany ==
    ASSUME NEW n \in Nat, NEW S \in SUBSET (0..n), S # {}
    PROVE  Max(S) \in S /\ \A m \in S : m <= Max(S)
<1> DEFINE Under == {n - m : m \in S}
<1>1. Under \in SUBSET Nat /\ Under # {}
  <2>1. \A m \in S : n - m \in Nat
    OBVIOUS
  <2> QED BY <2>1
<1>2. Min(Under) \in Under /\ \A u \in Under : Min(Under) <= u
  BY <1>1, MinOfMany
<1> DEFINE u == Min(Under)
<1> HIDE DEF u
<1>3. u \in Under /\ \A v \in Under : u <= v
  BY <1>2 DEF u
<1>4. PICK m \in S : u = n - m
  BY <1>3
<1>5. \A k \in S : n - k \in Under
  OBVIOUS
<1> HIDE DEF Under
<1>6. \A k \in S : k <= m
  BY <1>3, <1>4, <1>5
<1> QED BY <1>6, Zenon DEF Max

LEMMA SetInduction ==
    ASSUME NEW S, 0 \in S, \A n \in Nat : n \in S => n + 1 \in S
    PROVE  Nat \subseteq S
<1> SUFFICES ASSUME Nat \ S # {} PROVE FALSE
  OBVIOUS
<1> DEFINE m == Min(Nat \ S)
<1>1. m \in Nat \ S /\ \A n \in Nat \ S : m <= n
  BY MinOfMany
<1> HIDE DEF m
<1>2. m # 0 /\ m - 1 \in Nat /\ (m - 1) + 1 = m
  BY <1>1
<1>3. m - 1 \in S
  BY <1>1, <1>2
<1> QED BY <1>1, <1>2, <1>3

(***************************************************************************)
(* The recursive functions have values.                                    *)
(***************************************************************************)
LEMMA GetLinesDef ==
    ASSUME NEW text, NEW s, NEW n \in Nat
    PROVE  /\ get_lines(text, s, n)[0] = s
           /\ \A k \in 1..n : get_lines(text, s, n)[k] = get_line(text, get_lines(text, s, n)[k - 1])
<1> DEFINE Is(g, m) == g = [k \in 0..m |-> IF k = 0 THEN s ELSE get_line(text, g[k - 1])]
           S == {m \in Nat : \E g : Is(g, m)}
<1>1. 0 \in S
  <2>1. Is([k \in 0..0 |-> s], 0)
    OBVIOUS
  <2> QED BY <2>1
<1>2. ASSUME NEW m \in Nat, m \in S PROVE m + 1 \in S
  <2>1. PICK g : Is(g, m)
    BY <1>2
  <2> DEFINE h == [k \in 0..m + 1 |-> IF k = m + 1 THEN get_line(text, g[m]) ELSE g[k]]
  <2>2. \A k \in 0..m + 1 : h[k] = IF k = 0 THEN s ELSE get_line(text, h[k - 1])
    <3> SUFFICES ASSUME NEW k \in 0..m + 1 PROVE h[k] = IF k = 0 THEN s ELSE get_line(text, h[k - 1])
      OBVIOUS
    <3>1. CASE k = m + 1
      <4>1. h[k - 1] = g[m] /\ h[k] = get_line(text, g[m]) /\ k # 0
        BY <3>1
      <4> QED BY <4>1
    <3>2. CASE k # m + 1 /\ k = 0
      BY <2>1, <3>2
    <3>3. CASE k # m + 1 /\ k # 0
      <4>1. k \in 0..m /\ k - 1 \in 0..m + 1 /\ k - 1 # m + 1
        BY <3>3
      <4>2. h[k - 1] = g[k - 1] /\ h[k] = g[k]
        BY <3>3, <4>1
      <4>3. g[k] = get_line(text, g[k - 1])
        BY <2>1, <3>3, <4>1
      <4> QED BY <3>3, <4>2, <4>3
    <3> QED BY <3>1, <3>2, <3>3
  <2>3. Is(h, m + 1)
    <3> DEFINE h2 == [k \in 0..m + 1 |-> IF k = 0 THEN s ELSE get_line(text, h[k - 1])]
    <3>1. h = h2
      <4> HIDE DEF h
      <4>1. DOMAIN h = 0..m + 1 /\ h = [k \in 0..m + 1 |-> h[k]]
        BY DEF h
      <4> QED BY <2>2, <4>1
    <3> QED BY <3>1
  <2> HIDE DEF h
  <2> QED BY <2>3
<1>3. n \in S
  <2> HIDE DEF S
  <2> QED BY <1>1, <1>2, SetInduction
<1>4. \E g : Is(g, n)
  BY <1>3
<1> DEFINE f == CHOOSE g : Is(g, n)
<1>5. get_lines(text, s, n) = f
  BY DEF get_lines
<1>6. Is(f, n)
  BY <1>4
<1> HIDE DEF f
<1>7. f[0] = s /\ \A k \in 1..n : f[k] = get_line(text, f[k - 1])
  BY <1>6
<1> QED BY <1>5, <1>7

\* The turns of which back_lines has the last.
BackTurns(text, s, n) ==
    LET f[k \in 0..n] == IF k = 0 THEN At(s.page, FALSE, s.end) ELSE back_line(text, f[k - 1]) IN f

LEMMA BackLinesDef ==
    ASSUME NEW text, NEW s, NEW n \in Nat
    PROVE  /\ BackTurns(text, s, n)[0] = At(s.page, FALSE, s.end)
           /\ \A k \in 1..n : BackTurns(text, s, n)[k] = back_line(text, BackTurns(text, s, n)[k - 1])
           /\ back_lines(text, s, n) = BackTurns(text, s, n)[n]
<1> DEFINE s0 == At(s.page, FALSE, s.end)
           Is(g, m) == g = [k \in 0..m |-> IF k = 0 THEN s0 ELSE back_line(text, g[k - 1])]
           S == {m \in Nat : \E g : Is(g, m)}
<1> HIDE DEF s0
<1>1. 0 \in S
  <2>1. Is([k \in 0..0 |-> s0], 0)
    OBVIOUS
  <2> QED BY <2>1
<1>2. ASSUME NEW m \in Nat, m \in S PROVE m + 1 \in S
  <2>1. PICK g : Is(g, m)
    BY <1>2
  <2> DEFINE h == [k \in 0..m + 1 |-> IF k = m + 1 THEN back_line(text, g[m]) ELSE g[k]]
  <2>2. \A k \in 0..m + 1 : h[k] = IF k = 0 THEN s0 ELSE back_line(text, h[k - 1])
    <3> SUFFICES ASSUME NEW k \in 0..m + 1 PROVE h[k] = IF k = 0 THEN s0 ELSE back_line(text, h[k - 1])
      OBVIOUS
    <3>1. CASE k = m + 1
      <4>1. h[k - 1] = g[m] /\ h[k] = back_line(text, g[m]) /\ k # 0
        BY <3>1
      <4> QED BY <4>1
    <3>2. CASE k # m + 1 /\ k = 0
      BY <2>1, <3>2
    <3>3. CASE k # m + 1 /\ k # 0
      <4>1. k \in 0..m /\ k - 1 \in 0..m + 1 /\ k - 1 # m + 1
        BY <3>3
      <4>2. h[k - 1] = g[k - 1] /\ h[k] = g[k]
        BY <3>3, <4>1
      <4>3. g[k] = back_line(text, g[k - 1])
        BY <2>1, <3>3, <4>1
      <4> QED BY <3>3, <4>2, <4>3
    <3> QED BY <3>1, <3>2, <3>3
  <2>3. Is(h, m + 1)
    <3> DEFINE h2 == [k \in 0..m + 1 |-> IF k = 0 THEN s0 ELSE back_line(text, h[k - 1])]
    <3>1. h = h2
      <4> HIDE DEF h
      <4>1. DOMAIN h = 0..m + 1 /\ h = [k \in 0..m + 1 |-> h[k]]
        BY DEF h
      <4> QED BY <2>2, <4>1
    <3> QED BY <3>1
  <2> HIDE DEF h
  <2> QED BY <2>3
<1>3. n \in S
  <2> HIDE DEF S
  <2> QED BY <1>1, <1>2, SetInduction
<1>4. \E g : Is(g, n)
  BY <1>3
<1> DEFINE f == CHOOSE g : Is(g, n)
<1>5. BackTurns(text, s, n) = f /\ back_lines(text, s, n) = f[n]
  BY DEF BackTurns, back_lines, s0
<1>6. Is(f, n)
  BY <1>4
<1> HIDE DEF f
<1>7. f[0] = s0 /\ \A k \in 1..n : f[k] = back_line(text, f[k - 1])
  BY <1>6
<1> QED BY <1>5, <1>7 DEF s0

(***************************************************************************)
(* The lines of a text.                                                    *)
(***************************************************************************)
\* A text whose lines all end.
IsText(text) == text \in Seq(Range(text)) /\ text # <<>> /\ Terminated(text)

\* The places where a line begins, and the end.
LinesOf(text) == {p \in 0..Len(text) : p = 0 \/ text[p] = NL}

All(text) == LinesBefore(text, Len(text))

Newlines(text, p) == {q \in 0..p - 1 : text[q + 1] = NL}

LEMMA NewlinesCount ==
    ASSUME NEW text, NEW p \in Nat
    PROVE  IsFiniteSet(Newlines(text, p)) /\ LinesBefore(text, p) = Cardinality(Newlines(text, p))
           /\ LinesBefore(text, p) \in Nat
<1>1. IsFiniteSet(0..p - 1) /\ Newlines(text, p) \in SUBSET (0..p - 1)
  BY FS_Interval DEF Newlines
<1>2. IsFiniteSet(Newlines(text, p))
  BY <1>1, FS_Subset
<1>3. Cardinality(Newlines(text, p)) \in Nat
  BY <1>2, FS_CardinalityType
<1> QED BY <1>2, <1>3 DEF LinesBefore, Newlines

LEMMA NoLineBeforeText == ASSUME NEW text PROVE LinesBefore(text, 0) = 0
<1>1. Newlines(text, 0) = {}
  BY DEF Newlines
<1> QED BY <1>1, NewlinesCount, FS_EmptySet

LEMMA LinesGrow ==
    ASSUME NEW text, NEW p \in Nat, NEW q \in Nat, p <= q
    PROVE  LinesBefore(text, p) <= LinesBefore(text, q)
<1>1. Newlines(text, p) \in SUBSET Newlines(text, q)
  BY DEF Newlines
<1> QED BY <1>1, NewlinesCount, FS_Subset

LEMMA OneLineMore ==
    ASSUME NEW text, NEW p \in Nat, NEW q \in Nat, p <= q,
           text[q + 1] = NL, \A r \in p..q - 1 : text[r + 1] # NL
    PROVE  LinesBefore(text, q + 1) = LinesBefore(text, p) + 1
<1>1. Newlines(text, q + 1) = Newlines(text, p) \cup {q}
  <2>1. ASSUME NEW r \in Newlines(text, q + 1) PROVE r \in Newlines(text, p) \cup {q}
    BY <2>1 DEF Newlines
  <2>2. ASSUME NEW r \in Newlines(text, p) \cup {q} PROVE r \in Newlines(text, q + 1)
    BY <2>2 DEF Newlines
  <2> QED BY <2>1, <2>2
<1>2. q \notin Newlines(text, p)
  BY DEF Newlines
<1>3. q + 1 \in Nat
  OBVIOUS
<1>4. Cardinality(Newlines(text, p) \cup {q}) = Cardinality(Newlines(text, p)) + 1
  BY <1>2, NewlinesCount, FS_AddElement
<1> QED BY <1>1, <1>3, <1>4, NewlinesCount

\* Where the line at p ends.
LEMMA LineEndFound ==
    ASSUME NEW text, IsText(text), NEW p \in 0..Len(text)
    PROVE  /\ LineEnd(text, p) \in p..Len(text)
           /\ p = Len(text) => LineEnd(text, p) = Len(text)
           /\ p # Len(text) => /\ LineEnd(text, p) < Len(text)
                               /\ text[LineEnd(text, p) + 1] = NL
                               /\ \A r \in p..LineEnd(text, p) - 1 : text[r + 1] # NL
<1> DEFINE n == Len(text)
           S == {q \in p..n : q = n \/ text[q + 1] = NL}
           m == Min(S)
<1>1. n \in Nat
  BY DEF IsText
<1> HIDE DEF n
<1>2. S \in SUBSET Nat /\ n \in S
  BY <1>1 DEF n
<1>3. m \in S /\ \A q \in S : m <= q
  BY <1>2, MinOfMany
<1>4. LineEnd(text, p) = m
  BY DEF LineEnd, n
<1> HIDE DEF m
<1>5. m \in p..n /\ m \in Nat /\ (m = n \/ text[m + 1] = NL)
  BY <1>1, <1>3
<1>6. p # n => n - 1 \in S
  <2>1. text[n] = NL
    BY DEF IsText, Terminated, n
  <2>2. p # n => n - 1 \in p..n /\ (n - 1) + 1 = n
    BY <1>1 DEF n
  <2>3. p # n => text[(n - 1) + 1] = NL
    BY <2>1, <2>2
  <2> QED BY <2>2, <2>3, Zenon
<1>7. p # n => m < n
  <2>1. p # n => m <= n - 1
    BY <1>3, <1>6, Zenon
  <2> QED BY <1>1, <1>5, <2>1
<1>8. ASSUME NEW r \in p..m - 1, p # n PROVE text[r + 1] # NL
  <2>1. r \in p..n /\ ~(m <= r)
    BY <1>1, <1>5, <1>8
  <2> QED BY <1>3, <2>1
<1> HIDE DEF S
<1>9. p = n => m = n
  BY <1>1, <1>5
<1> QED BY <1>4, <1>5, <1>7, <1>8, <1>9 DEF n

\* get_line goes one line on, until it is at the end.
LEMMA GetLine ==
    ASSUME NEW text, IsText(text), NEW s, s.page \in LinesOf(text)
    PROVE  /\ get_line(text, s).page \in LinesOf(text)
           /\ get_line(text, s).begin = s.begin
           /\ LinesBefore(text, s.page) \in 0..All(text)
           /\ LinesBefore(text, get_line(text, s).page)
                = IF LinesBefore(text, s.page) = All(text) THEN All(text) ELSE LinesBefore(text, s.page) + 1
           /\ get_line(text, s).end = (LinesBefore(text, s.page) = All(text))
           /\ get_line(text, s).end => get_line(text, s).page = Len(text)
<1> DEFINE p == s.page
           n == Len(text)
           e == LineEnd(text, p)
           r == get_line(text, s)
<1>1. n \in Nat /\ p \in 0..n /\ n # 0
  BY DEF IsText, LinesOf
<1>2. r = At(IF e = n THEN e ELSE e + 1, s.begin, e = n)
  BY DEF get_line
<1>3. r.page = (IF e = n THEN e ELSE e + 1) /\ r.begin = s.begin /\ r.end = (e = n)
  BY <1>2 DEF At
<1>4. LinesBefore(text, p) \in Nat /\ All(text) \in Nat /\ LinesBefore(text, p) <= All(text)
  BY <1>1, NewlinesCount, LinesGrow DEF All
<1>5. CASE p = n
  <2>1. e = n
    BY <1>1, <1>5, LineEndFound
  <2>2. LinesBefore(text, p) = All(text)
    BY <1>5 DEF All
  <2>3. r.page = p
    BY <1>3, <1>5, <2>1
  <2> QED BY <1>3, <1>4, <1>5, <2>1, <2>2, <2>3
<1>6. CASE p # n
  <2>1. e \in p..n /\ e < n /\ text[e + 1] = NL /\ \A q \in p..e - 1 : text[q + 1] # NL
    BY <1>1, <1>6, LineEndFound
  <2> HIDE DEF e, r
  <2>2. e \in Nat /\ p \in Nat /\ p <= e /\ e + 1 \in 0..n /\ e # n
    BY <1>1, <2>1
  <2>3. LinesBefore(text, e + 1) = LinesBefore(text, p) + 1
    BY <2>1, <2>2, OneLineMore
  <2>4. LinesBefore(text, e + 1) <= All(text)
    <3>1. e + 1 \in Nat /\ e + 1 <= n
      BY <1>1, <2>2
    <3> QED BY <1>1, <3>1, LinesGrow DEF All
  <2>5. LinesBefore(text, p) # All(text)
    BY <1>4, <2>3, <2>4
  <2>6. e + 1 \in LinesOf(text)
    BY <2>1, <2>2 DEF LinesOf
  <2>7. r.page = e + 1 /\ r.begin = s.begin /\ r.end = FALSE
    BY <1>3, <2>2
  <2>8. r.page \in LinesOf(text) /\ LinesBefore(text, r.page) = LinesBefore(text, p) + 1
    BY <2>3, <2>6, <2>7
  <2>9. LinesBefore(text, p) \in 0..All(text)
    BY <1>4
  <2>10. /\ r.page \in LinesOf(text) /\ r.begin = s.begin /\ LinesBefore(text, p) \in 0..All(text)
         /\ LinesBefore(text, r.page) = IF LinesBefore(text, p) = All(text) THEN All(text) ELSE LinesBefore(text, p) + 1
         /\ r.end = (LinesBefore(text, p) = All(text))
         /\ r.end => r.page = n
    BY <2>5, <2>7, <2>8, <2>9
  <2> QED BY <2>10 DEF r
<1> QED BY <1>5, <1>6

LEMMA LinesToMany ==
    ASSUME NEW text, IsText(text)
    PROVE  /\ All(text) \in Nat /\ Len(text) \in LinesOf(text) /\ 0 \in LinesOf(text)
           /\ \A p \in LinesOf(text) : LinesBefore(text, p) \in 0..All(text)
<1>1. Len(text) \in Nat /\ Len(text) # 0
  BY DEF IsText
<1>2. ASSUME NEW p \in 0..Len(text) PROVE LinesBefore(text, p) \in 0..All(text) /\ All(text) \in Nat
  BY <1>1, NewlinesCount, LinesGrow DEF All
<1>3. \A p \in LinesOf(text) : p \in 0..Len(text)
  BY DEF LinesOf
<1> QED BY <1>1, <1>2, <1>3 DEF LinesOf, IsText, Terminated

\* The place that many lines on.
Ahead(text, p, k) == Min({LinesBefore(text, p) + k, All(text)})

LEMMA GetLines ==
    ASSUME NEW text, IsText(text), NEW s, s.page \in LinesOf(text), NEW n \in Nat
    PROVE  LET at == get_lines(text, s, n)
           IN  /\ at[0] = s
               /\ \A k \in 0..n : /\ at[k].page \in LinesOf(text)
                                  /\ at[k].begin = s.begin
                                  /\ LinesBefore(text, at[k].page) = Ahead(text, s.page, k)
                                  /\ k > 0 => at[k].end = (LinesBefore(text, s.page) + k > All(text))
                                  /\ k > 0 /\ at[k].end => at[k].page = Len(text)
<1> DEFINE at == get_lines(text, s, n)
           L == LinesBefore(text, s.page)
           A == All(text)
           Good(k) == /\ at[k].page \in LinesOf(text)
                      /\ at[k].begin = s.begin
                      /\ LinesBefore(text, at[k].page) = Min({L + k, A})
                      /\ k > 0 => at[k].end = (L + k > A)
                      /\ k > 0 /\ at[k].end => at[k].page = Len(text)
           S == {k \in Nat : k \in 0..n => Good(k)}
<1>1. at[0] = s /\ \A k \in 1..n : at[k] = get_line(text, at[k - 1])
  BY GetLinesDef
<1>2. L \in 0..A /\ A \in Nat
  BY LinesToMany
<1> HIDE DEF at, L, A
<1>3. Min({L + 0, A}) = L
  BY <1>2, MinOfTwo
<1>4. 0 \in S
  BY <1>1, <1>3 DEF L
<1>5. ASSUME NEW k \in Nat, k \in S PROVE k + 1 \in S
  <2> SUFFICES ASSUME k + 1 \in 0..n PROVE Good(k + 1)
    OBVIOUS
  <2>1. Good(k)
    BY <1>5
  <2>2. k + 1 \in 1..n /\ (k + 1) - 1 = k
    OBVIOUS
  <2>3. at[k + 1] = get_line(text, at[k])
    BY <1>1, <2>2
  <2> DEFINE r == at[k + 1]
             l == LinesBefore(text, at[k].page)
  <2>4. /\ r.page \in LinesOf(text) /\ r.begin = s.begin
        /\ LinesBefore(text, r.page) = IF l = A THEN A ELSE l + 1
        /\ r.end = (l = A)
        /\ r.end => r.page = Len(text)
    BY <2>1, <2>3, GetLine DEF A
  <2>5. l = IF L + k <= A THEN L + k ELSE A
    BY <1>2, <2>1, MinOfTwo
  <2>6. Min({L + (k + 1), A}) = IF L + (k + 1) <= A THEN L + (k + 1) ELSE A
    BY <1>2, MinOfTwo
  <2> HIDE DEF l
  <2>7. LinesBefore(text, r.page) = Min({L + (k + 1), A}) /\ r.end = (L + (k + 1) > A)
    BY <1>2, <2>4, <2>5, <2>6
  <2> QED BY <2>4, <2>7
<1>6. \A k \in 0..n : Good(k)
  <2> HIDE DEF Good
  <2>1. Nat \subseteq S
    <3> HIDE DEF S
    <3> QED BY <1>4, <1>5, SetInduction
  <2> QED BY <2>1
<1> QED BY <1>1, <1>6 DEF at, L, A, Ahead

(***************************************************************************)
(* The way back.                                                           *)
(***************************************************************************)
\* A turn of back_lines that leaves a line goes to the one before, if there is one.
LEMMA BackLine ==
    ASSUME NEW text, IsText(text), NEW s, s.page \in LinesOf(text), s.begin = FALSE,
           ~(s.page = Len(text) /\ s.end)
    PROVE  /\ back_line(text, s).page \in LinesOf(text)
           /\ back_line(text, s).end = s.end
           /\ back_line(text, s).begin \in BOOLEAN
           /\ back_line(text, s).begin => back_line(text, s).page = 0
           /\ LinesBefore(text, back_line(text, s).page)
                = IF LinesBefore(text, s.page) = 0 THEN 0 ELSE LinesBefore(text, s.page) - 1
<1> DEFINE p == s.page
           n == Len(text)
           B == Before(text, p)
           r == back_line(text, s)
<1>1. n \in Nat /\ p \in 0..n /\ (p = 0 \/ text[p] = NL)
  BY DEF IsText, LinesOf
<1>2. r = IF B = {} THEN At(0, TRUE, s.end) ELSE At(Max(B) + 1, FALSE, s.end)
  BY DEF back_line
<1>3. /\ r.page = (IF B = {} THEN 0 ELSE Max(B) + 1)
      /\ r.end = s.end /\ r.begin \in BOOLEAN /\ r.begin = (B = {})
  <2> HIDE DEF B, r
  <2>1. CASE B = {}
    BY <1>2, <2>1 DEF At
  <2>2. CASE B # {}
    BY <1>2, <2>2 DEF At
  <2> QED BY <2>1, <2>2
<1>4. \A q \in B : q \in 0..p - 2 /\ text[q + 1] = NL
  BY DEF Before
<1>5. \A q \in 0..p - 2 : text[q + 1] = NL => q \in B
  BY DEF Before
<1>6. LinesBefore(text, 0) = 0
  BY NoLineBeforeText
<1> HIDE DEF B, r
<1>7. CASE B = {}
  <2>1. r.page = 0 /\ r.page \in LinesOf(text)
    BY <1>3, <1>7, LinesToMany
  <2>2. CASE p = 0
    BY <1>3, <1>6, <2>1, <2>2 DEF r
  <2>3. CASE p # 0
    <3> DEFINE last == p - 1
    <3>1. last \in Nat /\ 0 <= last /\ last + 1 = p /\ last - 1 = p - 2
      BY <1>1, <2>3
    <3> HIDE DEF last
    <3>2. text[last + 1] = NL
      BY <1>1, <2>3, <3>1
    <3>3. \A q \in 0..last - 1 : text[q + 1] # NL
      BY <1>5, <1>7, <3>1
    <3>4. LinesBefore(text, last + 1) = LinesBefore(text, 0) + 1
      BY <3>1, <3>2, <3>3, OneLineMore
    <3>5. LinesBefore(text, p) = 1
      BY <1>6, <3>1, <3>4
    <3> QED BY <1>3, <1>6, <2>1, <3>5 DEF r
  <2> QED BY <2>2, <2>3
<1>8. CASE B # {}
  <2> DEFINE m == Max(B)
  <2>1. PICK q \in B : TRUE
    BY <1>8
  <2>2. q \in 0..p - 2 /\ p - 2 \in Nat
    BY <1>1, <1>4, <2>1
  <2>3. B \in SUBSET (0..p - 2)
    BY <1>4
  <2>4. m \in B /\ \A k \in B : k <= m
    BY <1>8, <2>2, <2>3, MaxOfMany
  <2> HIDE DEF m
  <2>5. m \in 0..p - 2 /\ text[m + 1] = NL
    BY <1>4, <2>4
  <2>6. m + 1 \in Nat /\ p - 1 \in Nat /\ m + 1 <= p - 1 /\ (p - 1) + 1 = p /\ (p - 1) - 1 = p - 2 /\ m + 1 \in 0..n
    BY <1>1, <2>5
  <2>7. \A k \in m + 1..(p - 1) - 1 : text[k + 1] # NL
    <3> SUFFICES ASSUME NEW k \in m + 1..(p - 1) - 1, text[k + 1] = NL PROVE FALSE
      OBVIOUS
    <3>1. k \in 0..p - 2 /\ ~(k <= m)
      BY <1>1, <2>5
    <3> QED BY <1>5, <2>4, <3>1
  <2>8. text[(p - 1) + 1] = NL
    BY <1>1, <2>6
  <2>9. LinesBefore(text, p) = LinesBefore(text, m + 1) + 1
    BY <2>6, <2>7, <2>8, OneLineMore
  <2>10. LinesBefore(text, m + 1) \in Nat
    BY <2>6, NewlinesCount
  <2>11. m + 1 \in LinesOf(text)
    BY <2>5, <2>6 DEF LinesOf
  <2>12. r.page = m + 1
    BY <1>3, <1>8 DEF m
  <2>13. LinesBefore(text, r.page) = IF LinesBefore(text, p) = 0 THEN 0 ELSE LinesBefore(text, p) - 1
    BY <2>9, <2>10, <2>12
  <2> QED BY <1>3, <1>8, <2>11, <2>12, <2>13 DEF r
<1> QED BY <1>7, <1>8

\* A place from which a way back may begin: end says that it is the end.
Placed(text, s) == s.page \in LinesOf(text) /\ s.end \in BOOLEAN /\ (s.end => s.page = Len(text))

\* The lines that n turns go back: the first may only leave the end.
Turns(s, n) == IF s.end /\ n > 0 THEN n - 1 ELSE n

LEMMA BackLines ==
    ASSUME NEW text, IsText(text), NEW s, Placed(text, s), NEW n \in Nat
    PROVE  /\ Placed(text, back_lines(text, s, n))
           /\ back_lines(text, s, n).begin => back_lines(text, s, n).page = 0
           /\ LinesBefore(text, back_lines(text, s, n).page)
                = Max({LinesBefore(text, s.page) - Turns(s, n), 0})
<1> DEFINE L == LinesBefore(text, s.page)
           f == BackTurns(text, s, n)
<1>1. /\ f[0] = At(s.page, FALSE, s.end)
      /\ \A k \in 1..n : f[k] = back_line(text, f[k - 1])
      /\ back_lines(text, s, n) = f[n]
  BY BackLinesDef
<1> HIDE DEF f
<1>2. f[0].page = s.page /\ f[0].begin = FALSE /\ f[0].end = s.end
  BY <1>1 DEF At
<1>3. L \in Nat
  BY LinesToMany DEF Placed
<1> DEFINE Good(k) == /\ f[k].page \in LinesOf(text)
                      /\ f[k].begin \in BOOLEAN
                      /\ f[k].begin => f[k].page = 0
                      /\ LinesBefore(text, f[k].page) = Max({L - Turns(s, k), 0})
                      /\ f[k].end = (s.end /\ k = 0)
           S == {k \in Nat : k \in 0..n => Good(k)}
<1>4. 0 \in S
  <2>1. Turns(s, 0) = 0
    BY DEF Turns
  <2>2. Max({L - 0, 0}) = L
    BY <1>3, MaxOfTwo
  <2>3. s.end \in BOOLEAN /\ s.page \in LinesOf(text)
    BY DEF Placed
  <2>4. Good(0)
    BY <1>1, <1>2, <2>1, <2>2, <2>3
  <2> HIDE DEF Good
  <2> QED BY <2>4
<1>5. ASSUME NEW k \in Nat, k \in S PROVE k + 1 \in S
  <2> SUFFICES ASSUME k + 1 \in 0..n PROVE Good(k + 1)
    <3> HIDE DEF Good
    <3> QED OBVIOUS
  <2>1. Good(k)
    BY <1>5
  <2>2. k + 1 \in 1..n /\ (k + 1) - 1 = k /\ k + 1 # 0
    OBVIOUS
  <2>3. f[k + 1] = back_line(text, f[k])
    BY <1>1, <2>2
  <2>4. Turns(s, k) \in Int /\ Turns(s, k + 1) \in Int
    BY DEF Turns
  <2>5. Max({L - Turns(s, k), 0}) = (IF L - Turns(s, k) >= 0 THEN L - Turns(s, k) ELSE 0)
        /\ Max({L - Turns(s, k + 1), 0}) = (IF L - Turns(s, k + 1) >= 0 THEN L - Turns(s, k + 1) ELSE 0)
    BY <1>3, <2>4, MaxOfTwo
  <2>6. CASE f[k].begin
    <3>1. f[k + 1] = f[k]
      BY <2>3, <2>6 DEF back_line
    <3>2. k # 0
      BY <1>2, <2>1, <2>6
    <3>3. Turns(s, k + 1) = Turns(s, k) + 1
      BY <3>2 DEF Turns
    <3>4. LinesBefore(text, f[k].page) = 0
      BY <2>1, <2>6, NoLineBeforeText
    <3>5. Max({L - Turns(s, k + 1), 0}) = 0
      BY <1>3, <2>1, <2>4, <2>5, <3>3, <3>4
    <3>6. f[k].end = FALSE
      BY <2>1, <3>2
    <3> QED BY <2>1, <2>2, <3>1, <3>4, <3>5, <3>6
  <2>7. CASE ~f[k].begin /\ f[k].page = Len(text) /\ f[k].end
    <3>1. f[k + 1] = At(f[k].page, FALSE, FALSE)
      BY <2>3, <2>7 DEF back_line
    <3>2. s.end /\ k = 0
      BY <2>1, <2>7
    <3>3. Turns(s, k) = 0 /\ Turns(s, k + 1) = 0
      BY <3>2 DEF Turns
    <3>4. f[k + 1].page = f[k].page /\ f[k + 1].begin = FALSE /\ f[k + 1].end = FALSE
      BY <3>1 DEF At
    <3> QED BY <2>1, <2>2, <3>3, <3>4
  <2>8. CASE ~f[k].begin /\ ~(f[k].page = Len(text) /\ f[k].end)
    <3>1. f[k].begin = FALSE
      BY <2>1, <2>8
    <3>2. /\ f[k + 1].page \in LinesOf(text) /\ f[k + 1].end = f[k].end /\ f[k + 1].begin \in BOOLEAN
          /\ f[k + 1].begin => f[k + 1].page = 0
          /\ LinesBefore(text, f[k + 1].page)
                = IF LinesBefore(text, f[k].page) = 0 THEN 0 ELSE LinesBefore(text, f[k].page) - 1
      <4> DEFINE c == f[k]
      <4>1. c.page \in LinesOf(text) /\ c.begin = FALSE /\ ~(c.page = Len(text) /\ c.end) /\ f[k + 1] = back_line(text, c)
        BY <2>1, <2>3, <2>8, <3>1
      <4> HIDE DEF c
      <4>2. /\ back_line(text, c).page \in LinesOf(text)
            /\ back_line(text, c).end = c.end
            /\ back_line(text, c).begin \in BOOLEAN
            /\ back_line(text, c).begin => back_line(text, c).page = 0
            /\ LinesBefore(text, back_line(text, c).page)
                  = IF LinesBefore(text, c.page) = 0 THEN 0 ELSE LinesBefore(text, c.page) - 1
        BY <4>1, BackLine, Zenon
      <4> QED BY <4>1, <4>2, Zenon DEF c
    <3>3. ~(s.end /\ k = 0)
      BY <1>2, <2>1, <2>8 DEF Placed
    <3>4. Turns(s, k + 1) = Turns(s, k) + 1
      BY <3>3 DEF Turns
    <3>5. LinesBefore(text, f[k + 1].page) = Max({L - Turns(s, k + 1), 0})
      BY <1>3, <2>1, <2>4, <2>5, <3>2, <3>4
    <3>6. f[k + 1].end = FALSE
      BY <2>1, <3>2, <3>3
    <3> QED BY <2>2, <3>2, <3>5, <3>6
  <2> QED BY <2>6, <2>7, <2>8
<1>6. Good(n)
  <2> HIDE DEF Good
  <2>1. Nat \subseteq S
    <3> HIDE DEF S
    <3> QED BY <1>4, <1>5, SetInduction
  <2> QED BY <2>1
<1>7. f[n].end => f[n].page = Len(text)
  BY <1>2, <1>6 DEF Placed
<1>8. f[n].end \in BOOLEAN
  BY <1>6
<1> QED BY <1>1, <1>6, <1>7, <1>8 DEF Placed

(***************************************************************************)
(* What a page shows.                                                      *)
(***************************************************************************)
\* What is true of every page of a text whose lines all end: page is behind the
\* last row, the ends that are known of are at the ends of the text, page_length
\* is what back_lines needs to go back to the first row, and the results of a
\* search never stand further down than update_text left them.
PageInv ==
    /\ boxh \in Nat /\ boxh > 0
    /\ page \in LinesOf(buf)
    /\ Top \in 0..AllLines
    /\ \A row \in 0..boxh - 1 : LinesBefore(buf, starts[row]) = Min({Top + row, AllLines})
    /\ LinesBefore(buf, page) = Min({Top + boxh, AllLines})
    /\ begin_reached => Top = 0
    /\ end_reached = (Top + boxh > AllLines)
    /\ end_reached => page = Len(buf)
    /\ page_length = Min({boxh, AllLines - Top + 1})
    /\ searching => Top <= Max({AllLines - boxh + 1, 0})

\* Where update_text's look ahead and back leaves the first row: no further down
\* than the last page.
LEMMA UpdateText ==
    ASSUME NEW text, IsText(text), NEW s, s.page \in LinesOf(text), NEW height \in Nat, height > 0
    PROVE  LET from == back_lines(text, get_lines(text, s, height)[height], height)
           IN  /\ from.page \in LinesOf(text)
               /\ from.begin => from.page = 0
               /\ LinesBefore(text, from.page) = Min({LinesBefore(text, s.page), Max({All(text) - height + 1, 0})})
<1> DEFINE g == get_lines(text, s, height)[height]
           L == LinesBefore(text, s.page)
           A == All(text)
           from == back_lines(text, g, height)
<1>1. L \in 0..A /\ A \in Nat
  BY LinesToMany
<1>2. /\ g.page \in LinesOf(text)
      /\ LinesBefore(text, g.page) = Ahead(text, s.page, height)
      /\ g.end = (L + height > A)
      /\ g.end => g.page = Len(text)
  <2>1. height \in 0..height
    OBVIOUS
  <2> QED BY <2>1, GetLines
<1>3. LinesBefore(text, g.page) = Min({L + height, A})
  BY <1>2 DEF Ahead
<1> HIDE DEF g, L, A
<1>4. Placed(text, g)
  BY <1>2 DEF Placed
<1>5. /\ from.page \in LinesOf(text) /\ (from.begin => from.page = 0)
      /\ LinesBefore(text, from.page) = Max({LinesBefore(text, g.page) - Turns(g, height), 0})
  BY <1>4, BackLines DEF Placed
<1>6. Turns(g, height) = IF L + height > A THEN height - 1 ELSE height
  BY <1>2 DEF Turns
<1>7. Min({L + height, A}) = IF L + height <= A THEN L + height ELSE A
  BY <1>1, MinOfTwo
<1> DEFINE d == Min({L + height, A}) - Turns(g, height)
<1>8. d = IF L + height > A THEN A - height + 1 ELSE L
  BY <1>1, <1>6, <1>7
<1>9. d \in Int /\ A - height + 1 \in Int
  BY <1>1, <1>8
<1> HIDE DEF d
<1>10. Max({d, 0}) = IF d >= 0 THEN d ELSE 0
  BY <1>9, MaxOfTwo
<1>11. Max({A - height + 1, 0}) = IF A - height + 1 >= 0 THEN A - height + 1 ELSE 0
  BY <1>9, MaxOfTwo
<1> DEFINE m == Max({A - height + 1, 0})
<1>12. m \in Int
  BY <1>9, <1>11
<1> HIDE DEF m
<1>13. Min({L, m}) = IF L <= m THEN L ELSE m
  BY <1>1, <1>12, MinOfTwo
<1>14. Max({d, 0}) = Min({L, m})
  BY <1>1, <1>8, <1>10, <1>11, <1>13 DEF m
<1> HIDE DEF from
<1>15. LinesBefore(text, from.page) = Min({L, m})
  BY <1>3, <1>5, <1>14 DEF d
<1> QED BY <1>5, <1>15 DEF from, g, L, A, m

LEMMA PageShows ==
    ASSUME NEW text, IsText(text), NEW s, s.page \in LinesOf(text), s.begin => s.page = 0,
           NEW height \in Nat, height > 0, NEW updates \in BOOLEAN,
           PrintPage(text, s, height, updates), buf' = text, searching' = updates
    PROVE  /\ PageInv'
           /\ Top' = IF updates THEN Min({LinesBefore(text, s.page), Max({All(text) - height + 1, 0})})
                     ELSE LinesBefore(text, s.page)
<1> DEFINE from == IF updates THEN back_lines(text, get_lines(text, s, height)[height], height) ELSE s
           at == get_lines(text, from, height)
           A == All(text)
           T == LinesBefore(text, from.page)
           L == LinesBefore(text, s.page)
           m == Max({A - height + 1, 0})
<1>1. /\ starts' = [row \in 0..height - 1 |-> at[row].page]
      /\ page_length' = Cardinality({row \in 0..height - 1 : \A r \in 1..row : ~at[r].end})
      /\ page' = at[height].page
      /\ begin_reached' = at[height].begin
      /\ end_reached' = at[height].end
      /\ boxh' = height
  BY Zenon DEF PrintPage
<1>2. /\ from.page \in LinesOf(text) /\ (from.begin => from.page = 0)
      /\ T = IF updates THEN Min({L, m}) ELSE L
  BY UpdateText
<1> HIDE DEF from
<1>3. /\ at[0] = from
      /\ \A k \in 0..height : /\ at[k].page \in LinesOf(text)
                              /\ at[k].begin = from.begin
                              /\ LinesBefore(text, at[k].page) = Min({T + k, A})
                              /\ k > 0 => at[k].end = (T + k > A)
                              /\ k > 0 /\ at[k].end => at[k].page = Len(text)
  <2> DEFINE p == from.page
  <2>1. p \in LinesOf(text)
    BY <1>2
  <2>2. /\ at[0] = from
        /\ \A k \in 0..height : /\ at[k].page \in LinesOf(text)
                                /\ at[k].begin = from.begin
                                /\ LinesBefore(text, at[k].page) = Ahead(text, p, k)
                                /\ k > 0 => at[k].end = (LinesBefore(text, p) + k > All(text))
                                /\ k > 0 /\ at[k].end => at[k].page = Len(text)
    BY <2>1, GetLines
  <2>3. \A k : Ahead(text, p, k) = Min({T + k, A})
    BY DEF Ahead
  <2> HIDE DEF at
  <2> QED BY <2>2, <2>3
<1>4. T \in 0..A /\ L \in 0..A /\ A \in Nat
  BY <1>2, LinesToMany
<1> HIDE DEF at
<1>5. starts'[0] = from.page /\ Top' = T /\ AllLines' = A
  BY <1>1, <1>3 DEF Top, AllLines, All
<1>6. \A row \in 0..height - 1 : LinesBefore(text, starts'[row]) = Min({T + row, A})
  BY <1>1, <1>3
<1>7. page_length' = Min({height, A - T + 1})
  <2> DEFINE S == {row \in 0..height - 1 : \A r \in 1..row : ~at[r].end}
             n == Min({height, A - T + 1})
  <2> HIDE DEF T, A, L, m
  <2>1. n = (IF height <= A - T + 1 THEN height ELSE A - T + 1) /\ n \in Nat /\ n <= height
    BY <1>4, MinOfTwo
  <2> HIDE DEF n
  <2>2. ASSUME NEW row \in S PROVE row \in 0..n - 1
    <3>1. row \in 0..height - 1 /\ (row > 0 => ~at[row].end)
      OBVIOUS
    <3>2. row \in 0..height
      BY <3>1
    <3>3. row > 0 => at[row].end = (T + row > A)
      BY <1>3, <3>2
    <3>4. row > 0 => ~(T + row > A)
      BY <3>1, <3>3
    <3> QED BY <1>4, <2>1, <3>1, <3>4
  <2>3. ASSUME NEW row \in 0..n - 1 PROVE row \in S
    <3>1. row \in 0..height - 1
      BY <2>1
    <3>2. ASSUME NEW r \in 1..row PROVE ~at[r].end
      <4>1. r \in 0..height /\ r > 0 /\ ~(T + r > A)
        BY <1>4, <2>1, <3>1
      <4> QED BY <1>3, <4>1
    <3> QED BY <3>1, <3>2
  <2>4. S = 0..n - 1
    BY <2>2, <2>3
  <2>5. Cardinality(0..n - 1) = n
    <3>1. 0 \in Int /\ n - 1 \in Int
      BY <2>1
    <3>2. Cardinality(0..n - 1) = IF 0 > n - 1 THEN 0 ELSE (n - 1) - 0 + 1
      BY <3>1, FS_Interval
    <3> QED BY <2>1, <3>2
  <2>6. Cardinality(S) = n
    <3> HIDE DEF S
    <3> QED BY <2>4, <2>5
  <2> HIDE DEF S
  <2> QED BY <1>1, <2>6 DEF n, S
<1>8. /\ page' \in LinesOf(text)
      /\ LinesBefore(text, page') = Min({T + height, A})
      /\ begin_reached' = from.begin
      /\ end_reached' = (T + height > A)
      /\ end_reached' => page' = Len(text)
  <2>1. height \in 0..height
    OBVIOUS
  <2> HIDE DEF T, A, L, m
  <2> QED BY <1>1, <1>3, <2>1
<1>9. begin_reached' => T = 0
  BY <1>2, <1>8, NoLineBeforeText
<1>10. updates => T <= m
  <2>1. m \in Int
    BY <1>4, MaxOfTwo
  <2> HIDE DEF m, T
  <2>2. L \in Int
    BY <1>4
  <2> HIDE DEF L
  <2> QED BY <1>2, <2>1, <2>2, MinOfTwo
<1>11. PageInv'
  <2> HIDE DEF T, A, m
  <2>1. boxh' \in Nat /\ boxh' > 0 /\ page' \in LinesOf(buf') /\ Top' \in 0..AllLines'
    BY <1>1, <1>4, <1>5, <1>8
  <2>2. \A row \in 0..boxh' - 1 : LinesBefore(buf', starts'[row]) = Min({Top' + row, AllLines'})
    BY <1>1, <1>5, <1>6
  <2>3. /\ LinesBefore(buf', page') = Min({Top' + boxh', AllLines'})
        /\ begin_reached' => Top' = 0
        /\ end_reached' = (Top' + boxh' > AllLines')
        /\ end_reached' => page' = Len(buf')
        /\ page_length' = Min({boxh', AllLines' - Top' + 1})
    BY <1>1, <1>5, <1>7, <1>8, <1>9
  <2>4. searching' => Top' <= Max({AllLines' - boxh' + 1, 0})
    BY <1>1, <1>5, <1>10 DEF m
  <2> QED BY <2>1, <2>2, <2>3, <2>4 DEF PageInv
<1> QED BY <1>2, <1>5, <1>11

(***************************************************************************)
(* The box's operations.                                                   *)
(***************************************************************************)
\* The inductive invariant of the text box: a search, and what is kept for its
\* return, is always about a text whose lines all end.
TextInv ==
    /\ searching \in BOOLEAN /\ vscroll \in Nat
    /\ dialog = "text" \/ again => buf \in Texts
    /\ searching => dialog = "text" /\ Terminated(buf)
    /\ again => Terminated(buf)
    /\ dialog = "text" /\ Terminated(buf) => PageInv

\* What KeysTurnText says of a step.
Turned ==
    dialog = "text" /\ dialog' = "text" /\ Terminated(buf) =>
      /\ key' = "home" => Top' = 0
      /\ key' = "end" => Top' = Max({AllLines - boxh + 1, 0})
      /\ key' = "up" => Top' = Max({Top - 1, 0})
      /\ key' = "down" => Top' = Top + 1
      /\ key' = "page up" => Top' = Max({Top - boxh, 0})
      /\ key' = "page down" /\ ~searching => Top' = Top + boxh
      /\ key' = "page down" /\ searching => Top' > Top
      /\ key' \in {"left", "right", "0"} => Top' = Top

LEMMA TextConstants ==
    /\ None # "text"
    /\ \A height \in BoxHeights : height \in Nat /\ height > 0
    /\ \A text \in Texts : Terminated(text) => IsText(text)
BY NoneAssumption, TextAssumption DEF NoneAssumption, TextAssumption, IsText

\* Where the first row of a page printed from s stands.
TopFrom(text, s, height, updates) ==
    IF updates THEN Min({LinesBefore(text, s.page), Max({All(text) - height + 1, 0})}) ELSE LinesBefore(text, s.page)

LEMMA ShowInv ==
    ASSUME TextInv, dialog = "text", dialog' = "text", UNCHANGED <<buf, searching, vscroll, again>>,
           NEW s, NEW height, PrintPage(buf, s, height, searching),
           Terminated(buf) => /\ height \in Nat /\ height > 0
                              /\ s.page \in LinesOf(buf) /\ (s.begin => s.page = 0)
    PROVE  TextInv' /\ (Terminated(buf) => Top' = TopFrom(buf, s, height, searching))
<1>1. buf \in Texts /\ (Terminated(buf) => IsText(buf)) /\ searching \in BOOLEAN /\ vscroll \in Nat
  BY TextConstants DEF TextInv
<1>2. buf' = buf /\ searching' = searching /\ vscroll' = vscroll /\ again' = again /\ Terminated(buf') = Terminated(buf)
  OBVIOUS
<1>3. Terminated(buf) => PageInv' /\ Top' = TopFrom(buf, s, height, searching)
  BY <1>1, <1>2, PageShows DEF TopFrom
<1>4. TextInv'
  BY <1>1, <1>2, <1>3 DEF TextInv
<1> QED BY <1>3, <1>4

\* Back from where page is: as far as from the row below the page.
LEMMA HereBack ==
    ASSUME IsText(buf), PageInv, NEW n \in Nat, n > 0 \/ ~end_reached
    PROVE  LET s == back_lines(buf, Here, n)
           IN  /\ s.page \in LinesOf(buf)
               /\ s.begin => s.page = 0
               /\ LinesBefore(buf, s.page) = Max({Top + page_length - n, 0})
<1>1. Here.page = page /\ Here.end = end_reached
  BY DEF Here, At
<1>2. Placed(buf, Here)
  BY <1>1 DEF PageInv, Placed
<1> DEFINE s == back_lines(buf, Here, n)
           h == boxh
           A == AllLines
           T == Top
<1>3. /\ s.page \in LinesOf(buf) /\ (s.begin => s.page = 0)
      /\ LinesBefore(buf, s.page) = Max({LinesBefore(buf, page) - Turns(Here, n), 0})
  BY <1>1, <1>2, BackLines DEF Placed
<1>4. A \in Nat
  BY LinesToMany DEF AllLines, All
<1>5. /\ T \in 0..A /\ h \in Nat /\ h > 0
      /\ LinesBefore(buf, page) = Min({T + h, A})
      /\ end_reached = (T + h > A)
      /\ page_length = Min({h, A - T + 1})
  BY DEF PageInv
<1> HIDE DEF s, h, A, T
<1>6. Min({T + h, A}) = (IF T + h <= A THEN T + h ELSE A)
      /\ Min({h, A - T + 1}) = (IF h <= A - T + 1 THEN h ELSE A - T + 1)
  BY <1>4, <1>5, MinOfTwo
<1>7. Turns(Here, n) = IF end_reached /\ n > 0 THEN n - 1 ELSE n
  BY <1>1 DEF Turns
<1>8. LinesBefore(buf, page) - Turns(Here, n) = T + page_length - n
  <2>1. CASE T + h > A
    <3>1. end_reached /\ n > 0
      BY <1>5, <2>1
    <3>2. Turns(Here, n) = n - 1
      BY <1>7, <3>1
    <3>3. LinesBefore(buf, page) = A /\ page_length = A - T + 1
      BY <1>4, <1>5, <1>6, <2>1
    <3> QED BY <1>4, <1>5, <3>2, <3>3
  <2>2. CASE ~(T + h > A)
    <3>1. ~end_reached
      BY <1>5, <2>2
    <3>2. Turns(Here, n) = n
      BY <1>7, <3>1
    <3>3. LinesBefore(buf, page) = T + h /\ page_length = h
      BY <1>4, <1>5, <1>6, <2>2
    <3> QED BY <1>4, <1>5, <3>2, <3>3
  <2> QED BY <2>1, <2>2
<1> QED BY <1>3, <1>8 DEF s, T

\* What every key finds in a text whose lines all end.
LEMMA TextKeyInv ==
    ASSUME TextInv, dialog = "text", Terminated(buf)
    PROVE  /\ IsText(buf) /\ PageInv /\ boxh \in Nat /\ boxh > 0 /\ AllLines \in Nat /\ All(buf) = AllLines
           /\ Top \in 0..AllLines /\ searching \in BOOLEAN
           /\ page_length \in Nat /\ page_length > 0
           /\ ~end_reached => page_length = boxh /\ Top + boxh <= AllLines /\ LinesBefore(buf, page) = Top + boxh
           /\ Max({AllLines - boxh + 1, 0}) = IF AllLines - boxh + 1 >= 0 THEN AllLines - boxh + 1 ELSE 0
           /\ searching => Top <= Max({AllLines - boxh + 1, 0})
<1>1. IsText(buf) /\ PageInv /\ searching \in BOOLEAN
  BY TextConstants DEF TextInv
<1>2. AllLines \in Nat /\ All(buf) = AllLines
  BY <1>1, LinesToMany DEF AllLines, All
<1>3. /\ boxh \in Nat /\ boxh > 0 /\ Top \in 0..AllLines
      /\ page_length = Min({boxh, AllLines - Top + 1}) /\ LinesBefore(buf, page) = Min({Top + boxh, AllLines})
      /\ end_reached = (Top + boxh > AllLines)
      /\ searching => Top <= Max({AllLines - boxh + 1, 0})
  BY <1>1 DEF PageInv
<1>4. /\ Min({boxh, AllLines - Top + 1}) = IF boxh <= AllLines - Top + 1 THEN boxh ELSE AllLines - Top + 1
      /\ Min({Top + boxh, AllLines}) = IF Top + boxh <= AllLines THEN Top + boxh ELSE AllLines
      /\ Max({AllLines - boxh + 1, 0}) = IF AllLines - boxh + 1 >= 0 THEN AllLines - boxh + 1 ELSE 0
  BY <1>2, <1>3, MinOfTwo, MaxOfTwo
<1> DEFINE T == Top
           A == AllLines
<1>5. T \in 0..A /\ A \in Nat /\ boxh \in Nat /\ boxh > 0
  BY <1>2, <1>3
<1> HIDE DEF T, A
<1>6. page_length \in Nat /\ page_length > 0
  <2>1. page_length = IF boxh <= A - T + 1 THEN boxh ELSE A - T + 1
    BY <1>3, <1>4 DEF T, A
  <2> QED BY <1>5, <2>1
<1>7. ~end_reached => page_length = boxh /\ T + boxh <= A /\ LinesBefore(buf, page) = T + boxh
  <2> SUFFICES ASSUME ~end_reached PROVE page_length = boxh /\ T + boxh <= A /\ LinesBefore(buf, page) = T + boxh
    OBVIOUS
  <2>1. ~(T + boxh > A)
    BY <1>3 DEF T, A
  <2>2. T + boxh <= A /\ boxh <= A - T + 1
    BY <1>5, <2>1
  <2> QED BY <1>3, <1>4, <2>2 DEF T, A
<1> QED BY <1>1, <1>2, <1>3, <1>4, <1>6, <1>7 DEF T, A

\* A page printed from line l of the text, after a key.
LEMMA KeyShows ==
    ASSUME TextInv, NEW k, TextKey(k), NEW s, Show(s), NEW l,
           Terminated(buf) => /\ s.page \in LinesOf(buf) /\ (s.begin => s.page = 0)
                              /\ l \in Nat /\ LinesBefore(buf, s.page) = l
    PROVE  /\ TextInv' /\ dialog = "text" /\ key' = k
           /\ Terminated(buf) => Top' = IF searching /\ l > Max({AllLines - boxh + 1, 0})
                                        THEN Max({AllLines - boxh + 1, 0}) ELSE l
<1>1. dialog = "text" /\ dialog' = "text" /\ key' = k /\ UNCHANGED <<buf, searching, vscroll, again>>
  BY DEF TextKey, Stay
<1>2. Terminated(buf) => boxh \in Nat /\ boxh > 0
  BY <1>1, TextKeyInv
<1>3. PrintPage(buf, s, boxh, searching)
  BY DEF Show
<1>4. TextInv' /\ (Terminated(buf) => Top' = TopFrom(buf, s, boxh, searching))
  BY <1>1, <1>2, <1>3, ShowInv
<1>5. ASSUME Terminated(buf)
      PROVE  TopFrom(buf, s, boxh, searching) = IF searching /\ l > Max({AllLines - boxh + 1, 0})
                                                THEN Max({AllLines - boxh + 1, 0}) ELSE l
  <2> DEFINE m == Max({AllLines - boxh + 1, 0})
  <2>1. m \in Int /\ All(buf) = AllLines /\ searching \in BOOLEAN
    BY <1>1, <1>5, TextKeyInv
  <2> HIDE DEF m
  <2>2. l \in Nat
    BY <1>5
  <2>3. Min({l, m}) = IF l <= m THEN l ELSE m
    BY <2>1, <2>2, MinOfTwo
  <2>4. TopFrom(buf, s, boxh, searching) = IF searching THEN Min({l, m}) ELSE l
    BY <1>5, <2>1 DEF TopFrom, m
  <2> QED BY <2>1, <2>2, <2>3, <2>4 DEF m
<1> QED BY <1>1, <1>4, <1>5

\* Keys that go back from where page is, but never ahead of the last page.
LEMMA BackShows ==
    ASSUME TextInv, NEW k, TextKey(k), NEW n, Show(back_lines(buf, Here, n)),
           Terminated(buf) => /\ n \in Nat /\ (n > 0 \/ ~end_reached)
                              /\ searching => Top + page_length - n <= Max({AllLines - boxh + 1, 0})
    PROVE  /\ TextInv' /\ dialog = "text" /\ key' = k
           /\ Terminated(buf) => Top' = Max({Top + page_length - n, 0})
<1> DEFINE s == back_lines(buf, Here, n)
           l == Max({Top + page_length - n, 0})
           m == Max({AllLines - boxh + 1, 0})
<1>1. dialog = "text"
  BY DEF TextKey
<1>2. ASSUME Terminated(buf)
      PROVE  /\ s.page \in LinesOf(buf) /\ (s.begin => s.page = 0) /\ LinesBefore(buf, s.page) = l
             /\ l \in Nat /\ (searching => l <= m)
  <2>1. n \in Nat /\ (n > 0 \/ ~end_reached) /\ (searching => Top + page_length - n <= m)
    BY <1>2
  <2>2. /\ IsText(buf) /\ PageInv /\ Top \in 0..AllLines /\ AllLines \in Nat /\ page_length \in Nat /\ boxh \in Nat
        /\ m = IF AllLines - boxh + 1 >= 0 THEN AllLines - boxh + 1 ELSE 0
    BY <1>1, <1>2, TextKeyInv
  <2>3. s.page \in LinesOf(buf) /\ (s.begin => s.page = 0) /\ LinesBefore(buf, s.page) = l
    BY <2>1, <2>2, HereBack
  <2> DEFINE d == Top + page_length - n
  <2>4. d \in Int
    BY <2>1, <2>2
  <2>5. m \in Int /\ m >= 0
    BY <2>2
  <2> HIDE DEF d, m
  <2>6. Max({d, 0}) = IF d >= 0 THEN d ELSE 0
    BY <2>4, MaxOfTwo
  <2>7. l \in Nat /\ (searching => l <= m)
    BY <2>1, <2>4, <2>5, <2>6 DEF d
  <2> QED BY <2>3, <2>7
<1> HIDE DEF s, l
<1>3. Show(s)
  BY DEF s
<1>4. /\ TextInv' /\ key' = k
      /\ Terminated(buf) => Top' = IF searching /\ l > m THEN m ELSE l
  BY <1>2, <1>3, KeyShows
<1>5. Terminated(buf) => m \in Int
  <2>1. Terminated(buf) => /\ AllLines \in Nat /\ boxh \in Nat
                           /\ m = IF AllLines - boxh + 1 >= 0 THEN AllLines - boxh + 1 ELSE 0
    BY <1>1, TextKeyInv
  <2> HIDE DEF m
  <2> QED BY <2>1
<1>6. Terminated(buf) => ~(searching /\ l > m)
  <2> HIDE DEF m
  <2> QED BY <1>2, <1>5
<1>7. Terminated(buf) => Top' = l
  BY <1>4, <1>6
<1> QED BY <1>1, <1>4, <1>7 DEF l

LEMMA TextUpInv == ASSUME TextInv, TextUp PROVE TextInv' /\ Turned
<1>1. dialog = "text" /\ TextKey("up") /\ Show(back_lines(buf, Here, page_length + 1))
  BY DEF TextUp, TextKey
<1> DEFINE m == Max({AllLines - boxh + 1, 0})
<1>2. Terminated(buf) => /\ page_length \in Nat /\ Top \in Nat
                         /\ m = (IF AllLines - boxh + 1 >= 0 THEN AllLines - boxh + 1 ELSE 0)
                         /\ AllLines \in Nat /\ boxh \in Nat
                         /\ searching => Top <= m
  BY <1>1, TextKeyInv
<1> HIDE DEF m
<1>3. Terminated(buf) => /\ page_length + 1 \in Nat /\ page_length + 1 > 0
                         /\ Top + page_length - (page_length + 1) = Top - 1
                         /\ searching => Top - 1 <= m
  BY <1>2
<1>4. TextInv' /\ key' = "up" /\ (Terminated(buf) => Top' = Max({Top - 1, 0}))
  BY <1>1, <1>3, BackShows DEF m
<1> QED BY <1>4 DEF Turned

LEMMA TextDownInv == ASSUME TextInv, TextDown PROVE TextInv' /\ Turned
<1>1. dialog = "text" /\ TextKey("down") /\ ~end_reached /\ Show(back_lines(buf, Here, page_length - 1))
  BY DEF TextDown, TextKey
<1> DEFINE m == Max({AllLines - boxh + 1, 0})
<1>2. Terminated(buf) => /\ page_length \in Nat /\ page_length > 0 /\ Top \in Nat
                         /\ m = (IF AllLines - boxh + 1 >= 0 THEN AllLines - boxh + 1 ELSE 0)
                         /\ AllLines \in Nat /\ boxh \in Nat
                         /\ Top + boxh <= AllLines
  BY <1>1, TextKeyInv
<1> HIDE DEF m
<1>3. Terminated(buf) => /\ page_length - 1 \in Nat
                         /\ Top + page_length - (page_length - 1) = Top + 1
                         /\ Top + 1 <= m
  BY <1>2
<1>4. TextInv' /\ key' = "down" /\ (Terminated(buf) => Top' = Max({Top + 1, 0}))
  BY <1>1, <1>3, BackShows DEF m
<1>5. Terminated(buf) => Max({Top + 1, 0}) = Top + 1
  <2>1. Terminated(buf) => Top + 1 \in Int /\ Top + 1 >= 0
    BY <1>2
  <2> QED BY <2>1, MaxOfTwo
<1> QED BY <1>4, <1>5 DEF Turned

LEMMA TextPageUpInv == ASSUME TextInv, TextPageUp PROVE TextInv' /\ Turned
<1>1. dialog = "text" /\ TextKey("page up") /\ Show(back_lines(buf, Here, page_length + boxh))
  BY DEF TextPageUp, TextKey
<1> DEFINE m == Max({AllLines - boxh + 1, 0})
<1>2. Terminated(buf) => /\ page_length \in Nat /\ Top \in Nat
                         /\ m = (IF AllLines - boxh + 1 >= 0 THEN AllLines - boxh + 1 ELSE 0)
                         /\ AllLines \in Nat /\ boxh \in Nat /\ boxh > 0
                         /\ searching => Top <= m
  <2> SUFFICES ASSUME Terminated(buf)
               PROVE  /\ page_length \in Nat /\ Top \in 0..AllLines
                      /\ m = (IF AllLines - boxh + 1 >= 0 THEN AllLines - boxh + 1 ELSE 0)
                      /\ AllLines \in Nat /\ boxh \in Nat /\ boxh > 0
                      /\ searching => Top <= m
    OBVIOUS
  <2> QED BY <1>1, TextKeyInv
<1> HIDE DEF m
<1>3. Terminated(buf) => /\ page_length + boxh \in Nat /\ page_length + boxh > 0
                         /\ Top + page_length - (page_length + boxh) = Top - boxh
                         /\ searching => Top - boxh <= m
  BY <1>2
<1>4. TextInv' /\ key' = "page up" /\ (Terminated(buf) => Top' = Max({Top - boxh, 0}))
  BY <1>1, <1>3, BackShows DEF m
<1> QED BY <1>4 DEF Turned

\* Scrolling sideways prints the same lines again.
LEMMA SidewaysInv ==
    ASSUME TextInv, NEW k \in {"left", "right", "0"}, TextKey(k), Show(back_lines(buf, Here, page_length))
    PROVE  TextInv' /\ Turned
<1>1. dialog = "text"
  BY DEF TextKey
<1> DEFINE m == Max({AllLines - boxh + 1, 0})
<1>2. Terminated(buf) => /\ page_length \in Nat /\ page_length > 0 /\ Top \in Nat
                         /\ searching => Top <= m
  BY <1>1, TextKeyInv
<1> HIDE DEF m
<1>3. Terminated(buf) => Top + page_length - page_length = Top
  BY <1>2
<1>4. TextInv' /\ key' = k /\ (Terminated(buf) => Top' = Max({Top, 0}))
  BY <1>2, <1>3, BackShows DEF m
<1>5. Terminated(buf) => Max({Top, 0}) = Top
  <2>1. Terminated(buf) => Top \in Int /\ Top >= 0
    BY <1>2
  <2> QED BY <2>1, MaxOfTwo
<1> QED BY <1>4, <1>5 DEF Turned

LEMMA TextHomeInv == ASSUME TextInv, TextHome PROVE TextInv' /\ Turned
<1> DEFINE s == At(0, TRUE, end_reached)
           m == Max({AllLines - boxh + 1, 0})
<1>1. dialog = "text" /\ TextKey("home") /\ Show(s)
  BY DEF TextHome, TextKey
<1>2. s.page = 0
  BY DEF At
<1>3. Terminated(buf) => s.page \in LinesOf(buf) /\ LinesBefore(buf, s.page) = 0
  BY <1>1, <1>2, TextKeyInv, LinesToMany, NoLineBeforeText
<1> HIDE DEF s
<1>4. /\ TextInv' /\ key' = "home"
      /\ Terminated(buf) => Top' = IF searching /\ 0 > m THEN m ELSE 0
  <2>1. 0 \in Nat
    OBVIOUS
  <2> QED BY <1>1, <1>2, <1>3, <2>1, KeyShows
<1>5. Terminated(buf) => ~(0 > m)
  <2>1. Terminated(buf) => /\ AllLines \in Nat /\ boxh \in Nat
                           /\ m = IF AllLines - boxh + 1 >= 0 THEN AllLines - boxh + 1 ELSE 0
    BY <1>1, TextKeyInv
  <2> HIDE DEF m
  <2> QED BY <2>1
<1> QED BY <1>4, <1>5 DEF Turned

LEMMA TextEndInv == ASSUME TextInv, TextEnd PROVE TextInv' /\ Turned
<1> DEFINE e == At(Len(buf), begin_reached, TRUE)
           s == back_lines(buf, e, boxh)
           m == Max({AllLines - boxh + 1, 0})
<1>1. dialog = "text" /\ TextKey("end") /\ Show(s)
  BY DEF TextEnd, TextKey
<1>2. e.page = Len(buf) /\ e.end = TRUE
  BY DEF At
<1>3. Terminated(buf) => /\ IsText(buf) /\ boxh \in Nat /\ boxh > 0 /\ AllLines \in Nat
                         /\ m = IF AllLines - boxh + 1 >= 0 THEN AllLines - boxh + 1 ELSE 0
  BY <1>1, TextKeyInv
<1> HIDE DEF e
<1>4. ASSUME Terminated(buf)
      PROVE  s.page \in LinesOf(buf) /\ (s.begin => s.page = 0) /\ LinesBefore(buf, s.page) = m
  <2>1. Placed(buf, e)
    BY <1>2, <1>3, <1>4, LinesToMany DEF Placed
  <2>2. Turns(e, boxh) = boxh - 1
    BY <1>2, <1>3, <1>4 DEF Turns
  <2>3. LinesBefore(buf, e.page) = AllLines
    BY <1>2 DEF AllLines
  <2>4. AllLines - (boxh - 1) = AllLines - boxh + 1
    BY <1>3, <1>4
  <2>5. /\ s.page \in LinesOf(buf) /\ (s.begin => s.page = 0)
        /\ LinesBefore(buf, s.page) = Max({LinesBefore(buf, e.page) - Turns(e, boxh), 0})
    BY <1>3, <1>4, <2>1, BackLines DEF Placed
  <2> QED BY <2>2, <2>3, <2>4, <2>5
<1>5. Terminated(buf) => m \in Nat
  <2> HIDE DEF m
  <2> QED BY <1>3
<1> HIDE DEF s
<1>6. /\ TextInv' /\ key' = "end"
      /\ Terminated(buf) => Top' = IF searching /\ m > m THEN m ELSE m
  BY <1>1, <1>4, <1>5, KeyShows
<1> QED BY <1>6 DEF Turned

LEMMA TextPageDownInv == ASSUME TextInv, TextPageDown PROVE TextInv' /\ Turned
<1> DEFINE s == At(page, FALSE, end_reached)
           m == Max({AllLines - boxh + 1, 0})
           l == Top + boxh
<1>1. dialog = "text" /\ TextKey("page down") /\ ~end_reached /\ Show(s)
  BY DEF TextPageDown, TextKey
<1>2. s.page = page /\ s.begin = FALSE
  BY DEF At
<1>3. Terminated(buf) => /\ PageInv /\ boxh \in Nat /\ boxh > 0 /\ Top \in Nat /\ AllLines \in Nat
                         /\ Top + boxh <= AllLines /\ LinesBefore(buf, page) = Top + boxh
                         /\ m = IF AllLines - boxh + 1 >= 0 THEN AllLines - boxh + 1 ELSE 0
                         /\ searching \in BOOLEAN
  <2> SUFFICES ASSUME Terminated(buf)
               PROVE  /\ PageInv /\ boxh \in Nat /\ boxh > 0 /\ Top \in 0..AllLines /\ AllLines \in Nat
                      /\ Top + boxh <= AllLines /\ LinesBefore(buf, page) = Top + boxh
                      /\ m = IF AllLines - boxh + 1 >= 0 THEN AllLines - boxh + 1 ELSE 0
                      /\ searching \in BOOLEAN
    OBVIOUS
  <2> QED BY <1>1, TextKeyInv
<1>4. Terminated(buf) => s.page \in LinesOf(buf) /\ l \in Nat /\ LinesBefore(buf, s.page) = l
  <2>1. PageInv => page \in LinesOf(buf)
    BY DEF PageInv
  <2> HIDE DEF s, m
  <2> QED BY <1>2, <1>3, <2>1
<1> HIDE DEF s, l
<1>5. /\ TextInv' /\ key' = "page down"
      /\ Terminated(buf) => Top' = IF searching /\ l > m THEN m ELSE l
  BY <1>1, <1>2, <1>4, KeyShows
<1> HIDE DEF m
<1>6. Terminated(buf) => l = Top + boxh /\ l > Top /\ m > Top
  BY <1>3 DEF l
<1>7. Terminated(buf) => (~searching => Top' = Top + boxh) /\ (searching => Top' > Top)
  BY <1>5, <1>6
<1> QED BY <1>5, <1>7 DEF Turned

LEMMA TextResizeInv == ASSUME TextInv, NEW height \in BoxHeights, TextResize(height) PROVE TextInv' /\ Turned
<1> DEFINE s == back_lines(buf, Here, boxh + 4)
<1>1. /\ dialog = "text" /\ dialog' = "text" /\ key' = "resize" /\ UNCHANGED <<buf, searching, vscroll, again>>
      /\ PrintPage(buf, s, height, searching)
  BY DEF TextResize, Stay
<1>2. height \in Nat /\ height > 0
  BY TextConstants
<1>3. ASSUME Terminated(buf) PROVE s.page \in LinesOf(buf) /\ (s.begin => s.page = 0)
  <2>1. IsText(buf) /\ PageInv /\ boxh \in Nat
    BY <1>1, <1>3, TextKeyInv
  <2>2. boxh + 4 \in Nat /\ boxh + 4 > 0
    BY <2>1
  <2> QED BY <2>1, <2>2, HereBack
<1> HIDE DEF s
<1>4. TextInv'
  BY <1>1, <1>2, <1>3, ShowInv
<1> QED BY <1>1, <1>4 DEF Turned

\* What PositionIsKept says of a step of the text box.
Returned ==
    /\ searching /\ dialog' = None => vscroll' = Top
    /\ dialog = None /\ again /\ searching' /\ UNCHANGED <<buf, vscroll>>
         => Top' = Min({vscroll, Max({AllLines - boxh' + 1, 0})})

LEMMA OpenTextInv ==
    ASSUME TextInv, NEW text \in Texts, NEW height \in BoxHeights, NEW search \in {FALSE} \cup {Terminated(text)},
           OpenText(text, height, search)
    PROVE  TextInv' /\ Turned /\ Returned
<1> DEFINE s == At(0, TRUE, FALSE)
<1>1. /\ dialog = None /\ dialog' = "text" /\ buf' = text /\ searching' = search /\ vscroll' = 0 /\ again' = FALSE
      /\ PrintPage(text, s, height, search)
  BY DEF OpenText, Opened
<1>2. height \in Nat /\ height > 0 /\ (Terminated(text) => IsText(text)) /\ None # "text"
  BY TextConstants
<1>3. search \in BOOLEAN /\ (search => Terminated(text))
  BY DEF Terminated
<1>4. s.page = 0
  BY DEF At
<1> HIDE DEF s
<1>5. ASSUME Terminated(text)
      PROVE  /\ PageInv'
             /\ Top' = IF search THEN Min({0, Max({All(text) - height + 1, 0})}) ELSE 0
  <2>1. s.page \in LinesOf(text) /\ LinesBefore(text, s.page) = 0
    BY <1>2, <1>4, <1>5, LinesToMany, NoLineBeforeText
  <2> QED BY <1>1, <1>2, <1>3, <1>4, <1>5, <2>1, PageShows
<1>6. TextInv'
  <2>1. Terminated(buf') = Terminated(text) /\ 0 \in Nat
    BY <1>1
  <2> QED BY <1>1, <1>3, <1>5, <2>1 DEF TextInv
<1>7. Returned
  <2> SUFFICES ASSUME search, buf' = buf, vscroll' = vscroll
               PROVE  Top' = Min({vscroll, Max({AllLines - boxh' + 1, 0})})
    BY <1>1, <1>2 DEF Returned
  <2>1. boxh' = height
    BY <1>1, Zenon DEF PrintPage
  <2>2. AllLines = All(text) /\ vscroll = 0
    BY <1>1 DEF AllLines, All
  <2> QED BY <1>3, <1>5, <2>1, <2>2
<1> QED BY <1>1, <1>2, <1>6, <1>7 DEF Turned

LEMMA SearchAgainInv ==
    ASSUME TextInv, NEW height \in BoxHeights, SearchAgain(height)
    PROVE  TextInv' /\ Turned /\ Returned
<1> DEFINE s == IF vscroll = 0 THEN At(0, TRUE, FALSE) ELSE get_lines(buf, At(0, FALSE, FALSE), vscroll)[vscroll]
           A == All(buf)
           m == Max({A - height + 1, 0})
<1>1. /\ again /\ dialog = None /\ dialog' = "text" /\ searching' = TRUE /\ again' = FALSE
      /\ buf' = buf /\ vscroll' = vscroll
      /\ PrintPage(buf, s, height, TRUE)
  BY DEF SearchAgain, Opened
<1>2. height \in Nat /\ height > 0 /\ None # "text" /\ buf \in Texts /\ Terminated(buf) /\ IsText(buf) /\ vscroll \in Nat
  BY <1>1, TextConstants DEF TextInv
<1>3. A \in Nat /\ 0 \in LinesOf(buf) /\ LinesBefore(buf, 0) = 0
  BY <1>2, LinesToMany, NoLineBeforeText
<1> HIDE DEF A
<1>4. /\ s.page \in LinesOf(buf) /\ (s.begin => s.page = 0)
      /\ LinesBefore(buf, s.page) = Min({vscroll, A})
  <2>1. CASE vscroll = 0
    <3>1. s.page = 0
      BY <2>1 DEF At
    <3>2. Min({0, A}) = 0
      BY <1>3, MinOfTwo
    <3> HIDE DEF s
    <3> QED BY <1>3, <2>1, <3>1, <3>2
  <2>2. CASE vscroll # 0
    <3> DEFINE b == At(0, FALSE, FALSE)
    <3>1. b.page = 0 /\ b.begin = FALSE
      BY DEF At
    <3>2. s = get_lines(buf, b, vscroll)[vscroll]
      BY <2>2
    <3> HIDE DEF b, s
    <3>3. vscroll \in 0..vscroll
      BY <1>2
    <3>4. /\ s.page \in LinesOf(buf) /\ s.begin = b.begin
          /\ LinesBefore(buf, s.page) = Ahead(buf, b.page, vscroll)
      <4>1. b.page \in LinesOf(buf)
        BY <1>3, <3>1
      <4> QED BY <1>2, <3>2, <3>3, <4>1, GetLines
    <3>5. Ahead(buf, b.page, vscroll) = Min({vscroll, A})
      BY <1>2, <1>3, <3>1 DEF Ahead, A
    <3> QED BY <3>1, <3>4, <3>5
  <2> QED BY <2>1, <2>2
<1> HIDE DEF s
<1>5. PageInv' /\ Top' = Min({Min({vscroll, A}), m})
  BY <1>1, <1>2, <1>4, PageShows DEF A
<1>6. TextInv'
  <2>1. Terminated(buf') = Terminated(buf)
    BY <1>1
  <2> QED BY <1>1, <1>2, <1>5, <2>1 DEF TextInv
<1>7. Min({Min({vscroll, A}), m}) = Min({vscroll, m})
  <2>1. m = (IF A - height + 1 >= 0 THEN A - height + 1 ELSE 0)
    BY <1>2, <1>3, MaxOfTwo
  <2> HIDE DEF m
  <2>2. m \in Nat /\ m <= A
    BY <1>2, <1>3, <2>1
  <2> DEFINE v == Min({vscroll, A})
  <2>3. v = (IF vscroll <= A THEN vscroll ELSE A)
    BY <1>2, <1>3, MinOfTwo
  <2> HIDE DEF v
  <2>4. v \in Int
    BY <1>2, <1>3, <2>3
  <2>5. Min({v, m}) = (IF v <= m THEN v ELSE m) /\ Min({vscroll, m}) = (IF vscroll <= m THEN vscroll ELSE m)
    BY <1>2, <2>2, <2>4, MinOfTwo
  <2>6. Min({v, m}) = Min({vscroll, m})
    BY <1>2, <1>3, <2>2, <2>3, <2>5
  <2> QED BY <2>6 DEF v
<1>8. Returned
  <2>1. boxh' = height
    BY <1>1, Zenon DEF PrintPage
  <2>2. AllLines = A
    BY DEF AllLines, All, A
  <2>3. Top' = Min({vscroll, Max({AllLines - boxh' + 1, 0})})
    BY <1>5, <1>7, <2>1, <2>2
  <2> QED BY <1>1, <1>2, <2>3 DEF Returned
<1> QED BY <1>1, <1>2, <1>6, <1>8 DEF Turned

LEMMA LeaveTextInv == ASSUME TextInv, NEW k, LeaveText(k) PROVE TextInv' /\ Turned /\ Returned
<1> DEFINE s == back_lines(buf, Here, page_length)
<1>1. /\ dialog = "text" /\ dialog' = None /\ buf' = buf /\ searching' = FALSE
      /\ k = "jump" => searching
      /\ again' = (k = "jump")
      /\ vscroll' = IF searching THEN LinesBefore(buf, s.page) ELSE 0
  BY DEF LeaveText, Return
<1>2. None # "text" /\ buf \in Texts /\ searching \in BOOLEAN /\ (searching => Terminated(buf))
  BY <1>1, TextConstants DEF TextInv
<1>3. ASSUME searching PROVE LinesBefore(buf, s.page) = Top /\ Top \in Nat
  <2>1. /\ IsText(buf) /\ PageInv /\ Top \in 0..AllLines /\ page_length \in Nat /\ page_length > 0
    BY <1>1, <1>2, <1>3, TextKeyInv
  <2>2. LinesBefore(buf, s.page) = Max({Top + page_length - page_length, 0})
    BY <2>1, HereBack
  <2> DEFINE T == Top
  <2>3. T \in Nat
    BY <2>1
  <2> HIDE DEF T, s
  <2>4. T + page_length - page_length = T
    BY <2>1, <2>3
  <2>5. Max({T, 0}) = T
    BY <2>3, MaxOfTwo
  <2> QED BY <2>2, <2>3, <2>4, <2>5 DEF T
<1> HIDE DEF s
<1>4. vscroll' \in Nat /\ (searching => vscroll' = Top)
  BY <1>1, <1>3
<1>5. Terminated(buf') = Terminated(buf)
  BY <1>1
<1>6. TextInv'
  BY <1>1, <1>2, <1>4, <1>5 DEF TextInv
<1>7. Turned /\ Returned
  BY <1>1, <1>2, <1>4 DEF Turned, Returned
<1> QED BY <1>6, <1>7

LEMMA TextNextInv == ASSUME TextInv, TextNext PROVE TextInv' /\ Turned /\ Returned
<1>1. ASSUME NEW text \in Texts, NEW height \in BoxHeights, NEW search \in {FALSE} \cup {Terminated(text)},
             OpenText(text, height, search)
      PROVE  TextInv' /\ Turned /\ Returned
  BY <1>1, OpenTextInv
<1>2. ASSUME NEW height \in BoxHeights, SearchAgain(height) PROVE TextInv' /\ Turned /\ Returned
  BY <1>2, SearchAgainInv
<1>3. ASSUME NEW k \in {"newline", "ESC", "jump"}, LeaveText(k) PROVE TextInv' /\ Turned /\ Returned
  BY <1>3, LeaveTextInv
<1>4. ASSUME dialog = "text", dialog' = "text" PROVE Returned
  BY <1>4, TextConstants DEF Returned
<1>5. ASSUME NEW height \in BoxHeights, TextResize(height) PROVE TextInv' /\ Turned /\ Returned
  BY <1>4, <1>5, TextResizeInv DEF TextResize, Stay
<1>6. CASE TextHome
  BY <1>4, <1>6, TextHomeInv DEF TextHome, TextKey, Stay
<1>7. CASE TextEnd
  BY <1>4, <1>7, TextEndInv DEF TextEnd, TextKey, Stay
<1>8. CASE TextUp
  BY <1>4, <1>8, TextUpInv DEF TextUp, TextKey, Stay
<1>9. CASE TextDown
  BY <1>4, <1>9, TextDownInv DEF TextDown, TextKey, Stay
<1>10. CASE TextPageUp
  BY <1>4, <1>10, TextPageUpInv DEF TextPageUp, TextKey, Stay
<1>11. CASE TextPageDown
  BY <1>4, <1>11, TextPageDownInv DEF TextPageDown, TextKey, Stay
<1>12. ASSUME NEW k \in {"left", "0"}, TextLeft(k) PROVE TextInv' /\ Turned /\ Returned
  BY <1>4, <1>12, SidewaysInv DEF TextLeft, TextKey, Stay
<1>13. CASE TextRight
  BY <1>4, <1>13, SidewaysInv DEF TextRight, TextKey, Stay
<1> QED BY <1>1, <1>2, <1>3, <1>5, <1>6, <1>7, <1>8, <1>9, <1>10, <1>11, <1>12, <1>13 DEF TextNext

\* The page is what TextIsReachable says.
LEMMA TextIsSeen == ASSUME TextInv PROVE TextIsReachable
<1> SUFFICES ASSUME dialog = "text", Terminated(buf)
             PROVE  /\ \A row \in 0..boxh - 1 : LinesBefore(buf, starts[row]) = Min({Top + row, AllLines})
                    /\ begin_reached => Top = 0
                    /\ end_reached => Top + boxh > AllLines
  BY DEF TextIsReachable
<1> QED BY DEF TextInv, PageInv
=============================================================================
