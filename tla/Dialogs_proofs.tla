--------------------------- MODULE Dialogs_proofs ---------------------------
(***************************************************************************)
(* Proofs about menuconfig's dialog boxes: for every width of the input    *)
(* box and every text it shows the text around the cursor; for every menu, *)
(* radio list and terminal the cursor is in the list that the screen       *)
(* shows.                                                                  *)
(***************************************************************************)
EXTENDS Dialogs, LxText_proofs

(***************************************************************************)
(* The input box.                                                          *)
(***************************************************************************)
Widths == box_width \in Nat /\ box_width > 0 /\ MAX_LEN \in Nat

InputInv ==
    dialog = "input" =>
      /\ instr \in Seq(Chars) /\ len <= MAX_LEN
      /\ show_x \in Nat /\ input_x \in Cells
      /\ pos = show_x + input_x /\ pos <= len
      /\ cells = [c \in Cells |-> IF show_x + c < len THEN instr[show_x + c + 1] ELSE Blank]

LEMMA Constants ==
    /\ Widths
    /\ None # "input" /\ None # "menu" /\ None # "checklist" /\ None \notin Nat
    /\ \A text \in InitTexts : text \in Seq(Chars) /\ Len(text) <= MAX_LEN
BY InputAssumption, NoneAssumption DEF InputAssumption, NoneAssumption, Widths

\* What is written over a window of a text that is one place off, or has one
\* character more or less, leaves no residue.
LEMMA NoResidue ==
    ASSUME NEW text \in Seq(Chars), NEW from \in Nat, NEW before,
           \A c \in Cells : from + c > Len(text) => before[c] = Blank
    PROVE  Written(text, from, before)
             = [c \in Cells |-> IF from + c < Len(text) THEN text[from + c + 1] ELSE Blank]
<1>1. \A c \in Cells : c \in Nat
  BY Constants DEF Cells, Widths
<1>2. Len(text) \in Nat
  OBVIOUS
<1> QED BY <1>1, <1>2 DEF Written

LEMMA Constant == Cells' = Cells /\ Blank' = Blank /\ MAX_LEN' = MAX_LEN
BY DEF Cells, Blank

LEMMA DrawInputInv ==
    ASSUME NEW text \in Seq(Chars), Len(text) <= MAX_LEN, DrawInput(text), instr' = text
    PROVE  InputInv'
<1> DEFINE n == Len(text)
<1>1. n \in Nat /\ box_width \in Nat /\ box_width > 0
  BY Constants DEF Widths
<1>2. show_x' \in Nat /\ input_x' \in Cells /\ n = show_x' + input_x'
  BY <1>1 DEF DrawInput, Cells
<1>3. cells' = [c \in Cells |-> IF show_x' + c < n THEN text[show_x' + c + 1] ELSE Blank]
  <2> DEFINE before == [d \in Cells |-> Blank]
  <2>1. \A c \in Cells : show_x' + c > n => before[c] = Blank
    OBVIOUS
  <2>2. cells' = Written(text, show_x', before)
    BY DEF DrawInput
  <2> HIDE DEF before
  <2>3. Written(text, show_x', before)
          = [c \in Cells |-> IF show_x' + c < n THEN text[show_x' + c + 1] ELSE Blank]
    BY <1>2, <2>1, NoResidue, Zenon
  <2> QED BY <2>2, <2>3, Zenon
<1> HIDE DEF n
<1>4. instr' \in Seq(Chars) /\ len' = n /\ n <= MAX_LEN /\ pos' = n
  BY DEF DrawInput, len, n
<1> QED BY <1>1, <1>2, <1>3, <1>4, Constant DEF InputInv

LEMMA BackspaceInv == ASSUME InputInv, Backspace PROVE InputInv'
<1>1. instr \in Seq(Chars) /\ len <= MAX_LEN /\ show_x \in Nat /\ input_x \in Cells
      /\ pos = show_x + input_x /\ pos <= len /\ pos > 0
      /\ cells = [c \in Cells |-> IF show_x + c < len THEN instr[show_x + c + 1] ELSE Blank]
  BY DEF InputInv, Backspace, InField
<1>2. box_width \in Nat /\ Cells = 0..box_width - 1 /\ len \in Nat /\ MAX_LEN \in Nat
  BY <1>1, Constants DEF Widths, Cells, len
<1>3. instr' \in Seq(Chars) /\ len' = len - 1
  <2>1. SubSeq(instr, 1, pos - 1) \in Seq(Chars) /\ Len(SubSeq(instr, 1, pos - 1)) = pos - 1
    BY <1>1, <1>2 DEF len
  <2>2. SubSeq(instr, pos + 1, Len(instr)) \in Seq(Chars)
        /\ Len(SubSeq(instr, pos + 1, Len(instr))) = Len(instr) - pos
    BY <1>1, <1>2 DEF len
  <2>3. instr' = SubSeq(instr, 1, pos - 1) \o SubSeq(instr, pos + 1, Len(instr))
    BY DEF Backspace, RemoveAt
  <2>4. \A s, t \in Seq(Chars) : s \o t \in Seq(Chars) /\ Len(s \o t) = Len(s) + Len(t)
    OBVIOUS
  <2>5. instr' \in Seq(Chars) /\ Len(instr') = pos - 1 + Len(instr) - pos
    BY <2>1, <2>2, <2>3, <2>4
  <2> QED BY <2>5, <1>1, <1>2 DEF len
<1>4. show_x' \in Nat /\ input_x' \in Cells /\ pos' = show_x' + input_x' /\ pos' <= len'
  BY <1>1, <1>2, <1>3 DEF Backspace
<1>5. \A c \in Cells : show_x' + c > len' => cells[c] = Blank
  BY <1>1, <1>2, <1>3 DEF Backspace
<1>6. cells' = [c \in Cells |-> IF show_x' + c < len' THEN instr'[show_x' + c + 1] ELSE Blank]
  BY <1>3, <1>4, <1>5, NoResidue DEF Backspace, len
<1> QED BY <1>1, <1>2, <1>3, <1>4, <1>6, Constant DEF InputInv

LEMMA InputLeftInv == ASSUME InputInv, InputLeft PROVE InputInv'
<1>1. instr \in Seq(Chars) /\ len <= MAX_LEN /\ show_x \in Nat /\ input_x \in Cells
      /\ pos = show_x + input_x /\ pos <= len /\ pos > 0
      /\ cells = [c \in Cells |-> IF show_x + c < len THEN instr[show_x + c + 1] ELSE Blank]
  BY DEF InputInv, InputLeft, InField
<1>2. box_width \in Nat /\ Cells = 0..box_width - 1 /\ len \in Nat /\ MAX_LEN \in Nat
  BY <1>1, Constants DEF Widths, Cells, len
<1>3. instr' = instr /\ len' = len
  BY DEF InputLeft, len
<1>4. CASE input_x > 0
  BY <1>1, <1>2, <1>3, <1>4, Constant DEF InputInv, InputLeft
<1>5. CASE ~(input_x > 0)
  <2>1. show_x' \in Nat /\ input_x' \in Cells /\ pos' = show_x' + input_x' /\ pos' <= len
    BY <1>1, <1>2, <1>5 DEF InputLeft
  <2>2. \A c \in Cells : show_x' + c > Len(instr) => cells[c] = Blank
    BY <1>1, <1>2, <1>5 DEF InputLeft, len
  <2>3. cells' = [c \in Cells |-> IF show_x' + c < len THEN instr[show_x' + c + 1] ELSE Blank]
    BY <1>1, <1>5, <2>1, <2>2, NoResidue DEF InputLeft, len
  <2> QED BY <1>1, <1>2, <1>3, <2>1, <2>3, Constant DEF InputInv
<1> QED BY <1>4, <1>5

LEMMA InputRightInv == ASSUME InputInv, InputRight PROVE InputInv'
<1>1. instr \in Seq(Chars) /\ len <= MAX_LEN /\ show_x \in Nat /\ input_x \in Cells
      /\ pos = show_x + input_x /\ pos <= len /\ pos < len
      /\ cells = [c \in Cells |-> IF show_x + c < len THEN instr[show_x + c + 1] ELSE Blank]
  BY DEF InputInv, InputRight, InField
<1>2. box_width \in Nat /\ Cells = 0..box_width - 1 /\ len \in Nat /\ MAX_LEN \in Nat
  BY <1>1, Constants DEF Widths, Cells, len
<1>3. instr' = instr /\ len' = len
  BY DEF InputRight, len
<1>4. CASE input_x < box_width - 1
  BY <1>1, <1>2, <1>3, <1>4, Constant DEF InputInv, InputRight
<1>5. CASE ~(input_x < box_width - 1)
  <2>1. show_x' \in Nat /\ input_x' \in Cells /\ pos' = show_x' + input_x' /\ pos' <= len
    BY <1>1, <1>2, <1>5 DEF InputRight
  <2>2. \A c \in Cells : show_x' + c > Len(instr) => cells[c] = Blank
    BY <1>1, <1>2, <1>5 DEF InputRight, len
  <2>3. cells' = [c \in Cells |-> IF show_x' + c < len THEN instr[show_x' + c + 1] ELSE Blank]
    BY <1>1, <1>5, <2>1, <2>2, NoResidue DEF InputRight, len
  <2> QED BY <1>1, <1>2, <1>3, <2>1, <2>3, Constant DEF InputInv
<1> QED BY <1>4, <1>5

LEMMA TypeInv == ASSUME InputInv, NEW c \in Chars, Type(c) PROVE InputInv'
<1>1. instr \in Seq(Chars) /\ len <= MAX_LEN /\ show_x \in Nat /\ input_x \in Cells
      /\ pos = show_x + input_x /\ pos <= len /\ len < MAX_LEN
      /\ cells = [d \in Cells |-> IF show_x + d < len THEN instr[show_x + d + 1] ELSE Blank]
  BY DEF InputInv, Type, InField
<1>2. box_width \in Nat /\ Cells = 0..box_width - 1 /\ len \in Nat /\ MAX_LEN \in Nat
  BY <1>1, Constants DEF Widths, Cells, len
<1>3. instr' \in Seq(Chars) /\ len' = len + 1
  <2>1. SubSeq(instr, 1, pos) \in Seq(Chars) /\ Len(SubSeq(instr, 1, pos)) = pos
    BY <1>1, <1>2 DEF len, Cells
  <2>2. SubSeq(instr, pos + 1, Len(instr)) \in Seq(Chars)
        /\ Len(SubSeq(instr, pos + 1, Len(instr))) = Len(instr) - pos
    BY <1>1, <1>2 DEF len, Cells
  <2>3. instr' = SubSeq(instr, 1, pos) \o <<c>> \o SubSeq(instr, pos + 1, Len(instr))
    <3>1. instr' = SubSeq(instr, 1, (pos + 1) - 1) \o <<c>> \o SubSeq(instr, pos + 1, Len(instr))
      BY Zenon DEF Type, InsertAt
    <3>2. (pos + 1) - 1 = pos
      BY <1>1, <1>2 DEF Cells
    <3> QED BY <3>1, <3>2, Zenon
  <2>4. \A s, t \in Seq(Chars) : s \o t \in Seq(Chars) /\ Len(s \o t) = Len(s) + Len(t)
    OBVIOUS
  <2>5. <<c>> \in Seq(Chars) /\ Len(<<c>>) = 1
    OBVIOUS
  <2>6. SubSeq(instr, 1, pos) \o <<c>> \in Seq(Chars) /\ Len(SubSeq(instr, 1, pos) \o <<c>>) = pos + 1
    BY <2>1, <2>4, <2>5
  <2>7. instr' \in Seq(Chars) /\ Len(instr') = pos + 1 + (Len(instr) - pos)
    BY <2>2, <2>3, <2>4, <2>6
  <2> QED BY <2>7, <1>1, <1>2 DEF len
<1>7. /\ pos' = pos + 1
      /\ input_x = box_width - 1 => show_x' = show_x + 1 /\ input_x' = input_x
      /\ input_x # box_width - 1 => show_x' = show_x /\ input_x' = input_x + 1
      /\ cells' = Written(instr', show_x', cells)
  BY Zenon DEF Type
<1>4. show_x' \in Nat /\ input_x' \in Cells /\ pos' = show_x' + input_x' /\ pos' <= len'
  <2>1. show_x \in Nat /\ input_x \in 0..box_width - 1 /\ pos = show_x + input_x /\ pos <= len /\ len \in Nat
        /\ box_width \in Nat /\ len' = len + 1
    BY <1>1, <1>2, <1>3
  <2>2. CASE input_x = box_width - 1
    BY <1>2, <1>7, <2>1, <2>2
  <2>3. CASE input_x # box_width - 1
    BY <1>2, <1>7, <2>1, <2>3
  <2> QED BY <2>2, <2>3
<1>5. \A d \in Cells : show_x' + d > Len(instr') => cells[d] = Blank
  <2>1. show_x' <= show_x + 1
    BY <1>1, <1>2, <1>7
  <2>2. Len(instr') = len + 1
    BY <1>3 DEF len
  <2>3. \A d \in Cells : show_x' + d > Len(instr') => ~(show_x + d < len)
    <3>1. show_x \in Nat /\ show_x' \in Nat /\ len \in Nat /\ \A d \in Cells : d \in Int
      BY <1>1, <1>2, <1>4
    <3> QED BY <3>1, <2>1, <2>2
  <2> QED BY <1>1, <2>3
<1>6. cells' = [d \in Cells |-> IF show_x' + d < len' THEN instr'[show_x' + d + 1] ELSE Blank]
  BY <1>3, <1>4, <1>5, <1>7, NoResidue DEF len
<1>8. len' <= MAX_LEN
  <2>1. len \in Nat /\ MAX_LEN \in Nat /\ len < MAX_LEN /\ len' = len + 1
    BY <1>1, <1>2, <1>3
  <2> QED BY <2>1
<1> QED BY <1>3, <1>4, <1>6, <1>8, Constant DEF InputInv

LEMMA InputNextInv == ASSUME InputInv, InputNext PROVE InputInv'
<1>1. ASSUME NEW text \in InitTexts, OpenInput(text) PROVE InputInv'
  BY <1>1, Constants, DrawInputInv DEF OpenInput
<1>2. CASE InputResize
  BY <1>2, DrawInputInv DEF InputResize, InputInv, len
<1>3. CASE Backspace
  BY <1>3, BackspaceInv
<1>4. CASE InputLeft
  BY <1>4, InputLeftInv
<1>5. CASE InputRight
  BY <1>5, InputRightInv
<1>6. ASSUME NEW c \in Chars, Type(c) PROVE InputInv'
  BY <1>6, TypeInv
<1>7. ASSUME NEW k, InputButton(k) PROVE InputInv'
  BY <1>7, Constant DEF InputButton, Stay, ivars, InputInv, len
<1>8. ASSUME NEW k, AnswerInput(k) PROVE InputInv'
  BY <1>8, Constants DEF AnswerInput, Return, InputInv
<1> QED BY <1>1, <1>2, <1>3, <1>4, <1>5, <1>6, <1>7, <1>8 DEF InputNext

LEMMA OtherBoxes ==
    ASSUME YesnoNext \/ MenuNext \/ ListNext \/ TextNext
    PROVE  dialog' # "input"
<1>1. None # "input"
  BY Constants
<1>2. CASE YesnoNext
  BY <1>1, <1>2 DEF YesnoNext, OpenYesno, YesnoButton, AnswerYesno, Opened, Return, Stay
<1>3. CASE MenuNext
  BY <1>1, <1>3 DEF MenuNext, OpenMenu, KEY_RESIZE, KEY_RESIZEDies, KEY_UP, KEY_DOWN, KEY_PPAGE, KEY_NPAGE, Hotkey, MenuKey,
       MenuButton, SelectItem, LeaveMenu, Opened, Return, Stay
<1>4. CASE ListNext
  BY <1>1, <1>4 DEF ListNext, OpenChecklist, ListResize, ListUp, ListDown, ListHotkey, ListKey,
       ListButton, SelectInList, LeaveList, Opened, Return, Stay
<1>5. CASE TextNext
  BY <1>1, <1>5 DEF TextNext, OpenText, SearchAgain, TextResize, TextHome, TextEnd, TextUp, TextDown, TextPageUp,
       TextPageDown, TextLeft, TextRight, TextKey, LeaveText, Opened, Return, Stay
<1> QED BY <1>2, <1>3, <1>4, <1>5

\* The field shows the text around the cursor, for every width of the box and
\* every length of a text.
THEOREM InputFieldShowsText == Spec => []FieldShowsText
<1>1. Init => InputInv
  BY Constants DEF Init, DialogInit, InputInv
<1>2. InputInv /\ [Next]_vars => InputInv'
  <2> SUFFICES ASSUME InputInv, [Next]_vars PROVE InputInv'
    OBVIOUS
  <2>1. CASE InputNext
    BY <2>1, InputNextInv
  <2>2. CASE (YesnoNext \/ MenuNext \/ ListNext \/ TextNext)
    BY <2>2, OtherBoxes DEF InputInv
  <2>4. CASE UNCHANGED vars
    BY <2>4, Constant DEF vars, dvars, ivars, InputInv, len
  <2> QED BY <2>1, <2>2, <2>4 DEF Next
<1>3. InputInv => FieldShowsText
  BY Constants DEF InputInv, FieldShowsText, Widths, len, Cells
<1> QED BY <1>1, <1>2, <1>3, PTL DEF Spec

(***************************************************************************)
(* The menu box and the radio list.                                        *)
(***************************************************************************)
\* When a box that is not misled is drawn again, the first item is where the
\* list is scrolled to: a scroll position that is not taken over then was not
\* taken over before, in more rows.
FirstItemInv ==
    dialog = "menu" =>
      /\ selected # None => selected \in 0..item_count - 1
      /\ selected # None /\ ~misled /\ first_item # 0 =>
           \/ selected >= max_choice
           \/ s_scroll <= selected /\ selected < s_scroll + max_choice /\ s_scroll + max_choice <= item_count

ListInv ==
    /\ s_scroll \in Nat /\ misled \in BOOLEAN
    /\ InList => /\ item_count \in Nat /\ max_choice \in 0..item_count
                 /\ item_count # 0 => max_choice # 0
                 /\ DOMAIN rows = 0..max_choice - 1
    /\ dialog = "checklist" => item_count # 0 /\ max_choice = Min({list_height, item_count})
    /\ ListIsShown
    /\ FirstItemInv

LEMMA ListConstants ==
    /\ list_height \in Nat /\ list_height > 0
    /\ \A menu \in RadioLists : Len(menu) \in Nat /\ Len(menu) > 0
    /\ \A menu \in Menus : Len(menu) \in Nat
    /\ \A height \in MenuHeights : height \in Nat /\ height > 0
<1>1. \A menu \in RadioLists : menu \in Seq(Range(menu) \ MovingKeys) /\ menu # <<>>
  BY ListAssumption DEF ListAssumption
<1>2. \A menu \in Menus : menu \in Seq(Range(menu) \ MovingKeys)
  BY MenuAssumption DEF MenuAssumption
<1>3. list_height \in Nat /\ list_height > 0 /\ \A height \in MenuHeights : height \in Nat /\ height > 0
  BY ListAssumption, MenuAssumption DEF ListAssumption, MenuAssumption
<1>4. ASSUME NEW menu \in RadioLists PROVE Len(menu) \in Nat /\ Len(menu) > 0
  <2>1. menu \in Seq(Range(menu) \ MovingKeys) /\ menu # <<>>
    BY <1>1
  <2>2. Len(menu) \in Nat /\ Len(menu) # 0
    BY <2>1
  <2> QED BY <2>2
<1>5. \A menu \in Menus : Len(menu) \in Nat
  BY <1>2
<1> QED BY <1>3, <1>4, <1>5

\* The list drawn with a cursor on the screen.
LEMMA PrintListInv ==
    ASSUME NEW first, NEW to, NEW at, NEW max, PrintList(first, to, at, max),
           item_count' \in Nat, max \in 0..item_count', item_count' # 0 => max # 0,
           item_count' # 0 => at \in 0..max - 1 /\ to \in 0..item_count' - max,
           item_count' = 0 => at = 0 /\ to = 0,
           first = to \/ misled',
           dialog' = "checklist" => item_count' # 0 /\ max = Min({list_height, item_count'}),
           s_scroll' \in Nat, misled' \in BOOLEAN, FirstItemInv'
    PROVE  ListInv'
<1>1. max_choice' = max /\ scroll' = to /\ choice' = at
      /\ rows' = [row \in 0..max - 1 |-> first + row] /\ lit' = {at} \cap (0..max - 1)
  BY DEF PrintList
<1>2. ListIsShown'
  BY <1>1 DEF ListIsShown
<1>3. max_choice' \in 0..item_count' /\ (item_count' # 0 => max_choice' # 0) /\ DOMAIN rows' = 0..max_choice' - 1
  BY <1>1
<1> QED BY <1>1, <1>2, <1>3 DEF ListInv

\* The cursor moved, after every other row has been printed or kept.
LEMMA MoveInv ==
    ASSUME ListInv, InList, item_count # 0,
           NEW to \in 0..item_count - max_choice, NEW at \in 0..max_choice - 1, NEW screen,
           DOMAIN screen = 0..max_choice - 1,
           ~misled => \A row \in 0..max_choice - 1 : row # at => screen[row] = to + row,
           Move(to, at, screen), UNCHANGED <<dialog, mvars>>
    PROVE  ListInv'
<1>1. /\ scroll' = to /\ choice' = at /\ rows' = [screen EXCEPT ![at] = to + at]
      /\ lit' = (lit \ {choice}) \cup {at}
      /\ items' = items /\ max_choice' = max_choice /\ item_count' = item_count
  BY DEF Move, Printed, item_count
<1>2. selected' = selected /\ s_scroll' = s_scroll /\ first_item' = first_item /\ misled' = misled
      /\ dialog' = dialog /\ InList' = InList
  BY DEF mvars, InList
<1>3. item_count \in Nat /\ max_choice \in 0..item_count /\ s_scroll \in Nat /\ misled \in BOOLEAN /\ ListIsShown
  BY DEF ListInv
<1>4. DOMAIN rows' = 0..max_choice - 1
  BY <1>1
<1>5. ListIsShown'
  <2>1. ~misled => lit = {choice} \cap (0..max_choice - 1)
    BY <1>3 DEF ListIsShown
  <2>2. ~misled => lit' = {at}
    BY <1>1, <2>1
  <2>3. ~misled => \A row \in 0..max_choice - 1 : rows'[row] = to + row
    BY <1>1
  <2>4. {at} \cap (0..max_choice - 1) = {at}
    OBVIOUS
  <2> QED BY <1>1, <1>2, <2>2, <2>3, <2>4 DEF ListIsShown
<1>6. FirstItemInv'
  BY <1>1, <1>2 DEF FirstItemInv, ListInv
<1> QED BY <1>1, <1>2, <1>3, <1>4, <1>5, <1>6 DEF ListInv

\* Where the label do_resize leaves a menu's list.
LEMMA DrawInv ==
    ASSUME NEW menu, NEW select, NEW from \in Nat, NEW at, NEW first, NEW height \in Nat, height > 0,
           Draw(menu, select, from, at, first, height),
           items' = menu, Len(menu) \in Nat, selected' = select, s_scroll' = from, dialog' = "menu",
           misled' \in BOOLEAN,
           select # None => select \in 0..Len(menu) - 1,
           select = None => IF Len(menu) = 0 THEN at = 0 ELSE at \in 0..Len(menu) - 1,
           \/ first = 0 \/ misled' \/ (select = None /\ from = 0)
           \/ select # None /\ select >= max_choice'
           \/ select # None /\ from <= select /\ select < from + max_choice' /\ from + max_choice' <= Len(menu)
    PROVE  ListInv'
<1> DEFINE count == Len(menu)
           max == Min({height, count})
           wanted == IF select = None THEN at ELSE select
           kept == Kept(from, wanted, max, count)
           scrolled == ~kept /\ wanted >= max
           to == IF kept THEN from ELSE IF scrolled THEN Centred(wanted, max, count) ELSE 0
<1>1. /\ first_item' = IF kept \/ scrolled THEN to ELSE first
      /\ PrintList(first_item', to, wanted - to, max)
  BY Zenon DEF Draw
<1>2. count \in Nat /\ max \in 0..count /\ (count # 0 => max # 0) /\ item_count' = count
  BY MinOfTwo DEF item_count
<1>3. (count # 0 => wanted \in 0..count - 1) /\ (count = 0 => wanted = 0)
  OBVIOUS
<1>4. kept <=> from <= wanted /\ from + max > wanted /\ from >= 0 /\ from + max <= count
  BY Zenon DEF Kept
<1>5. scrolled => /\ to = IF wanted >= count - max \div 2 THEN count - max ELSE wanted - max \div 2
                  /\ wanted >= max /\ ~kept
  BY DEF Centred
<1>6. ~kept /\ ~scrolled => to = 0 /\ wanted < max
  BY <1>2, <1>3
<1>7. kept => to = from /\ ~scrolled
  OBVIOUS
<1>8. max_choice' = max
  BY <1>1 DEF PrintList
<1> HIDE DEF max, kept, scrolled, to
<1>9. count # 0 => wanted - to \in 0..max - 1 /\ to \in 0..count - max
  <2> SUFFICES ASSUME count # 0 PROVE wanted - to \in 0..max - 1 /\ to \in 0..count - max
    OBVIOUS
  <2>0. count \in Nat /\ max \in 1..count /\ wanted \in 0..count - 1
    BY <1>2, <1>3
  <2> HIDE DEF wanted, count
  <2>1. CASE kept
    BY <2>0, <2>1, <1>4, <1>7
  <2>2. CASE scrolled
    BY <2>0, <2>2, <1>5
  <2>3. CASE ~kept /\ ~scrolled
    BY <2>0, <2>3, <1>6
  <2> QED BY <2>1, <2>2, <2>3
<1>10. count = 0 => wanted - to = 0 /\ to = 0
  <2> SUFFICES ASSUME count = 0 PROVE wanted - to = 0 /\ to = 0
    OBVIOUS
  <2>0. max = 0 /\ wanted = 0
    BY <1>2, <1>3
  <2> HIDE DEF wanted, count
  <2>1. ~kept
    BY <2>0, <1>4
  <2>2. CASE scrolled
    BY <2>0, <2>2, <1>5
  <2>3. CASE ~scrolled
    BY <2>0, <2>1, <2>3, <1>6
  <2> QED BY <2>2, <2>3
<1>11. ~kept /\ ~scrolled => first = 0 \/ misled'
  <2> SUFFICES ASSUME ~kept, ~scrolled PROVE first = 0 \/ misled'
    OBVIOUS
  <2>1. wanted < max /\ max # 0 /\ count # 0
    BY <1>2, <1>6, <1>3
  <2>2. CASE select = None
    BY <2>1, <2>2, <1>2, <1>3, <1>4
  <2>3. CASE select # None
    BY <2>1, <2>3, <1>2, <1>3, <1>4, <1>8
  <2> QED BY <2>2, <2>3
<1>12. first_item' = to \/ misled'
  BY <1>1, <1>6, <1>11
<1>13. FirstItemInv'
  <2>1. ASSUME select # None, ~misled', first_item' # 0
        PROVE  select >= max \/ (from <= select /\ select < from + max /\ from + max <= count)
    <3>1. CASE kept
      BY <2>1, <3>1, <1>2, <1>4
    <3>2. CASE scrolled
      BY <2>1, <3>2, <1>5
    <3>3. CASE ~kept /\ ~scrolled
      BY <2>1, <3>3, <1>1, <1>11
    <3> QED BY <3>1, <3>2, <3>3
  <2> QED BY <2>1, <1>2, <1>8 DEF FirstItemInv
<1> HIDE DEF wanted, count
<1> QED BY <1>1, <1>2, <1>9, <1>10, <1>12, <1>13, PrintListInv

LEMMA OpenMenuInv ==
    ASSUME ListInv, NEW menu \in Menus, NEW height \in MenuHeights,
           NEW select \in (0..Len(menu) - 1) \cup {None}, OpenMenu(menu, select, height)
    PROVE  ListInv'
<1>1. Len(menu) \in Nat /\ height \in Nat /\ height > 0
  BY ListConstants
<1>2. s_scroll' \in Nat
  BY DEF OpenMenu, ListInv
<1>3. dialog' = "menu" /\ items' = menu /\ selected' = select /\ Draw(menu, select, s_scroll', 0, 0, height)
  BY DEF OpenMenu, Opened
<1>4. misled' \in BOOLEAN
  BY DEF OpenMenu
<1>5. select # None => select \in 0..Len(menu) - 1
  OBVIOUS
<1>6. select = None => IF Len(menu) = 0 THEN 0 = 0 ELSE 0 \in 0..Len(menu) - 1
  BY <1>1
<1> QED BY <1>1, <1>2, <1>3, <1>4, <1>5, <1>6, DrawInv

\* An item in the window, or past every window, is so for fewer rows.
LEMMA FewerRows ==
    \A at, from, max, less, count \in Int :
        /\ 0 <= from /\ 0 <= less /\ less <= max /\ at < less
        /\ at >= max \/ (from <= at /\ at < from + max /\ from + max <= count)
        => from <= at /\ at < from + less /\ from + less <= count
OBVIOUS

LEMMA KEY_RESIZEInv ==
    ASSUME ListInv, NEW height \in MenuHeights, KEY_RESIZE(height)
    PROVE  ListInv'
<1>1. item_count \in Nat /\ height \in Nat /\ height > 0 /\ max_choice \in 0..item_count /\ s_scroll \in Nat
  BY ListConstants DEF ListInv, KEY_RESIZE, InList
<1>2. misled \in BOOLEAN /\ dialog = "menu" /\ dialog' = "menu" /\ items' = items /\ selected' = selected /\ s_scroll' = s_scroll
      /\ Draw(items, selected, s_scroll, choice, first_item, height)
      /\ misled' = (misled \/ max_choice' > max_choice \/ (selected = None /\ s_scroll # 0))
  BY DEF KEY_RESIZE, Stay, ListInv
<1>3. max_choice' = Min({height, item_count})
  BY <1>2, Zenon DEF Draw, PrintList, item_count
<1>4. max_choice' \in 0..item_count
  BY <1>1, <1>3, MinOfTwo
<1>5. /\ selected # None => selected \in 0..item_count - 1
      /\ selected = None => IF item_count = 0 THEN choice = 0 ELSE choice \in 0..item_count - 1
  BY <1>1, <1>2 DEF ListInv, FirstItemInv, ListIsShown, InList
<1>6. \/ first_item = 0 \/ misled' \/ (selected = None /\ s_scroll = 0)
      \/ selected # None /\ selected >= max_choice'
      \/ /\ selected # None /\ s_scroll <= selected /\ selected < s_scroll + max_choice'
         /\ s_scroll + max_choice' <= item_count
  <2>1. ASSUME first_item # 0, ~misled', selected # None
        PROVE  \/ selected >= max_choice'
               \/ s_scroll <= selected /\ selected < s_scroll + max_choice' /\ s_scroll + max_choice' <= item_count
    <3>1. ~misled /\ ~(max_choice' > max_choice)
      BY <1>2, <2>1, Zenon
    <3>2. max_choice \in Int /\ max_choice' \in Int /\ 0 <= max_choice' /\ max_choice' <= max_choice
      BY <1>1, <1>4, <3>1
    <3>3. \/ selected >= max_choice
          \/ s_scroll <= selected /\ selected < s_scroll + max_choice /\ s_scroll + max_choice <= item_count
      BY <1>2, <2>1, <3>1 DEF ListInv, FirstItemInv
    <3>4. selected \in Int /\ s_scroll \in Int /\ 0 <= s_scroll /\ item_count \in Int
      BY <1>1, <1>5, <2>1
    <3>5. CASE selected >= max_choice'
      BY <3>5
    <3>6. CASE ~(selected >= max_choice')
      <4>1. selected < max_choice'
        BY <3>2, <3>4, <3>6
      <4> QED BY <3>2, <3>3, <3>4, <4>1, FewerRows, Zenon
    <3> QED BY <3>5, <3>6
  <2>2. ASSUME ~misled', selected = None PROVE s_scroll = 0
    BY <1>2, <2>2, Zenon
  <2> QED BY <2>1, <2>2
<1>7. misled' \in BOOLEAN
  BY <1>2
<1> QED BY <1>1, <1>2, <1>5, <1>6, <1>7, DrawInv DEF item_count

\* What every key that moves in a menu finds, once the current item is dimmed.
LEMMA MenuKeyInv ==
    ASSUME ListInv, NEW k, MenuKey(k)
    PROVE  /\ InList /\ item_count # 0 /\ item_count \in Nat /\ max_choice \in 1..item_count
           /\ DOMAIN rows = 0..max_choice - 1 /\ DOMAIN Dimmed = 0..max_choice - 1
           /\ choice \in 0..max_choice - 1 /\ scroll \in 0..item_count - max_choice
           /\ ~misled => \A row \in 0..max_choice - 1 : Dimmed[row] = scroll + row
           /\ UNCHANGED <<dialog, mvars>>
<1>1. /\ InList /\ item_count # 0 /\ item_count \in Nat /\ max_choice \in 1..item_count
      /\ DOMAIN rows = 0..max_choice - 1
      /\ choice \in 0..max_choice - 1 /\ scroll \in 0..item_count - max_choice
      /\ ~misled => \A row \in 0..max_choice - 1 : rows[row] = scroll + row
      /\ UNCHANGED <<dialog, mvars>>
  BY DEF MenuKey, ListInv, ListIsShown, InList, Stay
<1>2. Dimmed = [rows EXCEPT ![choice] = scroll + choice]
  BY DEF Dimmed, Printed, Current
<1> QED BY <1>1, <1>2

LEMMA KEY_UPInv == ASSUME ListInv, KEY_UP PROVE ListInv'
<1>1. /\ InList /\ item_count # 0 /\ item_count \in Nat /\ max_choice \in 1..item_count
      /\ DOMAIN Dimmed = 0..max_choice - 1
      /\ choice \in 0..max_choice - 1 /\ scroll \in 0..item_count - max_choice
      /\ ~misled => \A row \in 0..max_choice - 1 : Dimmed[row] = scroll + row
      /\ UNCHANGED <<dialog, mvars>>
  BY MenuKeyInv DEF KEY_UP
<1>2. CASE choice < 2 /\ scroll > 0
  <2> DEFINE screen == Printed(Scrolled(Dimmed, -1), scroll - 1, 0)
  <2>1. Move(scroll - 1, choice, screen)
    BY <1>2 DEF KEY_UP
  <2>2. DOMAIN screen = 0..max_choice - 1
    BY <1>1 DEF Printed, Scrolled
  <2>3. ~misled => \A row \in 0..max_choice - 1 : screen[row] = scroll - 1 + row
    <3> SUFFICES ASSUME ~misled, NEW row \in 0..max_choice - 1 PROVE screen[row] = scroll - 1 + row
      OBVIOUS
    <3>1. CASE row = 0
      BY <1>1, <3>1 DEF Printed, Scrolled
    <3>2. CASE row # 0
      <4>1. row - 1 \in 0..max_choice - 1 /\ row + (-1) = row - 1
        BY <1>1, <3>2
      <4>2. screen[row] = Dimmed[row - 1]
        BY <1>1, <3>2, <4>1 DEF Printed, Scrolled
      <4> QED BY <1>1, <4>1, <4>2
    <3> QED BY <3>1, <3>2
  <2>4. scroll - 1 \in 0..item_count - max_choice
    BY <1>1, <1>2
  <2> QED BY <1>1, <2>1, <2>2, <2>3, <2>4, MoveInv
<1>3. CASE ~(choice < 2 /\ scroll > 0)
  <2>1. Move(scroll, IF choice = 0 THEN 0 ELSE choice - 1, Dimmed)
    BY <1>3 DEF KEY_UP
  <2>2. (IF choice = 0 THEN 0 ELSE choice - 1) \in 0..max_choice - 1
    BY <1>1
  <2> QED BY <1>1, <2>1, <2>2, MoveInv
<1> QED BY <1>2, <1>3

LEMMA KEY_DOWNInv == ASSUME ListInv, KEY_DOWN PROVE ListInv'
<1>1. /\ InList /\ item_count # 0 /\ item_count \in Nat /\ max_choice \in 1..item_count
      /\ DOMAIN rows = 0..max_choice - 1 /\ DOMAIN Dimmed = 0..max_choice - 1
      /\ choice \in 0..max_choice - 1 /\ scroll \in 0..item_count - max_choice
      /\ ~misled => \A row \in 0..max_choice - 1 : Dimmed[row] = scroll + row
      /\ UNCHANGED <<dialog, mvars>>
  BY MenuKeyInv DEF KEY_DOWN
<1>2. CASE choice > max_choice - 3 /\ scroll + max_choice < item_count
  <2> DEFINE screen == Printed(Scrolled(Dimmed, 1), scroll + max_choice, max_choice - 1)
  <2>1. Move(scroll + 1, choice, screen)
    BY <1>2 DEF KEY_DOWN
  <2>2. DOMAIN screen = 0..max_choice - 1
    BY <1>1 DEF Printed, Scrolled
  <2>3. ~misled => \A row \in 0..max_choice - 1 : screen[row] = scroll + 1 + row
    <3> SUFFICES ASSUME ~misled, NEW row \in 0..max_choice - 1 PROVE screen[row] = scroll + 1 + row
      OBVIOUS
    <3>1. CASE row = max_choice - 1
      BY <1>1, <3>1 DEF Printed, Scrolled
    <3>2. CASE row # max_choice - 1
      <4>1. row + 1 \in 0..max_choice - 1
        BY <1>1, <3>2
      <4>2. screen[row] = Dimmed[row + 1]
        BY <1>1, <3>2, <4>1 DEF Printed, Scrolled
      <4> QED BY <1>1, <4>1, <4>2
    <3> QED BY <3>1, <3>2
  <2>4. scroll + 1 \in 0..item_count - max_choice
    BY <1>1, <1>2
  <2> QED BY <1>1, <2>1, <2>2, <2>3, <2>4, MoveInv
<1>3. CASE ~(choice > max_choice - 3 /\ scroll + max_choice < item_count)
  <2>1. Move(scroll, Min({choice + 1, max_choice - 1}), Dimmed)
    BY <1>3 DEF KEY_DOWN
  <2>2. Min({choice + 1, max_choice - 1}) \in 0..max_choice - 1
    BY <1>1, MinOfTwo
  <2> QED BY <1>1, <2>1, <2>2, MoveInv
<1> QED BY <1>2, <1>3

LEMMA TurnInv == ASSUME ListInv, NEW k, MenuKey(k), NEW by \in {-1, 1}, Turn(by) PROVE ListInv'
<1>1. /\ InList /\ item_count # 0 /\ item_count \in Nat /\ max_choice \in 1..item_count
      /\ DOMAIN rows = 0..max_choice - 1 /\ DOMAIN Dimmed = 0..max_choice - 1
      /\ choice \in 0..max_choice - 1 /\ scroll \in 0..item_count - max_choice
      /\ ~misled => \A row \in 0..max_choice - 1 : Dimmed[row] = scroll + row
      /\ UNCHANGED <<dialog, mvars>>
  BY MenuKeyInv
<1> DEFINE n == Min({max_choice, IF by < 0 THEN scroll ELSE item_count - max_choice - scroll})
           at == IF by < 0 THEN choice - (max_choice - n) ELSE choice + (max_choice - n)
           to == scroll + by * n
           row_at == IF at < 0 THEN 0 ELSE Min({at, max_choice - 1})
           screen == [row \in DOMAIN rows |-> IF row + by * n \in DOMAIN rows THEN Dimmed[row + by * n]
                                              ELSE scroll + by * n + row]
<1>2. Move(to, row_at, screen)
  BY Zenon DEF Turn
<1>3. n \in Nat /\ n <= max_choice /\ (by < 0 => n <= scroll) /\ (~(by < 0) => n <= item_count - max_choice - scroll)
  BY <1>1, MinOfTwo
<1> HIDE DEF n
<1>4. by * n = IF by < 0 THEN -n ELSE n
  BY <1>3
<1>5. to \in 0..item_count - max_choice
  BY <1>1, <1>3, <1>4
<1>6. row_at \in 0..max_choice - 1
  <2>1. at \in Int
    BY <1>1, <1>3
  <2> HIDE DEF at
  <2> QED BY <1>1, <2>1, MinOfTwo
<1>7. DOMAIN screen = 0..max_choice - 1
  BY <1>1
<1>8. ~misled => \A row \in 0..max_choice - 1 : screen[row] = to + row
  <2>1. ASSUME \A row \in 0..max_choice - 1 : Dimmed[row] = scroll + row, NEW row \in 0..max_choice - 1
        PROVE  screen[row] = to + row
    <3>1. by * n \in Int
      BY <1>3, <1>4
    <3> DEFINE d == by * n
    <3> HIDE DEF d
    <3>2. d \in Int /\ to = scroll + d
      BY <3>1 DEF d
    <3>3. screen[row] = IF row + d \in 0..max_choice - 1 THEN Dimmed[row + d] ELSE scroll + d + row
      BY <1>1 DEF d
    <3> HIDE DEF to, screen
    <3> QED BY <1>1, <2>1, <3>2, <3>3
  <2> QED BY <1>1, <2>1
<1> HIDE DEF to, row_at, screen
<1> QED BY <1>1, <1>2, <1>5, <1>6, <1>7, <1>8, MoveInv

LEMMA HotkeyInv == ASSUME ListInv, NEW l, Hotkey(l) PROVE ListInv'
<1>1. /\ InList /\ item_count # 0 /\ item_count \in Nat /\ max_choice \in 1..item_count
      /\ DOMAIN rows = 0..max_choice - 1 /\ DOMAIN Dimmed = 0..max_choice - 1
      /\ choice \in 0..max_choice - 1 /\ scroll \in 0..item_count - max_choice
      /\ ~misled => \A row \in 0..max_choice - 1 : Dimmed[row] = scroll + row
      /\ UNCHANGED <<dialog, mvars>>
  BY MenuKeyInv DEF Hotkey
<1> DEFINE below == {row \in RowsOf(l) : row > choice}
           at == IF below # {} THEN Min(below) ELSE Min(RowsOf(l))
<1>2. RowsOf(l) \in SUBSET (0..max_choice - 1) /\ RowsOf(l) # {}
  BY DEF RowsOf, Hotkey
<1>3. RowsOf(l) \in SUBSET Nat /\ below \in SUBSET Nat /\ below \subseteq RowsOf(l)
  BY <1>1, <1>2
<1>4. at \in 0..max_choice - 1
  <2>1. below # {} => Min(below) \in below
    BY <1>3, MinOfMany
  <2>2. Min(RowsOf(l)) \in RowsOf(l)
    BY <1>2, <1>3, MinOfMany
  <2> QED BY <1>2, <1>3, <2>1, <2>2
<1>5. Move(scroll, at, Dimmed)
  BY Zenon DEF Hotkey
<1> HIDE DEF at
<1> QED BY <1>1, <1>4, <1>5, MoveInv

LEMMA ListLeftAlone == ASSUME ListInv, UNCHANGED <<dialog, list, mvars>> PROVE ListInv'
<1>1. /\ dialog' = dialog /\ items' = items /\ max_choice' = max_choice /\ scroll' = scroll /\ choice' = choice
      /\ rows' = rows /\ lit' = lit /\ selected' = selected /\ s_scroll' = s_scroll
      /\ first_item' = first_item /\ misled' = misled
  BY DEF list, mvars
<1>2. InList' = InList /\ item_count' = item_count /\ ListIsShown' = ListIsShown
  BY <1>1 DEF InList, item_count, ListIsShown
<1>3. FirstItemInv' = FirstItemInv
  BY <1>1, <1>2 DEF FirstItemInv
<1> QED BY <1>1, <1>2, <1>3 DEF ListInv

LEMMA NoList ==
    ASSUME dialog' \notin {"menu", "checklist"}, s_scroll' \in Nat, misled' \in BOOLEAN
    PROVE  ListInv'
BY DEF ListInv, ListIsShown, FirstItemInv, InList

LEMMA MenuNextInv == ASSUME ListInv, MenuNext PROVE ListInv'
<1>1. ASSUME NEW menu \in Menus, NEW height \in MenuHeights, NEW select \in (0..Len(menu) - 1) \cup {None},
             OpenMenu(menu, select, height)
      PROVE  ListInv'
  BY <1>1, OpenMenuInv
<1>2. ASSUME NEW height \in MenuHeights, KEY_RESIZE(height) PROVE ListInv'
  BY <1>2, KEY_RESIZEInv
<1>7. ASSUME NEW height, KEY_RESIZEDies(height) PROVE ListInv'
  BY <1>7, NoList, Constants DEF KEY_RESIZEDies, MenuDone, Return
<1>3. CASE KEY_PPAGE \/ KEY_NPAGE
  BY <1>3, TurnInv DEF KEY_PPAGE, KEY_NPAGE
<1>4. ASSUME NEW l, Hotkey(l) PROVE ListInv'
  BY <1>4, HotkeyInv
<1>5. ASSUME NEW way, MenuButton(way) PROVE ListInv'
  BY <1>5, ListLeftAlone DEF MenuButton, Stay
<1>6. ASSUME NEW k, SelectItem(k) \/ LeaveMenu(k) PROVE ListInv'
  <2>1. dialog = "menu" /\ dialog' = None /\ misled' = FALSE /\ s_scroll' \in {s_scroll, scroll}
    BY <1>6 DEF SelectItem, LeaveMenu, MenuDone, Return
  <2>2. s_scroll \in Nat /\ scroll \in Nat
    BY <2>1 DEF ListInv, ListIsShown, InList
  <2> QED BY <2>1, <2>2, NoList, Constants
<1> QED BY <1>1, <1>2, <1>3, <1>4, <1>5, <1>6, <1>7, KEY_UPInv, KEY_DOWNInv DEF MenuNext

\* Where the label do_resize leaves a radio list.
LEMMA DrawListInv ==
    ASSUME NEW menu, NEW from \in Nat, NEW at \in 0..Len(menu) - 1, Len(menu) \in Nat,
           DrawList(menu, from, at), items' = menu, dialog' = "checklist",
           at < list_height => from + Min({list_height, Len(menu)}) <= Len(menu),
           s_scroll' \in Nat, misled' \in BOOLEAN
    PROVE  ListInv'
<1> DEFINE max == Min({list_height, Len(menu)})
           to == IF at >= list_height THEN at - list_height + 1 ELSE from
           row == IF at >= list_height THEN at - to ELSE at
<1>1. PrintList(to, to, row, max)
  BY Zenon DEF DrawList
<1>2. item_count' = Len(menu) /\ item_count' # 0 /\ max \in 1..item_count' /\ max <= list_height
      /\ (max = list_height \/ max = Len(menu))
  BY ListConstants, MinOfTwo DEF item_count
<1> HIDE DEF max
<1>3. row \in 0..max - 1 /\ to \in 0..item_count' - max
  <2>1. CASE at >= list_height
    BY <1>2, <2>1, ListConstants
  <2>2. CASE at < list_height
    BY <1>2, <2>2, ListConstants DEF max
  <2> QED BY <2>1, <2>2, ListConstants
<1>4. FirstItemInv'
  BY DEF FirstItemInv
<1>5. max = Min({list_height, item_count'})
  BY <1>2 DEF max
<1> HIDE DEF to, row
<1>6. item_count' \in Nat /\ max \in 0..item_count' /\ max # 0
  BY <1>2
<1> QED BY <1>1, <1>2, <1>3, <1>4, <1>5, <1>6, PrintListInv

\* What every key in a radio list finds.
LEMMA ListKeyInv ==
    ASSUME ListInv, dialog = "checklist"
    PROVE  /\ InList /\ item_count # 0 /\ item_count \in Nat /\ max_choice \in 1..item_count
           /\ max_choice = Min({list_height, item_count}) /\ DOMAIN rows = 0..max_choice - 1
           /\ choice \in 0..max_choice - 1 /\ scroll \in 0..item_count - max_choice
           /\ ~misled => \A row \in 0..max_choice - 1 : rows[row] = scroll + row
<1>1. InList
  BY DEF InList
<1>2. /\ item_count # 0 /\ item_count \in Nat /\ max_choice \in 0..item_count /\ max_choice # 0
      /\ max_choice = Min({list_height, item_count}) /\ DOMAIN rows = 0..max_choice - 1
  BY <1>1 DEF ListInv
<1>3. /\ choice \in 0..max_choice - 1 /\ scroll \in 0..item_count - max_choice
      /\ ~misled => \A row \in 0..max_choice - 1 : rows[row] = scroll + row
  BY <1>1, <1>2 DEF ListInv, ListIsShown
<1>4. max_choice \in 1..item_count
  BY <1>2
<1> QED BY <1>1, <1>2, <1>3, <1>4

LEMMA OpenChecklistInv ==
    ASSUME ListInv, NEW menu \in RadioLists, NEW x \in (0..Len(menu) - 1) \cup {None},
           NEW select \in (0..Len(menu) - 1) \cup {None}, OpenChecklist(menu, x, select), UNCHANGED mvars
    PROVE  ListInv'
<1>1. Len(menu) \in Nat /\ Len(menu) > 0
  BY ListConstants
<1>2. Highlighted(x, select) \in 0..Len(menu) - 1
  BY <1>1 DEF Highlighted
<1>3. 0 + Min({list_height, Len(menu)}) <= Len(menu)
  BY <1>1, ListConstants, MinOfTwo
<1>4. dialog' = "checklist" /\ items' = menu /\ DrawList(menu, 0, Highlighted(x, select))
  BY DEF OpenChecklist, Opened
<1>5. s_scroll' \in Nat /\ misled' \in BOOLEAN
  BY DEF ListInv, mvars
<1> QED BY <1>1, <1>2, <1>3, <1>4, <1>5, DrawListInv

LEMMA ListResizeInv == ASSUME ListInv, ListResize, UNCHANGED mvars PROVE ListInv'
<1>1. dialog = "checklist" /\ dialog' = "checklist" /\ items' = items /\ DrawList(items, scroll, choice)
  BY DEF ListResize, Stay
<1>2. /\ item_count \in Nat /\ scroll \in Nat /\ choice \in 0..item_count - 1
      /\ scroll + Min({list_height, item_count}) <= item_count
  <2>1. /\ item_count \in Nat /\ max_choice \in 1..item_count /\ max_choice = Min({list_height, item_count})
        /\ choice \in 0..max_choice - 1 /\ scroll \in 0..item_count - max_choice
    BY <1>1, ListKeyInv
  <2> QED BY <2>1
<1>3. s_scroll' \in Nat /\ misled' \in BOOLEAN
  BY DEF ListInv, mvars
<1> QED BY <1>1, <1>2, <1>3, DrawListInv DEF item_count

LEMMA ListUpInv == ASSUME ListInv, ListUp, UNCHANGED mvars PROVE ListInv'
<1>1. /\ InList /\ item_count # 0 /\ item_count \in Nat /\ max_choice \in 1..item_count
      /\ DOMAIN rows = 0..max_choice - 1
      /\ choice \in 0..max_choice - 1 /\ scroll \in 0..item_count - max_choice
      /\ ~misled => \A row \in 0..max_choice - 1 : rows[row] = scroll + row
  BY ListKeyInv DEF ListUp, ListKey
<1>2. UNCHANGED <<dialog, mvars>>
  BY DEF ListUp, ListKey, Stay
<1>3. CASE choice > 0
  <2>1. choice - 1 \in 0..max_choice - 1 /\ Move(scroll, choice - 1, rows)
    BY <1>1, <1>3 DEF ListUp
  <2> QED BY <1>1, <1>2, <2>1, MoveInv
<1>4. CASE ~(choice > 0) /\ scroll > 0
  <2> DEFINE screen == Scrolled(rows, -1)
  <2>1. Move(scroll - 1, 0, screen)
    BY <1>4 DEF ListUp
  <2>2. DOMAIN screen = 0..max_choice - 1
    BY <1>1 DEF Scrolled
  <2>3. ~misled => \A row \in 0..max_choice - 1 : row # 0 => screen[row] = scroll - 1 + row
    <3> SUFFICES ASSUME ~misled, NEW row \in 0..max_choice - 1, row # 0 PROVE screen[row] = scroll - 1 + row
      OBVIOUS
    <3>1. row - 1 \in 0..max_choice - 1 /\ row + (-1) = row - 1
      BY <1>1
    <3>2. screen[row] = rows[row - 1]
      BY <1>1, <3>1 DEF Scrolled
    <3> QED BY <1>1, <3>1, <3>2
  <2>4. scroll - 1 \in 0..item_count - max_choice /\ 0 \in 0..max_choice - 1
    BY <1>1, <1>4
  <2> QED BY <1>1, <1>2, <2>1, <2>2, <2>3, <2>4, MoveInv
<1>5. CASE ~(choice > 0) /\ ~(scroll > 0)
  <2>1. 0 \in 0..max_choice - 1 /\ Move(scroll, 0, rows)
    BY <1>1, <1>5 DEF ListUp
  <2> QED BY <1>1, <1>2, <2>1, MoveInv
<1> QED BY <1>3, <1>4, <1>5

LEMMA ListDownInv == ASSUME ListInv, ListDown, UNCHANGED mvars PROVE ListInv'
<1>1. /\ InList /\ item_count # 0 /\ item_count \in Nat /\ max_choice \in 1..item_count
      /\ DOMAIN rows = 0..max_choice - 1
      /\ choice \in 0..max_choice - 1 /\ scroll \in 0..item_count - max_choice
      /\ ~misled => \A row \in 0..max_choice - 1 : rows[row] = scroll + row
  BY ListKeyInv DEF ListDown, ListKey
<1>2. UNCHANGED <<dialog, mvars>>
  BY DEF ListDown, ListKey, Stay
<1>3. CASE choice < max_choice - 1
  <2>1. choice + 1 \in 0..max_choice - 1 /\ Move(scroll, choice + 1, rows)
    BY <1>1, <1>3 DEF ListDown
  <2> QED BY <1>1, <1>2, <2>1, MoveInv
<1>4. CASE ~(choice < max_choice - 1) /\ scroll + choice < item_count - 1
  <2> DEFINE screen == Scrolled(rows, 1)
  <2>1. Move(scroll + 1, choice, screen)
    BY <1>4 DEF ListDown
  <2>2. DOMAIN screen = 0..max_choice - 1
    BY <1>1 DEF Scrolled
  <2>3. ~misled => \A row \in 0..max_choice - 1 : row # choice => screen[row] = scroll + 1 + row
    <3> SUFFICES ASSUME ~misled, NEW row \in 0..max_choice - 1, row # choice PROVE screen[row] = scroll + 1 + row
      OBVIOUS
    <3>1. row + 1 \in 0..max_choice - 1
      BY <1>1, <1>4
    <3>2. screen[row] = rows[row + 1]
      BY <1>1, <3>1 DEF Scrolled
    <3> QED BY <1>1, <3>1, <3>2
  <2>4. scroll + 1 \in 0..item_count - max_choice
    BY <1>1, <1>4
  <2> QED BY <1>1, <1>2, <2>1, <2>2, <2>3, <2>4, MoveInv
<1>5. CASE ~(choice < max_choice - 1) /\ ~(scroll + choice < item_count - 1)
  <2>1. Move(scroll, choice, rows)
    BY <1>5 DEF ListDown
  <2> QED BY <1>1, <1>2, <2>1, MoveInv
<1> QED BY <1>3, <1>4, <1>5

LEMMA ListHotkeyInv == ASSUME ListInv, NEW l, ListHotkey(l), UNCHANGED mvars PROVE ListInv'
<1>1. /\ InList /\ item_count # 0 /\ item_count \in Nat /\ max_choice \in 1..item_count
      /\ DOMAIN rows = 0..max_choice - 1
      /\ choice \in 0..max_choice - 1 /\ scroll \in 0..item_count - max_choice
      /\ ~misled => \A row \in 0..max_choice - 1 : rows[row] = scroll + row
  BY ListKeyInv DEF ListHotkey, ListKey
<1>2. UNCHANGED <<dialog, mvars>>
  BY DEF ListHotkey, ListKey, Stay
<1>3. Lettered(l) \in SUBSET (0..max_choice - 1) /\ Lettered(l) \in SUBSET Nat /\ Lettered(l) # {}
  BY <1>1 DEF Lettered, ListHotkey
<1>4. Min(Lettered(l)) \in 0..max_choice - 1
  BY <1>3, MinOfMany
<1>5. Move(scroll, Min(Lettered(l)), rows)
  BY DEF ListHotkey
<1> QED BY <1>1, <1>2, <1>4, <1>5, MoveInv

LEMMA ListNextInv == ASSUME ListInv, ListNext, UNCHANGED mvars PROVE ListInv'
<1>1. ASSUME NEW menu \in RadioLists, NEW x \in (0..Len(menu) - 1) \cup {None},
             NEW select \in (0..Len(menu) - 1) \cup {None}, OpenChecklist(menu, x, select)
      PROVE  ListInv'
  BY <1>1, OpenChecklistInv
<1>2. ASSUME NEW l, ListHotkey(l) PROVE ListInv'
  BY <1>2, ListHotkeyInv
<1>3. ASSUME NEW way, ListButton(way) PROVE ListInv'
  BY <1>3, ListLeftAlone DEF ListButton, ListKey, Stay
<1>4. ASSUME NEW k, SelectInList(k) \/ LeaveList(k) PROVE ListInv'
  <2>1. dialog' = None
    BY <1>4 DEF SelectInList, LeaveList, Return
  <2>2. s_scroll' \in Nat /\ misled' \in BOOLEAN
    BY DEF ListInv, mvars
  <2> QED BY <2>1, <2>2, NoList, Constants
<1> QED BY <1>1, <1>2, <1>3, <1>4, ListResizeInv, ListUpInv, ListDownInv, ListHotkeyInv DEF ListNext

LEMMA NoListHere == ASSUME YesnoNext \/ InputNext \/ TextNext PROVE dialog' \notin {"menu", "checklist"}
<1>1. None \notin {"menu", "checklist"}
  BY Constants
<1>2. CASE YesnoNext
  BY <1>1, <1>2 DEF YesnoNext, OpenYesno, YesnoButton, AnswerYesno, Opened, Return, Stay
<1>3. CASE InputNext
  BY <1>1, <1>3 DEF InputNext, OpenInput, InputResize, Backspace, InputLeft, InputRight, Type, InField, InputButton,
       AnswerInput, Opened, Return, Stay
<1>4. CASE TextNext
  BY <1>1, <1>4 DEF TextNext, OpenText, SearchAgain, TextResize, TextHome, TextEnd, TextUp, TextDown, TextPageUp,
       TextPageDown, TextLeft, TextRight, TextKey, LeaveText, Opened, Return, Stay
<1> QED BY <1>2, <1>3, <1>4

LEMMA ListInvHolds == Spec => []ListInv
<1>1. Init => ListInv
  <2>1. Init => dialog \notin {"menu", "checklist"} /\ s_scroll \in Nat
    BY Constants DEF Init, DialogInit, MenuInit
  <2>2. Init => misled \in BOOLEAN
    BY DEF Init, MenuInit
  <2> QED BY <2>1, <2>2 DEF ListInv, ListIsShown, FirstItemInv, InList
<1>2. ListInv /\ [Next]_vars => ListInv'
  <2> SUFFICES ASSUME ListInv, [Next]_vars PROVE ListInv'
    OBVIOUS
  <2>1. CASE MenuNext
    BY <2>1, MenuNextInv
  <2>2. CASE ListNext /\ UNCHANGED mvars
    BY <2>2, ListNextInv
  <2>3. CASE (YesnoNext \/ InputNext \/ TextNext) /\ UNCHANGED mvars
    <3>1. s_scroll' \in Nat /\ misled' \in BOOLEAN
      BY <2>3 DEF ListInv, mvars
    <3> QED BY <2>3, <3>1, NoListHere, NoList
  <2>4. CASE UNCHANGED vars
    BY <2>4, ListLeftAlone DEF vars, dvars
  <2> QED BY <2>1, <2>2, <2>3, <2>4 DEF Next
<1> QED BY <1>1, <1>2, PTL DEF Spec

\* The cursor is in the list, and in a box that is not misled the screen shows the list
\* around it, whatever menus and radio lists there are, however long, whatever scroll
\* position a menu is opened with, whether an item is selected or not, and however many
\* rows the terminals have.
THEOREM TheListIsShown == Spec => []ListIsShown
<1>1. ListInv => ListIsShown
  BY DEF ListInv
<1> QED BY <1>1, ListInvHolds, PTL

(***************************************************************************)
(* The keys that move in a list and select from it.                        *)
(***************************************************************************)
\* A key that moves is no letter of an item.
LEMMA NoLetter == MovingKeys \cap (Letters \cup ListLetters) = {}
<1>1. ASSUME NEW menu \in Menus \cup RadioLists, NEW i \in DOMAIN menu PROVE menu[i] \notin MovingKeys
  <2>1. menu \in Seq(Range(menu) \ MovingKeys)
    BY MenuAssumption, ListAssumption DEF MenuAssumption, ListAssumption
  <2> QED BY <2>1
<1> QED BY <1>1 DEF Letters, ListLetters

\* The item under the cursor after a move.
LEMMA MoveCurrent ==
    ASSUME NEW to, NEW at, NEW screen, Move(to, at, screen)
    PROVE  Current' = to + at
BY DEF Move, Current

\* What KeysMoveInList says of a step.
Moved ==
    InList /\ dialog' = dialog =>
      /\ key' = "up" => Current' = Max({Current - 1, 0})
      /\ key' = "down" => Current' = Min({Current + 1, item_count - 1})
      /\ key' = "page up" => Current' = Max({Current - max_choice, 0})
      /\ key' = "page down" => Current' = Min({Current + max_choice, item_count - 1})
      /\ key' \in Letters \cup ListLetters /\ Current' # Current => item_str(Current') = key'

Selected ==
    InList /\ dialog' = None /\ result' \notin {KEY_ESC, SIGSEGV} /\ ~misled /\ items # <<>>
      => marked' = {rows[row] : row \in lit}

LEMMA KEY_UPMoves == ASSUME ListInv, KEY_UP PROVE Moved
<1>1. /\ item_count # 0 /\ item_count \in Nat /\ max_choice \in 1..item_count
      /\ choice \in 0..max_choice - 1 /\ scroll \in 0..item_count - max_choice
  BY MenuKeyInv DEF KEY_UP
<1>2. key' = "up" /\ key' \notin Letters \cup ListLetters
  BY NoLetter DEF KEY_UP, MenuKey, Stay, MovingKeys
<1>3. Current' = IF choice < 2 /\ scroll > 0 THEN scroll - 1 + choice
                 ELSE scroll + IF choice = 0 THEN 0 ELSE choice - 1
  BY MoveCurrent DEF KEY_UP
<1>4. Max({Current - 1, 0}) = IF Current - 1 >= 0 THEN Current - 1 ELSE 0
  BY <1>1, MaxOfTwo DEF Current
<1>5. Current' = Max({Current - 1, 0})
  BY <1>1, <1>3, <1>4 DEF Current
<1> QED BY <1>2, <1>5 DEF Moved

LEMMA KEY_DOWNMoves == ASSUME ListInv, KEY_DOWN PROVE Moved
<1>1. /\ item_count # 0 /\ item_count \in Nat /\ max_choice \in 1..item_count
      /\ choice \in 0..max_choice - 1 /\ scroll \in 0..item_count - max_choice
  BY MenuKeyInv DEF KEY_DOWN
<1>2. key' = "down" /\ key' \notin Letters \cup ListLetters
  BY NoLetter DEF KEY_DOWN, MenuKey, Stay, MovingKeys
<1>3. Current' = IF choice > max_choice - 3 /\ scroll + max_choice < item_count THEN scroll + 1 + choice
                 ELSE scroll + Min({choice + 1, max_choice - 1})
  BY MoveCurrent DEF KEY_DOWN
<1>4. /\ Min({Current + 1, item_count - 1}) = IF Current + 1 <= item_count - 1 THEN Current + 1 ELSE item_count - 1
      /\ Min({choice + 1, max_choice - 1}) = IF choice + 1 <= max_choice - 1 THEN choice + 1 ELSE max_choice - 1
  BY <1>1, MinOfTwo DEF Current
<1>5. Current' = Min({Current + 1, item_count - 1})
  BY <1>1, <1>3, <1>4 DEF Current
<1> QED BY <1>2, <1>5 DEF Moved

LEMMA PageMoves == ASSUME ListInv, KEY_PPAGE \/ KEY_NPAGE PROVE Moved
<1> DEFINE by == IF KEY_PPAGE THEN -1 ELSE 1
           n == Min({max_choice, IF by < 0 THEN scroll ELSE item_count - max_choice - scroll})
           at == IF by < 0 THEN choice - (max_choice - n) ELSE choice + (max_choice - n)
           row_at == IF at < 0 THEN 0 ELSE Min({at, max_choice - 1})
<1>1. /\ item_count # 0 /\ item_count \in Nat /\ max_choice \in 1..item_count
      /\ choice \in 0..max_choice - 1 /\ scroll \in 0..item_count - max_choice
  BY MenuKeyInv DEF KEY_PPAGE, KEY_NPAGE
<1>2. key' \notin Letters \cup ListLetters /\ key' = IF KEY_PPAGE THEN "page up" ELSE "page down"
  BY NoLetter DEF KEY_PPAGE, KEY_NPAGE, MenuKey, Stay, MovingKeys
<1>3. by \in {-1, 1} /\ (by < 0 <=> KEY_PPAGE)
  OBVIOUS
<1>4. Turn(by)
  BY DEF KEY_PPAGE, KEY_NPAGE
<1> HIDE DEF by
<1>5. Current' = scroll + by * n + row_at
  <2>1. \E screen : Move(scroll + by * n, row_at, screen)
    BY <1>4, Zenon DEF Turn
  <2> QED BY <2>1, MoveCurrent
<1>6. /\ n = IF by < 0 THEN IF max_choice <= scroll THEN max_choice ELSE scroll
             ELSE IF max_choice <= item_count - max_choice - scroll THEN max_choice ELSE item_count - max_choice - scroll
      /\ n \in Nat
  BY <1>1, MinOfTwo
<1> HIDE DEF n
<1>7. by * n = IF by < 0 THEN -n ELSE n
  BY <1>3, <1>6
<1>8. at \in Int
  BY <1>1, <1>6
<1>9. row_at = IF at < 0 THEN 0 ELSE IF at <= max_choice - 1 THEN at ELSE max_choice - 1
  <2> HIDE DEF at
  <2> QED BY <1>1, <1>8, MinOfTwo
<1>10. /\ Max({Current - max_choice, 0}) = IF Current - max_choice >= 0 THEN Current - max_choice ELSE 0
       /\ Min({Current + max_choice, item_count - 1})
            = IF Current + max_choice <= item_count - 1 THEN Current + max_choice ELSE item_count - 1
  BY <1>1, MaxOfTwo, MinOfTwo DEF Current
<1> HIDE DEF row_at
<1>11. CASE by < 0
  <2>1. Current' = Max({Current - max_choice, 0})
    BY <1>1, <1>5, <1>6, <1>7, <1>9, <1>10, <1>11 DEF Current
  <2> QED BY <1>2, <1>3, <1>11, <2>1 DEF Moved
<1>12. CASE ~(by < 0)
  <2>1. Current' = Min({Current + max_choice, item_count - 1})
    BY <1>1, <1>5, <1>6, <1>7, <1>9, <1>10, <1>12 DEF Current
  <2> QED BY <1>2, <1>3, <1>12, <2>1 DEF Moved
<1> QED BY <1>11, <1>12

\* The current row is the one that is lit, and shows the current item.
LEMMA LitIsCurrent ==
    ASSUME ListInv, InList, ~misled, item_count # 0
    PROVE  {rows[row] : row \in lit} = {Current}
<1>1. /\ choice \in 0..max_choice - 1
      /\ \A row \in 0..max_choice - 1 : rows[row] = scroll + row
      /\ lit = {choice} \cap (0..max_choice - 1)
  BY DEF ListInv, ListIsShown
<1>2. lit = {choice} /\ rows[choice] = Current
  BY <1>1 DEF Current
<1> QED BY <1>2

LEMMA HotkeyMoves == ASSUME ListInv, NEW l \in Letters, Hotkey(l) PROVE Moved
<1>1. key' = l /\ key' \notin MovingKeys
  BY NoLetter DEF Hotkey, MenuKey, Stay
<1> DEFINE below == {row \in RowsOf(l) : row > choice}
           at == IF below # {} THEN Min(below) ELSE Min(RowsOf(l))
<1>2. Move(scroll, at, Dimmed)
  BY Zenon DEF Hotkey
<1>3. at \in RowsOf(l)
  <2>1. RowsOf(l) # {} /\ RowsOf(l) \in SUBSET Nat
    BY DEF Hotkey, RowsOf
  <2>2. below \in SUBSET Nat /\ below \subseteq RowsOf(l)
    BY <2>1
  <2>3. below # {} => Min(below) \in below
    BY <2>2, MinOfMany
  <2>4. Min(RowsOf(l)) \in RowsOf(l)
    BY <2>1, MinOfMany
  <2> QED BY <2>2, <2>3, <2>4
<1> HIDE DEF at
<1>4. item_str(Current') = l
  BY <1>2, <1>3, MoveCurrent DEF RowsOf
<1> QED BY <1>1, <1>4 DEF Moved, MovingKeys

LEMMA ListUpMoves == ASSUME ListInv, ListUp PROVE Moved
<1>1. /\ item_count \in Nat /\ max_choice \in 1..item_count
      /\ choice \in 0..max_choice - 1 /\ scroll \in 0..item_count - max_choice
  BY ListKeyInv DEF ListUp, ListKey
<1>2. key' = "up" /\ key' \notin Letters \cup ListLetters
  BY NoLetter DEF ListUp, ListKey, Stay, MovingKeys
<1>3. Current' = IF choice > 0 THEN scroll + (choice - 1) ELSE IF scroll > 0 THEN scroll - 1 + 0 ELSE scroll + 0
  BY MoveCurrent DEF ListUp
<1>4. Max({Current - 1, 0}) = IF Current - 1 >= 0 THEN Current - 1 ELSE 0
  BY <1>1, MaxOfTwo DEF Current
<1>5. Current' = Max({Current - 1, 0})
  BY <1>1, <1>3, <1>4 DEF Current
<1> QED BY <1>2, <1>5 DEF Moved

LEMMA ListDownMoves == ASSUME ListInv, ListDown PROVE Moved
<1>1. /\ item_count \in Nat /\ max_choice \in 1..item_count
      /\ choice \in 0..max_choice - 1 /\ scroll \in 0..item_count - max_choice
  BY ListKeyInv DEF ListDown, ListKey
<1>2. key' = "down" /\ key' \notin Letters \cup ListLetters
  BY NoLetter DEF ListDown, ListKey, Stay, MovingKeys
<1>3. Current' = IF choice < max_choice - 1 THEN scroll + (choice + 1)
                 ELSE IF scroll + choice < item_count - 1 THEN scroll + 1 + choice ELSE scroll + choice
  BY MoveCurrent DEF ListDown
<1>4. Min({Current + 1, item_count - 1}) = IF Current + 1 <= item_count - 1 THEN Current + 1 ELSE item_count - 1
  BY <1>1, MinOfTwo DEF Current
<1>5. Current' = Min({Current + 1, item_count - 1})
  BY <1>1, <1>3, <1>4 DEF Current
<1> QED BY <1>2, <1>5 DEF Moved

LEMMA ListHotkeyMoves == ASSUME ListInv, NEW l \in ListLetters, ListHotkey(l) PROVE Moved
<1>1. key' = l /\ key' \notin MovingKeys
  BY NoLetter DEF ListHotkey, ListKey, Stay
<1>2. Lettered(l) # {} /\ Lettered(l) \in SUBSET Nat
  BY DEF ListHotkey, Lettered
<1>3. Min(Lettered(l)) \in Lettered(l)
  BY <1>2, MinOfMany
<1>4. Move(scroll, Min(Lettered(l)), rows)
  BY DEF ListHotkey
<1>5. item_str(Current') = l
  BY <1>3, <1>4, MoveCurrent DEF Lettered
<1> QED BY <1>1, <1>5 DEF Moved, MovingKeys

\* A step that neither moves the cursor nor selects.
LEMMA NothingMoves ==
    ASSUME \/ dialog \notin {"menu", "checklist"}
           \/ key' \notin MovingKeys /\ UNCHANGED <<dialog, list>>
           \/ key' = "resize" /\ dialog' = dialog
           \/ dialog' = None
    PROVE  Moved
<1>1. None # "menu" /\ None # "checklist"
  BY Constants
<1>2. CASE key' \notin MovingKeys /\ UNCHANGED <<dialog, list>>
  BY <1>2 DEF Moved, list, Current, MovingKeys
<1>3. CASE key' = "resize" /\ dialog' = dialog
  <2>1. key' \in MovingKeys
    BY <1>3 DEF MovingKeys
  <2> QED BY <1>3, <2>1, NoLetter DEF Moved
<1> QED BY <1>1, <1>2, <1>3 DEF Moved, InList

LEMMA MenuMoves == ASSUME ListInv, MenuNext PROVE Moved
<1>1. ASSUME NEW menu, NEW select, NEW height, OpenMenu(menu, select, height) PROVE Moved
  BY <1>1, Constants, NothingMoves DEF OpenMenu, Opened
<1>2. ASSUME NEW height, KEY_RESIZE(height) PROVE Moved
  BY <1>2, NothingMoves DEF KEY_RESIZE, Stay
<1>5. ASSUME NEW height, KEY_RESIZEDies(height) PROVE Moved
  BY <1>5, NothingMoves DEF KEY_RESIZEDies, Return
<1>3. ASSUME NEW way \in {"left", "right"}, MenuButton(way) PROVE Moved
  BY <1>3, NothingMoves DEF MenuButton, Stay, MovingKeys
<1>4. ASSUME NEW k, SelectItem(k) \/ LeaveMenu(k) PROVE Moved
  BY <1>4, NothingMoves DEF SelectItem, LeaveMenu, Return
<1> QED BY <1>1, <1>2, <1>3, <1>4, <1>5, KEY_UPMoves, KEY_DOWNMoves, PageMoves, HotkeyMoves DEF MenuNext

LEMMA ListMoves == ASSUME ListInv, ListNext PROVE Moved
<1>1. ASSUME NEW menu, NEW x, NEW select, OpenChecklist(menu, x, select) PROVE Moved
  BY <1>1, Constants, NothingMoves DEF OpenChecklist, Opened
<1>2. CASE ListResize
  BY <1>2, NothingMoves DEF ListResize, Stay
<1>3. ASSUME NEW way \in {"left", "right"}, ListButton(way) PROVE Moved
  BY <1>3, NothingMoves DEF ListButton, ListKey, Stay, MovingKeys
<1>4. ASSUME NEW k, SelectInList(k) \/ LeaveList(k) PROVE Moved
  BY <1>4, NothingMoves DEF SelectInList, LeaveList, Return
<1> QED BY <1>1, <1>2, <1>3, <1>4, ListUpMoves, ListDownMoves, ListHotkeyMoves DEF ListNext

\* The items in a list are those of a menu or a radio list.
ItemsInv == InList => items \in Menus \cup RadioLists

LEMMA NoItems ==
    ASSUME ItemsInv, InList, items # <<>>
    PROVE  item_count # 0
<1>1. items \in Seq(Range(items) \ MovingKeys)
  BY MenuAssumption, ListAssumption DEF ItemsInv, MenuAssumption, ListAssumption
<1> QED BY <1>1 DEF item_count

LEMMA MenuSelects == ASSUME ListInv, ItemsInv, MenuNext PROVE Selected
<1> SUFFICES ASSUME InList, dialog' = None, result' \notin {KEY_ESC, SIGSEGV}, ~misled, items # <<>>
             PROVE  marked' = {rows[row] : row \in lit}
  BY DEF Selected
<1>1. item_count # 0 /\ dialog # None
  BY NoItems, Constants DEF InList
<1>2. PICK k : SelectItem(k)
  BY <1>1, Constants DEF MenuNext, OpenMenu, KEY_RESIZE, KEY_RESIZEDies, KEY_UP, KEY_DOWN, KEY_PPAGE, KEY_NPAGE, Hotkey, MenuKey,
       MenuButton, LeaveMenu, Opened, Return, Stay
<1>3. marked' = {Current}
  BY <1>1, <1>2 DEF SelectItem
<1> QED BY <1>1, <1>3, LitIsCurrent

LEMMA ListSelects == ASSUME ListInv, ItemsInv, ListNext PROVE Selected
<1> SUFFICES ASSUME InList, dialog' = None, result' \notin {KEY_ESC, SIGSEGV}, ~misled, items # <<>>
             PROVE  marked' = {rows[row] : row \in lit}
  BY DEF Selected
<1>1. item_count # 0 /\ dialog # None
  BY NoItems, Constants DEF InList
<1>2. PICK k : SelectInList(k)
  BY <1>1, Constants DEF ListNext, OpenChecklist, ListResize, ListUp, ListDown, ListHotkey, ListKey,
       ListButton, LeaveList, Opened, Return, Stay
<1>3. marked' = {Current}
  BY <1>2 DEF SelectInList
<1> QED BY <1>1, <1>3, LitIsCurrent

LEMMA NoListBefore == ASSUME YesnoNext \/ InputNext \/ TextNext PROVE ~InList
<1>1. None \notin {"menu", "checklist"}
  BY Constants
<1>2. CASE YesnoNext
  BY <1>1, <1>2 DEF InList, YesnoNext, OpenYesno, YesnoButton, AnswerYesno, Opened
<1>3. CASE InputNext
  BY <1>1, <1>3 DEF InList, InputNext, OpenInput, InputResize, Backspace, InputLeft, InputRight, Type, InField, InputButton,
       AnswerInput, Opened
<1>4. CASE TextNext
  BY <1>1, <1>4 DEF InList, TextNext, OpenText, SearchAgain, TextResize, TextHome, TextEnd, TextUp, TextDown, TextPageUp,
       TextPageDown, TextLeft, TextRight, TextKey, LeaveText, Opened
<1> QED BY <1>2, <1>3, <1>4

LEMMA ItemsAreOfMenus == Spec => []ItemsInv
<1>1. Init => ItemsInv
  BY Constants DEF Init, DialogInit, ItemsInv, InList
<1>2. ItemsInv /\ [Next]_vars => ItemsInv'
  <2> SUFFICES ASSUME ItemsInv, [Next]_vars PROVE ItemsInv'
    OBVIOUS
  <2>1. CASE MenuNext
    BY <2>1, Constants DEF ItemsInv, InList, MenuNext, OpenMenu, KEY_RESIZE, KEY_RESIZEDies, KEY_UP, KEY_DOWN, KEY_PPAGE, KEY_NPAGE,
         Turn, Hotkey, MenuKey, Move, MenuButton, SelectItem, LeaveMenu, Opened, Return, Stay, list
  <2>2. CASE ListNext
    BY <2>2, Constants DEF ItemsInv, InList, ListNext, OpenChecklist, ListResize, ListUp, ListDown, ListHotkey, ListKey,
         Move, ListButton, SelectInList, LeaveList, Opened, Return, Stay, list
  <2>3. CASE YesnoNext \/ InputNext \/ TextNext
    BY <2>3, NoListHere DEF ItemsInv, InList
  <2>4. CASE UNCHANGED vars
    BY <2>4 DEF vars, dvars, list, ItemsInv, InList
  <2> QED BY <2>1, <2>2, <2>3, <2>4 DEF Next
<1> QED BY <1>1, <1>2, PTL DEF Spec

\* Whatever the menus, the radio lists and the terminals: every key moves the cursor over
\* the whole list as it says, and what a key that selects returns is the lit item, where
\* the box is not misled.
THEOREM KeysMoveTheCursor == Spec => KeysMoveInList
<1>1. ListInv /\ ItemsInv /\ [Next]_vars => [Moved /\ Selected]_vars
  <2> SUFFICES ASSUME ListInv, ItemsInv, Next PROVE Moved /\ Selected
    OBVIOUS
  <2>1. CASE MenuNext
    BY <2>1, MenuMoves, MenuSelects
  <2>2. CASE ListNext
    BY <2>2, ListMoves, ListSelects
  <2>3. CASE YesnoNext \/ InputNext \/ TextNext
    BY <2>3, NoListBefore DEF Moved, Selected
  <2> QED BY <2>1, <2>2, <2>3 DEF Next
<1>2. KeysMoveInList <=> [][Moved /\ Selected]_vars
  BY PTL DEF KeysMoveInList, Moved, Selected
<1> QED BY <1>1, <1>2, ListInvHolds, ItemsAreOfMenus, PTL DEF Spec

(***************************************************************************)
(* The text box.                                                           *)
(***************************************************************************)
LEMMA NoTextHere ==
    ASSUME YesnoNext \/ MenuNext \/ ListNext \/ InputNext
    PROVE  dialog # "text" /\ dialog' # "text"
<1>1. None # "text"
  BY TextConstants
<1>2. CASE YesnoNext
  BY <1>1, <1>2 DEF YesnoNext, OpenYesno, YesnoButton, AnswerYesno, Opened, Return, Stay
<1>3. CASE MenuNext
  BY <1>1, <1>3 DEF MenuNext, OpenMenu, KEY_RESIZE, KEY_RESIZEDies, KEY_UP, KEY_DOWN, KEY_PPAGE, KEY_NPAGE, Hotkey, MenuKey,
       MenuButton, SelectItem, LeaveMenu, Opened, Return, Stay
<1>4. CASE ListNext
  BY <1>1, <1>4 DEF ListNext, OpenChecklist, ListResize, ListUp, ListDown, ListHotkey, ListKey,
       ListButton, SelectInList, LeaveList, Opened, Return, Stay
<1>5. CASE InputNext
  BY <1>1, <1>5 DEF InputNext, OpenInput, InputResize, Backspace, InputLeft, InputRight, Type, InField, InputButton,
       AnswerInput, Opened, Return, Stay
<1> QED BY <1>2, <1>3, <1>4, <1>5

\* A step of another box leaves the text box's variables alone.
LEMMA TextLeftAlone ==
    ASSUME TextInv, UNCHANGED tvars, (dialog # "text" /\ dialog' # "text") \/ dialog' = dialog
    PROVE  TextInv'
<1>1. /\ buf' = buf /\ searching' = searching /\ vscroll' = vscroll /\ again' = again
      /\ boxh' = boxh /\ page' = page /\ begin_reached' = begin_reached /\ end_reached' = end_reached
      /\ page_length' = page_length /\ starts' = starts
  BY DEF tvars
<1>2. PageInv' = PageInv /\ Terminated(buf') = Terminated(buf)
  BY <1>1 DEF PageInv, Top, AllLines
<1> QED BY <1>1, <1>2 DEF TextInv

LEMMA TextInvHolds == Spec => []TextInv
<1>1. Init => TextInv
  <2>1. Init => dialog = None /\ searching = FALSE /\ again = FALSE /\ vscroll = 0
    BY DEF Init, DialogInit, TextInit
  <2>2. None # "text" /\ 0 \in Nat
    BY TextConstants
  <2> QED BY <2>1, <2>2 DEF TextInv
<1>2. TextInv /\ [Next]_vars => TextInv'
  <2> SUFFICES ASSUME TextInv, [Next]_vars PROVE TextInv'
    OBVIOUS
  <2>1. CASE TextNext
    BY <2>1, TextNextInv
  <2>2. CASE (YesnoNext \/ MenuNext \/ ListNext \/ InputNext) /\ UNCHANGED tvars
    BY <2>2, NoTextHere, TextLeftAlone
  <2>3. CASE UNCHANGED vars
    BY <2>3, TextLeftAlone DEF vars, dvars
  <2> QED BY <2>1, <2>2, <2>3 DEF Next
<1> QED BY <1>1, <1>2, PTL DEF Spec

\* Whatever the text and the terminals: the text box shows consecutive lines, and its keys
\* are dead only at the ends of the text.
THEOREM TextStaysReachable == Spec => []TextIsReachable
BY TextInvHolds, TextIsSeen, PTL

\* Whatever the text and the terminals, every key turns the text as it says.
THEOREM KeysTurnTheText == Spec => KeysTurnText
<1>1. TextInv /\ [Next]_vars => [Turned]_tvars
  <2> SUFFICES ASSUME TextInv, [Next]_vars PROVE [Turned]_tvars
    OBVIOUS
  <2>1. CASE TextNext
    BY <2>1, TextNextInv
  <2>2. CASE (YesnoNext \/ MenuNext \/ ListNext \/ InputNext) /\ UNCHANGED tvars
    BY <2>2
  <2>3. CASE UNCHANGED vars
    BY <2>3 DEF vars
  <2> QED BY <2>1, <2>2, <2>3 DEF Next
<1>2. KeysTurnText <=> [][Turned]_tvars
  BY PTL DEF KeysTurnText, Turned
<1> QED BY <1>1, <1>2, TextInvHolds, PTL DEF Spec

(***************************************************************************)
(* What comes back.                                                        *)
(***************************************************************************)
\* What PositionIsKept says of a step that opens a menu.
ScrollKept ==
    dialog = None /\ dialog' = "menu" /\ s_scroll' = s_scroll
      /\ selected' \in s_scroll..s_scroll + max_choice' - 1 /\ s_scroll + max_choice' <= Len(items')
    => scroll' = s_scroll

LEMMA OpenMenuKeeps ==
    ASSUME ListInv, NEW menu \in Menus, NEW height \in MenuHeights,
           NEW select \in (0..Len(menu) - 1) \cup {None}, OpenMenu(menu, select, height)
    PROVE  ScrollKept
<1> SUFFICES ASSUME s_scroll' = s_scroll, selected' \in s_scroll..s_scroll + max_choice' - 1,
                    s_scroll + max_choice' <= Len(items')
             PROVE  scroll' = s_scroll
  BY DEF ScrollKept
<1> DEFINE count == Len(menu)
           max == Min({height, count})
           wanted == IF select = None THEN 0 ELSE select
           kept == Kept(s_scroll, wanted, max, count)
           scrolled == ~kept /\ wanted >= max
           to == IF kept THEN s_scroll ELSE IF scrolled THEN Centred(wanted, max, count) ELSE 0
<1>1. items' = menu /\ selected' = select /\ Draw(menu, select, s_scroll, 0, 0, height)
  BY DEF OpenMenu
<1>2. PrintList(first_item', to, wanted - to, max)
  BY <1>1, Zenon DEF Draw
<1>3. max_choice' = max /\ scroll' = to
  BY <1>2, Zenon DEF PrintList
<1>4. height \in Nat /\ count \in Nat /\ s_scroll \in Nat /\ None \notin Nat
  BY ListConstants, Constants DEF ListInv
<1>5. max \in Nat
  BY <1>4, ListConstants, MinOfTwo
<1> HIDE DEF max
<1>6. select \in s_scroll..s_scroll + max - 1 /\ s_scroll + max <= count
  BY <1>1, <1>3
<1>7. select # None /\ wanted = select
  BY <1>4, <1>5, <1>6
<1>8. kept
  BY <1>4, <1>5, <1>6, <1>7 DEF Kept
<1> QED BY <1>3, <1>8

LEMMA OnlyOpenMenu ==
    ASSUME MenuNext, dialog = None
    PROVE  \E menu \in Menus, height \in MenuHeights :
             \E select \in (0..Len(menu) - 1) \cup {None} : OpenMenu(menu, select, height)
<1>1. None # "menu"
  BY Constants
<1> QED BY <1>1 DEF MenuNext, KEY_RESIZE, KEY_RESIZEDies, KEY_UP, KEY_DOWN, KEY_PPAGE, KEY_NPAGE, Hotkey, MenuKey,
           MenuButton, SelectItem, LeaveMenu

LEMMA OnlyMenuOpensMenu ==
    ASSUME YesnoNext \/ ListNext \/ InputNext \/ TextNext, dialog = None
    PROVE  dialog' # "menu"
<1>1. None \notin {"menu", "checklist", "input", "text", "yesno"}
  BY NoneAssumption DEF NoneAssumption
<1>2. CASE ListNext
  BY <1>1, <1>2 DEF ListNext, OpenChecklist, ListResize, ListUp, ListDown, ListHotkey, ListKey,
       ListButton, SelectInList, LeaveList, Opened
<1> QED BY <1>2, NoListHere

\* Whatever was left, on the same terminal, comes back as it was.
THEOREM PositionComesBack == Spec => PositionIsKept
<1>1. ListInv /\ TextInv /\ [Next]_vars => [ScrollKept /\ Returned]_vars
  <2> SUFFICES ASSUME ListInv, TextInv, Next PROVE ScrollKept /\ Returned
    OBVIOUS
  <2>1. ScrollKept
    <3>1. CASE MenuNext
      BY <3>1, OnlyOpenMenu, OpenMenuKeeps DEF ScrollKept
    <3>2. CASE YesnoNext \/ ListNext \/ InputNext \/ TextNext
      BY <3>2, OnlyMenuOpensMenu DEF ScrollKept
    <3> QED BY <3>1, <3>2 DEF Next
  <2>2. Returned
    <3>1. CASE TextNext
      BY <3>1, TextNextInv
    <3>2. CASE (YesnoNext \/ MenuNext \/ ListNext \/ InputNext) /\ UNCHANGED tvars
      <4>1. ~searching /\ searching' = searching
        BY <3>2, NoTextHere DEF TextInv, tvars
      <4> QED BY <4>1 DEF Returned
    <3> QED BY <3>1, <3>2 DEF Next
  <2> QED BY <2>1, <2>2
<1>2. PositionIsKept <=> [][ScrollKept /\ Returned]_vars
  BY PTL DEF PositionIsKept, ScrollKept, Returned
<1> QED BY <1>1, <1>2, ListInvHolds, TextInvHolds, PTL DEF Spec
=============================================================================
