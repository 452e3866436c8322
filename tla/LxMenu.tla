------------------------------- MODULE LxMenu -------------------------------
(***************************************************************************)
(* menuconfig's menu box: dialog_menu's cursor, its scrolling, what stands *)
(* on the screen's rows, and the scroll position it hands to the next call *)
(* for the same menu.                                                      *)
(***************************************************************************)
EXTENDS LxDialog

CONSTANTS
    Menus,        \* menus: sequences of what first_alpha finds in the items
    MenuHeights   \* the rows a terminal leaves for the items

MenuAssumption ==
    /\ MenuHeights \subseteq Nat \ {0}
    /\ \A menu \in Menus : menu \in Seq(Range(menu) \ MovingKeys)
ASSUME MenuAssumption

VARIABLES
    selected,     \* the item conf() asks to select
    s_scroll,     \* the scroll position conf() keeps between calls
    first_item,
    misled        \* history: the box has been drawn again on a terminal that has grown, or
                  \* without an item to select but with a scroll position to go back to

mvars == <<selected, s_scroll, first_item, misled>>

\* The strings of the items are not looked at for these.
NoHotkeys == {" ", "y", "n", "m", "h"}

(***************************************************************************)
(* do_resize.                                                              *)
(***************************************************************************)
\* Mutant of Kept: the last row does not count.
KeptNotLast(from, at, max, count) == from <= at /\ from + max - 1 > at /\ from >= 0 /\ from + max <= count

Kept(from, at, max, count) == from <= at /\ from + max > at /\ from >= 0 /\ from + max <= count

\* Where the list is scrolled so that the item at is in its middle.
Centred(at, max, count) == IF at >= count - max \div 2 THEN count - max ELSE at - max \div 2

\* The part of dialog_menu under the label do_resize, for a menu, the item to
\* select, the choice and first_item so far, and the room for rows.
Draw(menu, select, from, at, first, height) ==
    LET count == Len(menu)
        max == Min({height, count})
        wanted == IF select = None THEN at ELSE select
    IN  \E kept \in {Kept(from, wanted, max, count)} :
        \E scrolled \in {~kept /\ wanted >= max} :
        \E to \in {IF kept THEN from ELSE IF scrolled THEN Centred(wanted, max, count) ELSE 0} :
          /\ first_item' = IF kept \/ scrolled THEN to ELSE first
          /\ PrintList(first_item', to, wanted - to, max)

\* dialog_menu is called.  conf() starts a menu with scroll position 0 and keeps the last
\* one for the next call, also where its active_menu is not in the list any more, after
\* 'z' or a Load, so that no item is selected.
OpenMenu(menu, select, height) ==
    /\ Opened("menu", 0)
    /\ items' = menu
    /\ marked' = {}
    /\ selected' = select
    /\ misled' = FALSE
    /\ s_scroll' \in {s_scroll, 0}
    /\ Draw(menu, select, s_scroll', 0, 0, height)

\* The first_item of the last time, which is printed from where the list is not scrolled,
\* has fewer items from it on than there are rows.
Overruns(height) ==
    \E max \in {Min({height, item_count})}, wanted \in {IF selected = None THEN choice ELSE selected} :
        ~Kept(s_scroll, wanted, max, item_count) /\ wanted < max /\ first_item + max > item_count

KEY_RESIZE(height) ==
    /\ dialog = "menu" /\ ~Overruns(height)
    /\ Draw(items, selected, s_scroll, choice, first_item, height)
    /\ misled' = (misled \/ max_choice' > max_choice \/ (selected = None /\ s_scroll # 0))
    /\ Stay("resize")
    /\ UNCHANGED <<items, marked, selected, s_scroll, button>>

(***************************************************************************)
(* The keys that move.                                                     *)
(***************************************************************************)
\* The current item is printed again without its light before anything moves.
Dimmed == Printed(rows, Current, choice)

MenuKey(k) == dialog = "menu" /\ item_count # 0 /\ Stay(k) /\ UNCHANGED mvars

KEY_UP ==
    /\ MenuKey("up")
    /\ IF choice < 2 /\ scroll > 0
       THEN Move(scroll - 1, choice, Printed(Scrolled(Dimmed, -1), scroll - 1, 0))
       ELSE Move(scroll, IF choice = 0 THEN 0 ELSE choice - 1, Dimmed)

\* Mutant of KEY_DOWN: the row that comes in stays blank.
KEY_DOWNBlank ==
    /\ MenuKey("down")
    /\ IF choice > max_choice - 3 /\ scroll + max_choice < item_count
       THEN Move(scroll + 1, choice, Scrolled(Dimmed, 1))
       ELSE Move(scroll, Min({choice + 1, max_choice - 1}), Dimmed)

KEY_DOWN ==
    /\ MenuKey("down")
    /\ IF choice > max_choice - 3 /\ scroll + max_choice < item_count
       THEN Move(scroll + 1, choice, Printed(Scrolled(Dimmed, 1), scroll + max_choice, max_choice - 1))
       ELSE Move(scroll, Min({choice + 1, max_choice - 1}), Dimmed)

\* KEY_PPAGE and KEY_NPAGE: max_choice times, scroll one row, or where there is
\* nothing to scroll, go one row.
Turn(by) ==
    \E n \in {Min({max_choice, IF by < 0 THEN scroll ELSE item_count - max_choice - scroll})} :
    \E at \in {IF by < 0 THEN choice - (max_choice - n) ELSE choice + (max_choice - n)} :
      Move(scroll + by * n,
           IF at < 0 THEN 0 ELSE Min({at, max_choice - 1}),
           [row \in DOMAIN rows |-> IF row + by * n \in DOMAIN rows THEN Dimmed[row + by * n]
                                    ELSE scroll + by * n + row])

\* Mutant of KEY_PPAGE: the cursor stays in its row.
KEY_PPAGEStill ==
    /\ MenuKey("page up")
    /\ \E to \in {IF scroll > max_choice THEN scroll - max_choice ELSE 0} :
          Move(to, choice, [row \in DOMAIN rows |-> to + row])

KEY_PPAGE == MenuKey("page up") /\ Turn(-1)
KEY_NPAGE == MenuKey("page down") /\ Turn(1)

\* The rows whose item begins with l.
RowsOf(l) == {row \in 0..max_choice - 1 : scroll + row < item_count /\ item_str(scroll + row) = l}

Hotkey(l) ==
    /\ MenuKey(l)
    /\ l \notin NoHotkeys /\ RowsOf(l) # {}
    /\ \E below \in {{row \in RowsOf(l) : row > choice}} :
          Move(scroll, IF below # {} THEN Min(below) ELSE Min(RowsOf(l)), Dimmed)

(***************************************************************************)
(* The buttons, and the ends.                                              *)
(***************************************************************************)
MenuButton(way) ==
    /\ dialog = "menu"
    /\ button' = IF way = "left" THEN (button + 4) % 5 ELSE (button + 1) % 5
    /\ Stay(way)
    /\ UNCHANGED <<list, mvars>>

MenuDone == ListDone /\ selected' = None /\ first_item' = 0 /\ misled' = FALSE

\* A row behind the end of the list: item_set finds no item, item_str follows a null
\* pointer, and menuconfig is gone.  The next one starts from scratch.
SIGSEGV == 139
KEY_RESIZEDies(height) ==
    /\ dialog = "menu" /\ Overruns(height)
    /\ Return("resize", SIGSEGV)
    /\ s_scroll' = 0
    /\ marked' = {}
    /\ MenuDone

\* What the keys that select return; newline returns the button.
SelectKeys == "h" :> 2 @@ "?" :> 2 @@ "s" :> 5 @@ "y" :> 5 @@ "n" :> 6 @@ "m" :> 7
              @@ " " :> 8 @@ "/" :> 9 @@ "z" :> 10

\* A key that is the first letter of an item on the screen moves instead.
SelectItem(k) ==
    /\ dialog = "menu" /\ (k \notin NoHotkeys => RowsOf(k) = {})
    /\ s_scroll' = scroll
    /\ marked' = IF item_count = 0 THEN {} ELSE {Current}
    /\ Return(k, IF k = "newline" THEN button ELSE SelectKeys[k])
    /\ MenuDone

\* 'e', 'x' and an ESC that on_key_esc lets through.
LeaveMenu(k) ==
    /\ dialog = "menu" /\ RowsOf(k) = {}
    /\ Return(k, KEY_ESC)
    /\ MenuDone
    /\ UNCHANGED <<marked, s_scroll>>

MenuInit == selected = None /\ s_scroll = 0 /\ first_item = 0 /\ misled = FALSE

Letters == UNION {{menu[i] : i \in DOMAIN menu} : menu \in Menus}

MenuNext ==
    \/ \E menu \in Menus, height \in MenuHeights :
         \E select \in (0..Len(menu) - 1) \cup {None} : OpenMenu(menu, select, height)
    \/ \E height \in MenuHeights : KEY_RESIZE(height) \/ KEY_RESIZEDies(height)
    \/ KEY_UP \/ KEY_DOWN \/ KEY_PPAGE \/ KEY_NPAGE
    \/ \E l \in Letters : Hotkey(l)
    \/ \E way \in {"left", "right"} : MenuButton(way)
    \/ \E k \in DOMAIN SelectKeys \cup {"newline"} : SelectItem(k)
    \/ \E k \in {"e", "x", "ESC"} : LeaveMenu(k)
=============================================================================
