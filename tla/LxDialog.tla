------------------------------ MODULE LxDialog ------------------------------
(***************************************************************************)
(* What menuconfig's dialog boxes share: one box on the screen at a time,  *)
(* its buttons, its return value, the list of items that dialog_menu and   *)
(* dialog_checklist show and mark, and what curses does to printed rows.   *)
(* Also the smallest box, dialog_yesno.  Items, rows and scroll positions  *)
(* count from 0, as in the code.                                           *)
(***************************************************************************)
EXTENDS Integers, SequencesExt

CONSTANT None     \* no box, no item, no key, no value

NoneAssumption == None \notin {"menu", "checklist", "input", "text", "yesno"} /\ None \notin Nat
ASSUME NoneAssumption

VARIABLES
    dialog,       \* the box on the screen, None for none
    button,       \* its button
    key,          \* history: the key it handled last
    result,       \* what the last box returned
    items,        \* the items: a sequence of the letters that select them
    marked,       \* the items marked as selected
    max_choice, scroll, choice,
    rows,         \* row |-> the item last printed there
    lit           \* the rows printed as selected

list == <<items, marked, max_choice, scroll, choice, rows, lit>>
dvars == <<dialog, button, key, result, list>>

KEY_ESC == 27

\* The keys that move in a list, with the terminal's own; no item begins with one.
MovingKeys == {"up", "down", "page up", "page down", "resize"}

item_count == Len(items)
item_str(n) == items[n + 1]
Current == scroll + choice

\* A box comes up with its first button.
Opened(box, first) ==
    /\ dialog = None
    /\ dialog' = box
    /\ button' = first
    /\ key' = None
    /\ result' = None

\* The key k makes the box return value.
Return(k, value) ==
    /\ dialog' = None
    /\ button' = 0
    /\ key' = k
    /\ result' = value

Stay(k) == key' = k /\ UNCHANGED <<dialog, result>>

\* What the two kinds of lists leave behind are the marks.
ListDone ==
    /\ items' = <<>> /\ rows' = <<>> /\ lit' = {}
    /\ max_choice' = 0 /\ scroll' = 0 /\ choice' = 0

\* print_item(index, row, selected)
Printed(screen, index, row) == [screen EXCEPT ![row] = index]

\* wscrl: the rows move up by n, and blank ones come in.
Scrolled(screen, n) ==
    [row \in DOMAIN screen |-> IF row + n \in DOMAIN screen THEN screen[row + n] ELSE None]

\* The list from item first on, and the cursor at row at of it.
PrintList(first, to, at, max) ==
    /\ max_choice' = max
    /\ scroll' = to
    /\ choice' = at
    /\ rows' = [row \in 0..max - 1 |-> first + row]
    /\ lit' = {at} \cap (0..max - 1)

\* Where the cursor goes and what the rows show; the item there is lit last.
Move(to, at, screen) ==
    /\ scroll' = to
    /\ choice' = at
    /\ rows' = Printed(screen, to + at, at)
    /\ lit' = (lit \ {choice}) \cup {at}
    /\ UNCHANGED <<button, items, marked, max_choice>>

(***************************************************************************)
(* dialog_yesno.                                                           *)
(***************************************************************************)
OpenYesno == Opened("yesno", 0) /\ UNCHANGED list

YesnoButton(k) ==
    /\ dialog = "yesno"
    /\ button' = 1 - button
    /\ Stay(k)
    /\ UNCHANGED list

AnswerYesno(k) ==
    /\ dialog = "yesno"
    /\ Return(k, CASE k = "y" -> 0 [] k = "n" -> 1 [] k = "newline" -> button [] k = "ESC" -> KEY_ESC)
    /\ UNCHANGED list

DialogInit ==
    /\ dialog = None /\ button = 0 /\ key = None /\ result = None
    /\ items = <<>> /\ marked = {}
    /\ max_choice = 0 /\ scroll = 0 /\ choice = 0 /\ rows = <<>> /\ lit = {}

YesnoNext ==
    \/ OpenYesno
    \/ \E k \in {"left", "right"} : YesnoButton(k)
    \/ \E k \in {"y", "n", "newline", "ESC"} : AnswerYesno(k)
=============================================================================
