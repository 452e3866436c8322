---------------------------- MODULE LxChecklist ----------------------------
(***************************************************************************)
(* menuconfig's radio list: dialog_checklist, which conf_choice shows for  *)
(* a choice.  Its height is the caller's, not the terminal's.              *)
(***************************************************************************)
EXTENDS LxDialog

CONSTANTS
    RadioLists,      \* lists: sequences of the first letters of the items
    list_height   \* CHECKLIST_HEIGTH_MIN in conf_choice

ListAssumption ==
    /\ list_height \in Nat \ {0}
    /\ \A menu \in RadioLists : menu \in Seq(Range(menu) \ MovingKeys) /\ menu # <<>>
ASSUME ListAssumption

\* The item with the cursor at first: the selected one, else the one with an X.
Highlighted(x, select) == IF select # None THEN select ELSE IF x # None THEN x ELSE 0

\* The part of dialog_checklist under the label do_resize.
DrawList(menu, from, at) ==
    \E to \in {IF at >= list_height THEN at - list_height + 1 ELSE from} :
      PrintList(to, to, IF at >= list_height THEN at - to ELSE at, Min({list_height, Len(menu)}))

OpenChecklist(menu, x, select) ==
    /\ Opened("checklist", 0)
    /\ items' = menu
    /\ marked' = {select} \ {None}
    /\ DrawList(menu, 0, Highlighted(x, select))

ListResize ==
    /\ dialog = "checklist"
    /\ DrawList(items, scroll, choice)
    /\ Stay("resize")
    /\ UNCHANGED <<button, items, marked>>

\* The rows whose item begins with l; the first one takes every key, the
\* ones for the buttons and the ends too.
Lettered(l) == {row \in 0..max_choice - 1 : item_str(scroll + row) = l}
ListKey(k) == dialog = "checklist" /\ Stay(k)

ListHotkey(l) == ListKey(l) /\ Lettered(l) # {} /\ Move(scroll, Min(Lettered(l)), rows)

ListUp ==
    /\ ListKey("up")
    /\ IF choice > 0 THEN Move(scroll, choice - 1, rows)
       ELSE IF scroll > 0 THEN Move(scroll - 1, 0, Scrolled(rows, -1))
       ELSE Move(scroll, 0, rows)

ListDown ==
    /\ ListKey("down")
    /\ IF choice < max_choice - 1 THEN Move(scroll, choice + 1, rows)
       ELSE IF scroll + choice < item_count - 1 THEN Move(scroll + 1, choice, Scrolled(rows, 1))
       ELSE Move(scroll, choice, rows)

ListButton(way) ==
    /\ ListKey(way)
    /\ button' = 1 - button
    /\ UNCHANGED list

\* Every mark goes, and the item under the cursor gets one.
SelectInList(k) ==
    /\ dialog = "checklist" /\ Lettered(k) = {}
    /\ marked' = {Current}
    /\ Return(k, IF k \in {"h", "?"} THEN 1 ELSE button)
    /\ ListDone

LeaveList(k) ==
    /\ dialog = "checklist" /\ Lettered(k) = {}
    /\ Return(k, KEY_ESC)
    /\ ListDone
    /\ UNCHANGED marked

ListLetters == UNION {{menu[i] : i \in DOMAIN menu} : menu \in RadioLists}

ListNext ==
    \/ \E menu \in RadioLists :
         \E x, select \in (0..Len(menu) - 1) \cup {None} : OpenChecklist(menu, x, select)
    \/ ListResize \/ ListUp \/ ListDown
    \/ \E l \in ListLetters : ListHotkey(l)
    \/ \E way \in {"left", "right"} : ListButton(way)
    \/ \E k \in {"h", "?", "s", " ", "newline"} : SelectInList(k)
    \/ \E k \in {"x", "ESC"} : LeaveList(k)
=============================================================================
