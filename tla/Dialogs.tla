------------------------------ MODULE Dialogs ------------------------------
(***************************************************************************)
(* The user at menuconfig's screen: one dialog box after another, with any *)
(* keys, on a terminal that may change its size.  Boxes of different kinds *)
(* share the screen and nothing that one leaves to the next, so a          *)
(* behaviour is about one kind.  What mconf does between two boxes is in   *)
(* KconfigMconf.                                                           *)
(***************************************************************************)
EXTENDS LxMenu, LxChecklist, LxInput, LxText

VARIABLE box      \* the kind of box of this behaviour

vars == <<box, dvars, mvars, ivars, tvars>>

Init ==
    /\ box \in {"menu", "checklist", "input", "text", "yesno"}
    /\ DialogInit /\ MenuInit /\ InputInit /\ TextInit

Next ==
    /\ \/ box = "yesno" /\ YesnoNext /\ UNCHANGED <<mvars, ivars, tvars>>
       \/ box = "menu" /\ MenuNext /\ UNCHANGED <<ivars, tvars>>
       \/ box = "checklist" /\ ListNext /\ UNCHANGED <<mvars, ivars, tvars>>
       \/ box = "input" /\ InputNext /\ UNCHANGED <<mvars, tvars>>
       \/ box = "text" /\ TextNext /\ UNCHANGED <<mvars, ivars>>
    /\ UNCHANGED box

Spec == Init /\ [][Next]_vars
-----------------------------------------------------------------------------
InList == dialog \in {"menu", "checklist"}

\* The cursor stays in the list, whatever list and position it was opened with;
\* the screen shows the items from scroll on, and the current one, alone, is lit.
\* dialog_menu does not keep the last two when it is misled: it then prints from a
\* first_item of an earlier drawing.
ListIsShown ==
    InList =>
      /\ item_count # 0 => choice \in 0..max_choice - 1 /\ scroll \in 0..item_count - max_choice
      /\ item_count = 0 => choice = 0 /\ scroll = 0
      /\ ~misled => /\ \A row \in 0..max_choice - 1 : rows[row] = scroll + row
                    /\ lit = {choice} \cap (0..max_choice - 1)

\* Every key moves the cursor over the whole list as it says, scrolling or not; and
\* what a key that selects returns is the one item that was lit on the screen, in a box
\* that has not been misled.
KeysMoveInList ==
    [][/\ InList /\ dialog' = dialog =>
            /\ key' = "up" => Current' = Max({Current - 1, 0})
            /\ key' = "down" => Current' = Min({Current + 1, item_count - 1})
            /\ key' = "page up" => Current' = Max({Current - max_choice, 0})
            /\ key' = "page down" => Current' = Min({Current + max_choice, item_count - 1})
            /\ key' \in Letters \cup ListLetters /\ Current' # Current => item_str(Current') = key'
       /\ InList /\ dialog' = None /\ result' \notin {KEY_ESC, SIGSEGV} /\ ~misled /\ items # <<>>
            => marked' = {rows[row] : row \in lit}]_vars

\* What was left comes back: the same menu, opened again at the item it was left at on
\* the same terminal, shows the same rows; the results of a search, after a jump from
\* them, show the same lines, but for a box that has room for more than the rest.
PositionIsKept ==
    [][/\ dialog = None /\ dialog' = "menu" /\ s_scroll' = s_scroll
          /\ selected' \in s_scroll..s_scroll + max_choice' - 1 /\ s_scroll + max_choice' <= Len(items')
            => scroll' = s_scroll
       /\ searching /\ dialog' = None => vscroll' = Top
       /\ dialog = None /\ again /\ searching' /\ UNCHANGED <<buf, vscroll>>
            => Top' = Min({vscroll, Max({AllLines - boxh' + 1, 0})})]_vars
=============================================================================
