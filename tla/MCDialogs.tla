----------------------------- MODULE MCDialogs -----------------------------
(* Lists, texts and inputs that do and do not fit into the boxes. *)
EXTENDS Dialogs

MCMenus == {<<>>, <<"a", "b">>, <<"a", "b", "a", "c", "b", "e", "a">>}
MCRadioLists == {<<"a", "b">>, <<"a", "s", "b", "a", "c">>}
MCInitTexts == {<<>>, <<"a", "b", "a", "b">>}
MCTexts == {<<"c">>, <<"c", NL>>, <<"c", NL, "c", NL, "c">>,
            <<"c", "c", NL, NL, "c", NL, NL, "c", NL, "c", NL>>}
=============================================================================
