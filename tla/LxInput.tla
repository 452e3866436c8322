------------------------------- MODULE LxInput -------------------------------
(***************************************************************************)
(* menuconfig's input box: dialog_inputbox's text, the window of it that   *)
(* is on the screen, and the cursor.  The box is box_width cells wide; a   *)
(* longer text scrolls in it.                                              *)
(***************************************************************************)
EXTENDS LxDialog

CONSTANTS
    Chars,        \* what can be typed
    InitTexts,    \* the values a dialog comes up with
    box_width,
    MAX_LEN       \* of a text

VARIABLES
    instr,        \* the text, dialog_input_result
    pos,          \* the cursor's place in it
    show_x,       \* the place in it of the box's first cell
    input_x,      \* the cursor's cell
    cells         \* the box on the screen: cell |-> what was printed there

ivars == <<instr, pos, show_x, input_x, cells>>

InputAssumption ==
    /\ box_width \in Nat \ {0} /\ MAX_LEN \in Nat
    /\ \A text \in InitTexts : text \in Seq(Chars) /\ Len(text) <= MAX_LEN
ASSUME InputAssumption

Cells == 0..box_width - 1
Blank == " "
len == Len(instr)

\* Writing text from the place from on; a NUL is written as a blank, and ends it.
Written(text, from, before) ==
    [c \in Cells |-> IF from + c < Len(text) THEN text[from + c + 1]
                     ELSE IF from + c = Len(text) THEN Blank ELSE before[c]]

\* The part of dialog_inputbox under the label do_resize: the cursor goes to
\* the end of the text.
DrawInput(text) ==
    /\ pos' = Len(text)
    /\ show_x' = IF Len(text) >= box_width THEN Len(text) - box_width + 1 ELSE 0
    /\ input_x' = IF Len(text) >= box_width THEN box_width - 1 ELSE Len(text)
    /\ cells' = Written(text, show_x', [c \in Cells |-> Blank])

OpenInput(text) ==
    /\ Opened("input", -1)
    /\ instr' = text
    /\ DrawInput(text)
    /\ UNCHANGED list

\* A resize keeps the text and the button.
InputResize ==
    /\ dialog = "input"
    /\ DrawInput(instr)
    /\ Stay("resize")
    /\ UNCHANGED <<button, instr, list>>

(***************************************************************************)
(* The keys of the input field; button is -1 there.                        *)
(***************************************************************************)
InField(k) == dialog = "input" /\ button = -1 /\ Stay(k) /\ UNCHANGED <<button, list>>

\* Mutant of Backspace: the window stays when the cursor is in the first cell.
BackspaceStill ==
    /\ InField("backspace")
    /\ pos > 0
    /\ instr' = RemoveAt(instr, pos)
    /\ pos' = pos - 1
    /\ input_x' = IF input_x = 0 THEN 0 ELSE input_x - 1
    /\ cells' = Written(instr', show_x, cells)
    /\ UNCHANGED show_x

Backspace ==
    /\ InField("backspace")
    /\ pos > 0
    /\ instr' = RemoveAt(instr, pos)
    /\ pos' = pos - 1
    /\ show_x' = IF input_x = 0 THEN show_x - 1 ELSE show_x
    /\ input_x' = IF input_x = 0 THEN 0 ELSE input_x - 1
    /\ cells' = Written(instr', show_x', cells)

InputLeft ==
    /\ InField("left")
    /\ pos > 0
    /\ pos' = pos - 1
    /\ IF input_x > 0
       THEN input_x' = input_x - 1 /\ UNCHANGED <<show_x, cells>>
       ELSE /\ show_x' = show_x - 1
            /\ cells' = Written(instr, show_x', cells)
            /\ UNCHANGED input_x
    /\ UNCHANGED instr

InputRight ==
    /\ InField("right")
    /\ pos < len
    /\ pos' = pos + 1
    /\ IF input_x < box_width - 1
       THEN input_x' = input_x + 1 /\ UNCHANGED <<show_x, cells>>
       ELSE /\ show_x' = show_x + 1
            /\ cells' = Written(instr, show_x', cells)
            /\ UNCHANGED input_x
    /\ UNCHANGED instr

\* One character more than MAX_LEN only flashes.
Type(c) ==
    /\ InField(c)
    /\ len < MAX_LEN
    /\ instr' = InsertAt(instr, pos + 1, c)
    /\ pos' = pos + 1
    /\ IF input_x = box_width - 1
       THEN show_x' = show_x + 1 /\ UNCHANGED input_x
       ELSE input_x' = input_x + 1 /\ UNCHANGED show_x
    /\ cells' = Written(instr', show_x', cells)

(***************************************************************************)
(* The buttons: 0 is Ok, 1 is Help.  In the field, only some keys are      *)
(* theirs.                                                                 *)
(***************************************************************************)
InputButton(k) ==
    /\ dialog = "input"
    /\ k \in {"left", "right"} => button # -1
    /\ button' = CASE k \in {"up", "left"} /\ button = -1 -> 1
                   [] k \in {"up", "left"} /\ button # -1 -> button - 1
                   [] k \in {"tab", "down", "right"} /\ button = 1 -> -1
                   [] k \in {"tab", "down", "right"} /\ button # 1 -> button + 1
    /\ Stay(k)
    /\ UNCHANGED <<ivars, list>>

\* The text stays in dialog_input_result; the box is gone.
InputDone ==
    /\ pos' = 0 /\ show_x' = 0 /\ input_x' = 0
    /\ cells' = [c \in Cells |-> Blank]
    /\ UNCHANGED <<instr, list>>

AnswerInput(k) ==
    /\ dialog = "input"
    /\ k \in {"o", "h", "x", " "} => button # -1
    /\ Return(k, CASE k = "o" -> 0
                   [] k = "h" -> 1
                   [] k \in {" ", "newline"} -> IF button = -1 THEN 0 ELSE button
                   [] k \in {"x", "ESC"} -> KEY_ESC)
    /\ InputDone

InputInit ==
    /\ instr = <<>> /\ pos = 0 /\ show_x = 0 /\ input_x = 0
    /\ cells = [c \in Cells |-> Blank]

InputNext ==
    \/ \E text \in InitTexts : OpenInput(text)
    \/ InputResize
    \/ Backspace \/ InputLeft \/ InputRight
    \/ \E c \in Chars : Type(c)
    \/ \E k \in {"left", "right", "up", "down", "tab"} : InputButton(k)
    \/ \E k \in {"o", "h", "x", " ", "newline", "ESC"} : AnswerInput(k)
-----------------------------------------------------------------------------
\* The box shows the text around the cursor: each cell what the text has there,
\* no residue behind the end; the cursor's cell is the cursor's place.  What is
\* printed is only what each key is thought to disturb.
FieldShowsText ==
    dialog = "input" =>
      /\ pos = show_x + input_x /\ input_x \in Cells /\ show_x >= 0 /\ pos <= len /\ len <= MAX_LEN
      /\ \A c \in Cells : cells[c] = IF show_x + c < len THEN instr[show_x + c + 1] ELSE Blank
=============================================================================
