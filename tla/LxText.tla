------------------------------- MODULE LxText -------------------------------
(***************************************************************************)
(* menuconfig's text box: dialog_textbox, which shows a help text, a       *)
(* message or the results of a search, and finds its way in the text with  *)
(* one pointer, page, that stands behind the last line printed.  A place   *)
(* in the text counts from 0; the place Len(buf) is the NUL.               *)
(***************************************************************************)
EXTENDS LxDialog

CONSTANTS
    Texts,        \* texts: sequences of NL and other characters
    NL,           \* the newline
    BoxHeights,   \* the rows a terminal leaves for the text: none at all on one of 8 rows,
                  \* which is left out
    MaxHscroll    \* MAX_LEN

VARIABLES
    buf,          \* the text
    boxh,         \* the rows of the box
    page, begin_reached, end_reached, page_length, hscroll,
    starts,       \* row |-> the place of the line printed there
    searching,    \* called by search_conf: with an update_text, and to be continued
    vscroll,      \* the lines above the page, as search_conf keeps them
    again         \* a jump key ended the search, whose results come up again

tvars == <<buf, boxh, page, begin_reached, end_reached, page_length, hscroll, starts, searching, vscroll, again>>

TextAssumption ==
    /\ BoxHeights \subseteq Nat \ {0}
    /\ \A text \in Texts : text \in Seq(Range(text)) /\ text # <<>>
ASSUME TextAssumption

\* Where page is, and what the last call found out about the text's ends.
At(p, begin, end) == [page |-> p, begin |-> begin, end |-> end]
Here == At(page, begin_reached, end_reached)

(***************************************************************************)
(* Ways through the text.                                                  *)
(***************************************************************************)
LineEnd(text, p) == Min({q \in p..Len(text) : q = Len(text) \/ text[q + 1] = NL})

get_line(text, s) ==
    LET end == LineEnd(text, s.page)
    IN  At(IF end = Len(text) THEN end ELSE end + 1, s.begin, end = Len(text))

\* After k lines, for k up to n.
get_lines(text, s, n) == LET f[k \in 0..n] == IF k = 0 THEN s ELSE get_line(text, f[k - 1]) IN f

\* The newlines before the line before p.
Before(text, p) == {q \in 0..p - 2 : text[q + 1] = NL}

\* Mutant of back_line: the end is not a line to leave.
back_lineTwice(text, s) ==
    IF s.begin THEN s
    ELSE IF Before(text, s.page) = {} THEN At(0, TRUE, s.end)
    ELSE At(Max(Before(text, s.page)) + 1, FALSE, s.end)

\* One turn of back_lines: leaving the end of the text is one, too.
back_line(text, s) ==
    IF s.begin THEN s
    ELSE IF s.page = Len(text) /\ s.end THEN At(s.page, FALSE, FALSE)
    ELSE IF Before(text, s.page) = {} THEN At(0, TRUE, s.end)
    ELSE At(Max(Before(text, s.page)) + 1, FALSE, s.end)

\* Mutant of back_lines: that the page was at the begin is not forgotten.
back_linesBegun(text, s, n) ==
    LET f[k \in 0..n] == IF k = 0 THEN s ELSE back_line(text, f[k - 1]) IN f[n]

back_lines(text, s, n) ==
    LET f[k \in 0..n] == IF k = 0 THEN At(s.page, FALSE, s.end) ELSE back_line(text, f[k - 1])
    IN  f[n]

\* print_page from s on, with update_text's look at the same lines before it.
PrintPage(text, s, height, updates) ==
    \E from \in {IF updates THEN back_lines(text, get_lines(text, s, height)[height], height) ELSE s} :
    \E at \in {get_lines(text, from, height)} :
      /\ starts' = [row \in 0..height - 1 |-> at[row].page]
      /\ page_length' = Cardinality({row \in 0..height - 1 : \A r \in 1..row : ~at[r].end})
      /\ page' = at[height].page
      /\ begin_reached' = at[height].begin
      /\ end_reached' = at[height].end
      /\ boxh' = height

(***************************************************************************)
(* The box comes up.                                                       *)
(***************************************************************************)
OpenText(text, height, search) ==
    /\ Opened("text", 0)
    /\ buf' = text
    /\ searching' = search
    /\ hscroll' = 0 /\ vscroll' = 0 /\ again' = FALSE
    /\ PrintPage(text, At(0, TRUE, FALSE), height, search)
    /\ UNCHANGED list

\* The results of the search come up again after the jump.
SearchAgain(height) ==
    /\ again
    /\ Opened("text", 0)
    /\ searching' = TRUE
    /\ again' = FALSE
    /\ PrintPage(buf, IF vscroll = 0 THEN At(0, TRUE, FALSE)
                      ELSE get_lines(buf, At(0, FALSE, FALSE), vscroll)[vscroll], height, TRUE)
    /\ UNCHANGED <<buf, hscroll, vscroll, list>>

TextResize(height) ==
    /\ dialog = "text"
    /\ PrintPage(buf, back_lines(buf, Here, boxh + 4), height, searching)
    /\ Stay("resize")
    /\ UNCHANGED <<button, list, buf, hscroll, searching, vscroll, again>>

(***************************************************************************)
(* The keys that turn the text.                                            *)
(***************************************************************************)
TextKey(k) == dialog = "text" /\ Stay(k) /\ UNCHANGED <<button, list, buf, searching, vscroll, again>>
Show(s) == PrintPage(buf, s, boxh, searching)

TextHome == TextKey("home") /\ ~begin_reached /\ Show(At(0, TRUE, end_reached)) /\ UNCHANGED hscroll
TextEnd == TextKey("end") /\ Show(back_lines(buf, At(Len(buf), begin_reached, TRUE), boxh)) /\ UNCHANGED hscroll
TextUp == TextKey("up") /\ ~begin_reached /\ Show(back_lines(buf, Here, page_length + 1)) /\ UNCHANGED hscroll
TextDown == TextKey("down") /\ ~end_reached /\ Show(back_lines(buf, Here, page_length - 1)) /\ UNCHANGED hscroll
TextPageUp == TextKey("page up") /\ ~begin_reached /\ Show(back_lines(buf, Here, page_length + boxh)) /\ UNCHANGED hscroll
TextPageDown == TextKey("page down") /\ ~end_reached /\ Show(At(page, FALSE, end_reached)) /\ UNCHANGED hscroll

TextLeft(k) ==
    /\ TextKey(k)
    /\ hscroll > 0
    /\ hscroll' = IF k = "0" THEN 0 ELSE hscroll - 1
    /\ Show(back_lines(buf, Here, page_length))

TextRight ==
    /\ TextKey("right")
    /\ hscroll < MaxHscroll
    /\ hscroll' = hscroll + 1
    /\ Show(back_lines(buf, Here, page_length))

\* The lines of text before the place p.
LinesBefore(text, p) == Cardinality({q \in 0..p - 1 : text[q + 1] = NL})

\* A jump key is one of the keys update_text has set; other ends are 0 or ESC.
LeaveText(k) ==
    /\ dialog = "text"
    /\ k = "jump" => searching
    /\ vscroll' = IF searching THEN LinesBefore(buf, back_lines(buf, Here, page_length).page) ELSE 0
    /\ hscroll' = IF searching THEN hscroll ELSE 0
    /\ again' = (k = "jump")
    /\ Return(k, IF k = "ESC" THEN KEY_ESC ELSE IF k = "jump" THEN 1 ELSE 0)
    /\ boxh' = 0 /\ page' = 0 /\ begin_reached' = FALSE /\ end_reached' = FALSE /\ page_length' = 0
    /\ starts' = <<>> /\ searching' = FALSE
    /\ UNCHANGED <<list, buf>>

TextInit ==
    /\ buf = <<>> /\ boxh = 0 /\ page = 0 /\ begin_reached = FALSE /\ end_reached = FALSE /\ page_length = 0
    /\ hscroll = 0 /\ starts = <<>> /\ searching = FALSE /\ vscroll = 0 /\ again = FALSE

\* Every line ends with a newline: help texts and search results, not messages.
Terminated(text) == text[Len(text)] = NL

TextNext ==
    \/ \E text \in Texts, height \in BoxHeights :
         \E search \in {FALSE} \cup {Terminated(text)} : OpenText(text, height, search)
    \/ \E height \in BoxHeights : SearchAgain(height) \/ TextResize(height)
    \/ TextHome \/ TextEnd \/ TextUp \/ TextDown \/ TextPageUp \/ TextPageDown
    \/ \E k \in {"left", "0"} : TextLeft(k)
    \/ TextRight
    \/ \E k \in {"newline", "ESC", "jump"} : LeaveText(k)
-----------------------------------------------------------------------------
AllLines == LinesBefore(buf, Len(buf))
Top == LinesBefore(buf, starts[0])

\* The box shows consecutive lines, and a key to go on is dead only where there
\* is nothing more to see in its way.
TextIsReachable ==
    dialog = "text" /\ Terminated(buf) =>
      /\ \A row \in 0..boxh - 1 : LinesBefore(buf, starts[row]) = Min({Top + row, AllLines})
      /\ begin_reached => Top = 0
      /\ end_reached => Top + boxh > AllLines

\* Every key turns the text as it says; scrolling sideways keeps its lines.
KeysTurnText ==
    [][dialog = "text" /\ dialog' = "text" /\ Terminated(buf) =>
        /\ key' = "home" => Top' = 0
        /\ key' = "end" => Top' = Max({AllLines - boxh + 1, 0})
        /\ key' = "up" => Top' = Max({Top - 1, 0})
        /\ key' = "down" => Top' = Top + 1
        /\ key' = "page up" => Top' = Max({Top - boxh, 0})
        /\ key' = "page down" /\ ~searching => Top' = Top + boxh
        /\ key' = "page down" /\ searching => Top' > Top
        /\ key' \in {"left", "right", "0"} => Top' = Top]_tvars
=============================================================================
