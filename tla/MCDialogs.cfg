SPECIFICATION Spec
CONSTANTS
    None = None
    NL = NL
    Menus <- MCMenus
    MenuHeights = {2, 3, 5}
    RadioLists <- MCRadioLists
    list_height = 3
    Chars = {"a", "b"}
    InitTexts <- MCInitTexts
    box_width = 3
    MAX_LEN = 5
    Texts <- MCTexts
    BoxHeights = {2, 3}
    MaxHscroll = 2
INVARIANTS ListIsShown FieldShowsText TextIsReachable
PROPERTIES KeysMoveInList KeysTurnText PositionIsKept
CHECK_DEADLOCK FALSE
