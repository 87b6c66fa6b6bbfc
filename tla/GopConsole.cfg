CONSTANTS
    FONT_HEIGHT = 2
    Offers <- MCOffers
    BufSize = 5
    BufLimit = 3
    Chars = {"a", "b", "?", "CR", "LF"}
    Strings <- MCStrings
    Printable = {"a", "b"}
    MaxPuts = 2
    Blank = Blank
SPECIFICATION Spec
INVARIANTS ScreenIsTail EveryCharDrawn ConOutIsPrefix ToldIsInForce
PROPERTIES ModeIsBest
CHECK_DEADLOCK FALSE
