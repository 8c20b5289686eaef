CONSTANTS
    Sources <- MCTexts
    Alpha = {"a", "b", "c", "d", "e", "f", "g", "i", "k", "l", "m", "n", "o", "p",
             "r", "s", "t", "u", "y", "E"}
    Digits = {"1", "2", "3", "4", "6", "8"}
    Space = {" ", "\n"}
    NoToken = NoToken
    MaxCalls = 6

SPECIFICATION Spec

INVARIANT CursorLocation
 
