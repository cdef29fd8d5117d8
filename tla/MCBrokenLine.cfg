\* Requests and what is sent back for them.
SPECIFICATION Spec
CONSTANTS
    Size = 6
    Byte = {"nl", "nul", "u", "S", "B", "J", "5"}
    Digit = {"5"}
    QuitWord <- MCQuitWord
INVARIANT ResponseIsALine
CHECK_DEADLOCK FALSE
