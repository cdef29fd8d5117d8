\* Any bytes in any order, from any number of clients.
SPECIFICATION Spec
CONSTANTS
    Size = 6
    Byte = {"nl", "nul", "u", "S", "B", "J", "5"}
    Digit = {"5"}
    QuitWord <- MCQuitWord
INVARIANTS
    TypeOK
    StoresInside
    HandlersSeeLine
    AnswersItsLine
    EchoesItsLine
    QuitsOnlyOnWord
CHECK_DEADLOCK FALSE
