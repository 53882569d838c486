CONSTANTS
    Letters = {"a", "b"}
    Exts <- OneAndTwoLetters
    MaxBody = 6
    Size = 36
    Lengths = {1, 4}
    MaxLines = 2
    MaxUses = 2
SPECIFICATION TextSpec
INVARIANTS
    SearchSound
    SearchComplete
    WithinBuffer
    FieldsReadBack
CHECK_DEADLOCK FALSE
