SPECIFICATION Spec
CONSTANTS
    Loggers = {root, child}
    NULL = NULL
    PrefixSize = 5
    PrefixLengths = {0, 2, 4, 6}
    Masks = {{}, {1, 2}, {4, 8}}
    MaxChanges = 2
    MessageSize = 14
    Size = 23
    Funcs = {0, 3, 9}
    Digits = 2
    Endings = {9, 10}
    Span = 4096
    Lengths = {0, 1, 13}
    MaxData = 5
    Widths = {0, 1, 2, 3, 4}
    MaxFull = 0
INVARIANTS LineDelivered DumpComplete HexComplete
PROPERTIES LevelsKept
