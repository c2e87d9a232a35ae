SPECIFICATION AttrSpec
CONSTANTS
    BufLen = 36
    Types = {3, 32772}
    MaxType = 3
    Sizes = {0, 3, 4, 65534}
    Extras = {0, 2}
INVARIANTS InsideBuffer RoundTrip ReadsInside
CHECK_DEADLOCK FALSE
