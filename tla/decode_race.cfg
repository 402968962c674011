CONSTANTS
    t1 = t1
    t2 = t2
    Invalid = Invalid
    Refused = Refused
    Unset = Unset
    Threads = {t1, t2}
    Caller = t1
    Characters = {0, 1, 2}
    Digits <- MCDigits
    Videos <- MCVideos

SPECIFICATION Spec
INVARIANT DecodeDeterministic
