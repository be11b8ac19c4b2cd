CONSTANTS
    Starters = {s1, s2}
    Closers = {c1}
    Life = Life
    Tapes = {t1}
    Option = Option
    Stoppers = {p1}
    NoTape = NoTape
    Nobody = Nobody
SPECIFICATION SafetySpec
INVARIANT CloseReleases
CHECK_DEADLOCK FALSE
