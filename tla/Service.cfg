CONSTANTS
    Starters = {s1, s2}
    Closers = {c1}
    Life = Life
    Tapes = {t1, t2}
    Option = Option
    Stoppers = {p1}
    NoTape = NoTape
    Nobody = Nobody
SPECIFICATION Spec
INVARIANTS
    StartIsAllOrNothing
    CloseNotOverlooked
    TapesAccounted
PROPERTIES
    ShutdownComes
CHECK_DEADLOCK FALSE
