SPECIFICATION Spec
CONSTANTS
    Threads = {t1, t2}
    Cleaners = {c1, c2}
    Urls = {u1}
    Sessions = {s1, s2, s3}
    MaxPoolSize = 1
    MaxGeneration = 3
    NoSession = NoSession
SYMMETRY Symmetry
CHECK_DEADLOCK FALSE
INVARIANT NeverUsesClosed
