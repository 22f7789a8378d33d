\* A scope of more than a minute.
SPECIFICATION Spec
CONSTANTS
    Threads = {t1, t2}
    NoOne = NoOne
PROPERTIES CommitsWhole
