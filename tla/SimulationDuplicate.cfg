SPECIFICATION Spec
CONSTANTS
    Handler = {h1, h2}
    RunId = {r1, r2}
    NoRun = NoRun
    SimUser = {u1}
    Workers = 1
PROPERTIES
    DuplicateIsHarmless
