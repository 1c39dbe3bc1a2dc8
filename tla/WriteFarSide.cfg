SPECIFICATION SpecW
CONSTANTS
    Path = {p}
    Val = {absent, x, y, guess}
    Absent = absent
    Special = {}
    Dir = {}
    Ignored = {}
    Overflow = Overflow
    NoOp = NoOp
    MaxEvents = 3
    MaxReplay = 1
    MaxChanges = 1
    MaxFailures = 0
    Guess = guess
    None = None
    Own = {}
    Kinds = {"create"}
    MaxMutations = 1
    MaxLost = 0
INVARIANT Reconciled
CHECK_DEADLOCK FALSE
