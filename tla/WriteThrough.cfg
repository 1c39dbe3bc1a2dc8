SPECIFICATION MCSpec
CONSTANTS
    Path = {p, q}
    Val = {absent, x, guess}
    Absent = absent
    Special = {}
    Dir = {}
    Ignored = {}
    Overflow = Overflow
    NoOp = NoOp
    MaxEvents = 1
    MaxReplay = 1
    MaxChanges = 1
    MaxFailures = 1
    Guess = guess
    None = None
    Own = {}
    Kinds = {"create", "write", "rename"}
    MaxMutations = 1
    MaxLost = 1
    OwnPath = {p}
    OwnVal = {absent, x, d, guess}
    OwnDir = {d}
INVARIANTS OwnReadYourWrites NotedDriftOnly
CHECK_DEADLOCK FALSE
