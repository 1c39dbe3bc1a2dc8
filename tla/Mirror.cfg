\* Two paths, all queue limits at their smallest.
SPECIFICATION FairSpec
CONSTANTS
    Path = {p, q}
    Val = {absent, x}
    Absent = absent
    Special = {}
    Dir = {x}
    Ignored = {}
    Overflow = Overflow
    NoOp = NoOp
    MaxEvents = 1
    MaxReplay = 1
    MaxChanges = 2
    MaxFailures = 1
INVARIANTS TypeOK NoLostChange IInv
PROPERTIES IsLazyMirror Converges
CHECK_DEADLOCK FALSE
