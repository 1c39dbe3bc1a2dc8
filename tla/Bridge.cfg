CONSTANTS
    p = p
    q = q
    Path = {p, q}
    Kind = {"File"}
    QueueCap = 1
    InvalCap = 2
    MaxChanges = 2
    FirstTree <- MCFirstTree
SPECIFICATION Spec
CHECK_DEADLOCK FALSE
INVARIANTS  ActiveIsInFlight  UnmountIsLast
 
