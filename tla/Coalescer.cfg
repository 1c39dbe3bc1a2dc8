SPECIFICATION Spec
CONSTANTS
    Path = {1, 2, 3}
    Below <- OneChild
    MaxPending = 2
    QuietPeriod = 1
    MaxLatency = 2
    MaxOps = 3
    MaxNow = 3
INVARIANTS NeverSleepsOnDueBatch ReadyAtDeadline MovesMatched
PROPERTY PlanCovers
CHECK_DEADLOCK FALSE
