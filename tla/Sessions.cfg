SPECIFICATION SessFairSpec
CONSTANTS
    s1 = s1
    s2 = s2
    Session = {s1, s2}
    Launch <- MCLaunch
    MaxSessions = 1
    MaxBatch = 2
INVARIANTS HandshakeAgrees ChannelsOutliveSends BatchesReachMirrors
PROPERTY StopEnds
CHECK_DEADLOCK FALSE
