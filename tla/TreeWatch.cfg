SPECIFICATION TreeSpec
CONSTANTS
    d1 = d1
    d2 = d2
    f1 = f1
    Root = Root
    Dir = {d1, d2}
    File = {f1}
    Name = {"a", "b"}
    QueueCap = 6
    MaxExpanded = 1
    FirstDisk <- MCFirstDisk
    MaxChanges = 3
CHECK_DEADLOCK FALSE
INVARIANTS WatchesFollow MirrorFollows
