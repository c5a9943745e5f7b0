SPECIFICATION Spec
CONSTANTS
    f1 = f1
    f2 = f2
    x = x
    y = y
    Frame = {f1, f2}
    Channel = {x, y}
    Programs <- PassPrograms
    MaxAddr = 3
    MaxTriggers = 3
    Spare = {"dom", "general", "var_ins"}
    MaxPosts = 4
INVARIANTS
    WellFormed
    StatusIsTrue
    NothingLost
    InPostingOrder
CHECK_DEADLOCK FALSE
