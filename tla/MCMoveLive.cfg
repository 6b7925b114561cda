SPECIFICATION FairSpec
CONSTANTS
    a1 = a1
    Windows = {w1}
    AutoOps = {o1}
    ManualOps = {m1, m2}
    Apps = {a1}
    AppOf <- OneApp
    MaxJobs = 3
    MaxPosts = 1
    MaxAttempts = 2
    MaxIndeterminate = 2
    MaxUnresolved = 2
    MaxNoProgress = 1
    Faults = {}
    NoGuard = NoGuard
    Picker = Picker
    NoOp = NoOp
PROPERTIES EverythingSettles
