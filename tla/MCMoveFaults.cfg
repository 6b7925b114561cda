SPECIFICATION Spec
SYMMETRY Interchangeable
CONSTANTS
    a1 = a1
    Windows = {w1, w2}
    AutoOps = {o1}
    ManualOps = {m1}
    Apps = {a1}
    AppOf <- OneApp
    MaxJobs = 3
    MaxPosts = 1
    MaxAttempts = 1
    MaxIndeterminate = 1
    MaxUnresolved = 2
    MaxNoProgress = 1
    Faults = {"alloc", "settimer", "throw", "post"}
    NoGuard = NoGuard
    Picker = Picker
    NoOp = NoOp
INVARIANTS TypeOK MoverHoldsGuard NoLeakedGuard OneMoveInFlight DeferredHeartbeatHasGuard OperationsFollowJobs NothingIsStranded
PROPERTIES IssueIsAuthorised ImplementsContract
