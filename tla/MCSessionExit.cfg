SPECIFICATION ThreadedSpec
CONSTANTS
    a1 = a1
    a2 = a2
    save1 = save1
    save2 = save2
    restore1 = restore1
    auto1 = auto1
    search1 = search1
    probe1 = probe1
    Apps = {a1, a2}
    AppOrder <- Order
    OpIds = {save1, save2}
    KindOf <- Kinds1
    AppsOf <- Asked
    MaxChanges = 1
    Faults = {}
    MayQuit = TRUE
    NoOp = NoOp
INVARIANTS ManualWorkIsServed RequestsAreAnswered NoLostWakeup SaveIsComplete
PROPERTIES ExitIsClean
