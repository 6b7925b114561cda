SPECIFICATION TimedSpec
CONSTANTS
    a1 = a1
    a2 = a2
    save1 = save1
    save2 = save2
    restore1 = restore1
    auto1 = auto1
    search1 = search1
    probe1 = probe1
    Apps = {a1}
    AppOrder <- Order
    OpIds = {auto1, search1, restore1}
    KindOf <- Kinds1
    AppsOf <- Asked
    MaxChanges = 0
    Faults = {"alloc", "post", "refuse"}
    MayQuit = FALSE
    NoOp = NoOp
INVARIANTS EveryWaitIsRouted
PROPERTIES EveryOperationEnds
