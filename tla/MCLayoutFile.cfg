SPECIFICATION Spec
SYMMETRY Interchangeable
CONSTANTS
    v1 = v1
    v2 = v2
    v3 = v3
    Versions <- MCVersions
    Missing = Missing
    Torn = Torn
    MaxTried = 2
INVARIANTS AcknowledgedSurvives PrimaryLossIsSurvived SavingGoesOn
PROPERTIES CopyIsPrior
