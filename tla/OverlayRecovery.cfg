\* Every change, with crashes, two failures and one foreign write.
SPECIFICATION Spec
CONSTANTS
    Missing = Missing
    None = None
    Foreign = {f}
    Contents = {"old", "older", "new"}
    Paths <- Files
    Plans <- AllPlans
    MaxMeddles = 1
    MaxFailures = 2
INVARIANTS
    AttemptsJournalled
    JournalTruthful
    OriginalsKept
    NewMountsWhole
PROPERTIES
    ChangeSpec
    ForeignSpared
    ConfirmedGivesUpOnlyOnFailure
CHECK_DEADLOCK FALSE
