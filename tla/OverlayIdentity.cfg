\* Identity deletion, with failures only.
SPECIFICATION Spec
CONSTANTS
    Missing = Missing
    None = None
    Foreign = {f}
    Contents = {"old", "older", "new"}
    Paths <- Files
    Plans <- IdentityPlans
    MaxMeddles = 0
    MaxFailures = 2
PROPERTIES
    GivesUpOnlyOnFailure
CHECK_DEADLOCK FALSE
