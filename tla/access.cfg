SPECIFICATION AccessSpec
CONSTANTS
    MaxChanges = 2
    Grants <- SmallGrants
INVARIANTS
    AdmittedWasEntitled
    EntitledIsAdmitted
    RefusalTellsWhy
CHECK_DEADLOCK FALSE
