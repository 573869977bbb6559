SPECIFICATION StoreSpec
CONSTANTS
    ann = ann
    ben = ben
    Sessions <- MCSessions
    Limit = 2
    MaxMinute = 1
    Budgets <- MCBudgets
INVARIANTS StoreTypeOK Forgotten
PROPERTY LimitHolds
SYMMETRY SessionSymmetry
CHECK_DEADLOCK FALSE
