CONSTANTS
    MiB = 8
    Limits <- MCLimits
    ClampMins <- MCClampMins
    ClampMaxs <- MCClampMaxs
    Wants <- MCWants
SPECIFICATION Spec
INVARIANTS MTypeOK BudgetUsedUp NoPanic CachesKeepShare
