CONSTANTS
    T1 = T1
    T2 = T2
    V1 = V1
    Tables = {T1, T2}
    Values = {V1}
    NoTable = NoTable
    Preds = {{V1}}
    MaxInteractions = 5
    Target <- MCTarget
    PropertyNames <- MCPropertiesNoDrop
    DisableReopenDatabase = FALSE

SPECIFICATION Spec
\* Generation stops once the plan holds max_interactions items.
CHECK_DEADLOCK FALSE

INVARIANT TypeOK
