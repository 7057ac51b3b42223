CONSTANTS
    T1 = T1
    T2 = T2
    V1 = V1
    V2 = V2
    Tables = {T1, T2}
    Values = {V1, V2}
    NoTable = NoTable
    Disconnected = Disconnected
    Plan <- MCPlan
    NumConns = 2
    MaxSpins = 2
    EngineFaults = {"io"}

SPECIFICATION Spec
\* The simulation stops when the plan is done, an assertion fails or the
\* engine panics.
CHECK_DEADLOCK FALSE

PROPERTY PanicsOnlyOnReopen
