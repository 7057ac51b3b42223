CONSTANTS
    Create1 = Create1
    Insert1 = Insert1
    Select1 = Select1
    Assert1 = Assert1
    Fault1 = Fault1
    Delete2 = Delete2
    Select2 = Select2
    Assert2 = Assert2
    Query3 = Query3
    Baseline <- MCBaseline
    Overlap <- MCOverlap
    AllowBlank = FALSE

SPECIFICATION Spec
CHECK_DEADLOCK FALSE

INVARIANT DiffMatchesEdit
