SPECIFICATION Spec
CONSTANTS
    Models = {"o", "p", "h"}
    FamilyOf <- Family
    Tools = {"Read"}
    Lines <- SomeLines
    MaxLines = 4
INVARIANTS
    TypeOK
    TurnsAddUp
    CostsAddUp
    SpanCovered
    ModelsInOrder
PROPERTIES
    NeverTakesBack
\* a file ends
CHECK_DEADLOCK FALSE
