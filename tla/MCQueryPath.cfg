CONSTANTS
    absent = absent
    Absent = absent
    MaxInt = 2
    MaxId = 2
    Statements <- MCStatements
SPECIFICATION Spec
INVARIANTS
    TypeOK
PROPERTIES
    ImplementsQueryLanguage
