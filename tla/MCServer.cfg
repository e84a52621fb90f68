CONSTANTS
    root = root
    ann = ann
    shop = shop
    items = items
    star = star
    nobody = nobody
    none = none
    c1 = c1
    c2 = c2
    Threads = {c1, c2}
    Users = {root, ann}
    Databases = {shop}
    Tables = {items}
    Star = star
    Nobody = nobody
    NoDatabase = none
    Statements <- MCStatements
    AllPermissions <- MCAllPermissions
    Stores <- MCStores
    MaxFailures = 2
    MaxRequests = 4
    MaxAttempts = 2
    MaxKills = 1
SPECIFICATION Spec
INVARIANTS TypeOK FilesAreAsAsked AdmittedWasAllowed
SYMMETRY Symmetry
CHECK_DEADLOCK FALSE
