SPECIFICATION ProvSpec
CONSTANTS
    admin = admin
    e1 = e1
    c1 = c1
    Emails = {admin, e1}
    Admin = admin
    Clients = {c1}
    Plans = {{admin, "again"}, {e1}}
    Demo = TRUE
    MaxRuns = 2
    MaxSecrets = 2
CHECK_DEADLOCK FALSE
INVARIANT SeedRepairs
INVARIANT OperatorsConsistent
PROPERTY ChosenPasswordKept
