SPECIFICATION Spec
CONSTANTS
    x1 = x1
    x2 = x2
    a1 = a1
    a2 = a2
    n1 = n1
    Requests = {x1, x2}
    Agents = {a1, a2}
    Names = {n1}
    Nobody = Nobody
    MaxIds = 2
    MaxWrites = 3
    MaxGrants = 2
    PageSize = 1
    Ops = {"create", "update", "put", "delete", "secret_delete", "grant", "get", "list"}
SYMMETRY Slots
CHECK_DEADLOCK FALSE
INVARIANT SecretsConsistent
INVARIANT ReadsSound
PROPERTY ImplementsSecretStore
