SPECIFICATION Spec
CONSTANTS
    a = a
    m = m
    n = n
    Users = {a, m, n}
    Admins = {a}
    Operators = {a}
    Nobody = Nobody
    Resources = {1, 2, 3, 4, 5, 6, 7, 8}
    Kind <- KindOf
    Address <- AddressOf
    Bounds <- Scenarios
INVARIANTS OwnerIsMember IdentityKept
PROPERTIES ManagerKept
CHECK_DEADLOCK FALSE
