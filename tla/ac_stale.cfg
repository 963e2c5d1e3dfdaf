SPECIFICATION Spec
CONSTANTS
    Users = {u1, u2}
    Files = {f1}
    Operations = {"delete"}
    Permissions = {"read", "delete"}
    Clients = {c1, c2}
    TTL = 2
    NoOwner = NoOwner
    MaxCreations = 2
    MaxFailures = 1
SYMMETRY ClientSymmetry
CHECK_DEADLOCK FALSE
INVARIANTS
    TypeOK
    WrongAnswersExpire
    InvalidatedAtOnce
PROPERTIES
    DeletionsAuthorized
