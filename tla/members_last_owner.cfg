CONSTANTS
    Users = {u1, u2}
    Requests = {r1}
    NumInvites = 1
    MaxRequests = 1
SPECIFICATION Spec
SYMMETRY Interchangeable
INVARIANTS LastOwnerStays
CHECK_DEADLOCK FALSE
