CONSTANTS
    Users = {u1, u2}
    Requests = {r1, r2}
    NumInvites = 2
    MaxRequests = 5
SPECIFICATION Spec
SYMMETRY Interchangeable
PROPERTIES OwnerlessByFormOrRace AdminsSpareOwners DeactivationSticks InviteSettlesOnce
CHECK_DEADLOCK FALSE
