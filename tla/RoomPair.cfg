\* Two rooms over the same two users, who may delete themselves.
SPECIFICATION DeletionSpec
CONSTANTS
    Users = {u1, u2}
    Rooms = {r1, r2}
    Votes = {}
    None = None
    Uni = Uni
    Offline = {}
    Tips = {5}
    MaxMenus = 1
    UniversityOf <- MCUniversityOf
SYMMETRY MCSymmetry
INVARIANTS
    PurchaserHasOneRoom
    DeletedLeaveOpenRoomsAlone
    DeletedAccountsAreErased
