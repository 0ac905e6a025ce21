\* A member gets ready in two rooms, and both are ordered.
SPECIFICATION Spec
CONSTANTS
    Users = {u1, u2, u3}
    Rooms = {r1, r2}
    Votes = {}
    None = None
    Uni = Uni
    Offline = {}
    Tips = {5}
    MaxMenus = 1
    UniversityOf <- MCUniversityOf
CHECK_DEADLOCK FALSE
INVARIANT
    OneRoomInProgress
