\* A user without a socket joins a room that is all ready.
SPECIFICATION Spec
CONSTANTS
    Users = {u1, u2, u3}
    Rooms = {r1}
    Votes = {}
    None = None
    Uni = Uni
    Offline = {u3}
    Tips = {5}
    MaxMenus = 1
    UniversityOf <- MCUniversityOf
CHECK_DEADLOCK FALSE
INVARIANT
    AnnouncedIsPhase
