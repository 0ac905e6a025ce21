\* A kick vote asks a member who has left.
SPECIFICATION Spec
CONSTANTS
    Users = {u1, u2, u3}
    Rooms = {r1}
    Votes = {v1}
    None = None
    Uni = Uni
    Offline = {}
    Tips = {5}
    MaxMenus = 1
    UniversityOf <- MCUniversityOf
CHECK_DEADLOCK FALSE
PROPERTY
    KickVotersParticipate
