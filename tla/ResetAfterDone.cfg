\* A reset that doVote started runs after the order is done.
SPECIFICATION Spec
CONSTANTS
    Users = {u1, u2}
    Rooms = {r1}
    Votes = {v1}
    None = None
    Uni = Uni
    Offline = {}
    Tips = {5}
    MaxMenus = 1
    UniversityOf <- MCUniversityOf
CHECK_DEADLOCK FALSE
PROPERTY
    DoneIsFinal
