\* Two users and one room, with its listeners.
SPECIFICATION EventsSpec
CONSTANTS
    u1 = u1
    u2 = u2
    s1 = s1
    s2 = s2
    s3 = s3
    Users = {u1, u2}
    Rooms = {r1}
    Votes = {}
    None = None
    Uni = Uni
    Offline = {}
    Tips = {5}
    MaxMenus = 1
    MaxRunning = 3
    Subscribers = {u1}
    MaxStays = 3
    Sockets = {s1, s2, s3}
    UniversityOf <- MCUniversityOf
    OwnerOf <- MCOwnerOf
\* Everybody may have left.
CHECK_DEADLOCK FALSE
INVARIANTS
    EventsTypeOK
    RemovedRoomLeavesFeed
    FeedShowsOpenRooms
    StaysFollowParticipants
    ParticipantsHear
    BannedDoNotHear
    ParticipantsHaveTheNews
