\* One room through its whole life, with votes.
SPECIFICATION Spec
CONSTANTS
    Users = {u1, u2, u3}
    Rooms = {r1}
    Votes = {v1, v2}
    None = None
    Uni = Uni
    Offline = {}
    Tips = {5}
    MaxMenus = 1
    UniversityOf <- MCUniversityOf
\* A room really can be stuck: see README, "What a vote can do to a room".
CHECK_DEADLOCK FALSE
SYMMETRY MCSymmetry
INVARIANTS
    TypeOK
    PhaseTellsReadiness
    FixedOrderIsReady
    BlacklistedStaysOut
    AnnouncedIsPhase
    OpenRoomHasPurchaser
    OneOpenVote
    TipIsShared
PROPERTIES
    OrderLosesMembersByVoteOnly
    OrderEndsDoneOrByReset
    ImplementsRoomLife
