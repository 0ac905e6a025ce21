\* Overlapping vote requests on a fixed order; no symmetry, which liveness
\* checking does not allow.
SPECIFICATION FairVoteSpec
CONSTANTS
    Users = {u1, u2, u3}
    Rooms = {r1}
    Votes = {v1, v2}
    Ballots = {b1, b2}
    MaxRequests = 5
    Founder = u1
    None = None
    Uni = Uni
    Offline = {}
    Tips = {}      \* nobody checks the order: see README, bounds
    MaxMenus = 1
    UniversityOf <- MCUniversityOf
\* A room really can be stuck: see README, "What a vote can do to a room".
CHECK_DEADLOCK FALSE
INVARIANTS
    StartedCallsHaveEveryVoice
    AnsweredVotesAreFinished
    OneOpenVoteUnlessCrowded
PROPERTY
    PassedVoteTakesEffectUnlessLost
