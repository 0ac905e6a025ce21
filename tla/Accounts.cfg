\* Two sign-ups with one address, overlapping requests, deletion and login.
SPECIFICATION Spec
CONSTANTS
    Sessions = {s1, s2}
    Emails = {e1}
    OauthIds = {o1, o2}
    UserIds = {u1, u2}
    Requests = {q1, q2}
    TrialLimit = 2
    None = None
SYMMETRY MCSymmetry
CHECK_DEADLOCK FALSE
INVARIANTS
    TypeOK
    LoginFindsLiveUser
    TrialLimitHolds
    OneUserPerSession
PROPERTIES
    TokensForLiveUsersOnly
