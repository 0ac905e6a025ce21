\* A second account for an address.
SPECIFICATION Spec
CONSTANTS
    Sessions = {s1, s2}
    Emails = {e1}
    OauthIds = {o1, o2}
    UserIds = {u1, u2}
    Requests = {q1}
    TrialLimit = 4
    None = None
CHECK_DEADLOCK FALSE
INVARIANT
    OneUserPerAddress
