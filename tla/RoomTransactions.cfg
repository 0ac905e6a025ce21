\* Two overlapping calls on a room of up to three.
SPECIFICATION Spec
CONSTANTS
    Users = {u1, u2, u3}
    Founder = u1
    Calls = {c1, c2}
    None = None
    Uni = Uni
    Tip = 5
    UniversityOf <- MCUniversityOf
SYMMETRY MCSymmetry
INVARIANTS
    TypeOK
    BlacklistedAreBanned
PROPERTIES
    NobodyEntersAfterFix
    FixedFromAllReady
    ComeAndGoByOwnCalls
