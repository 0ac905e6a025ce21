\* A call that began before fixOrder writes the phase after it.
SPECIFICATION Spec
CONSTANTS
    Users = {u1, u2, u3}
    Founder = u1
    Calls = {c1, c2}
    None = None
    Uni = Uni
    Tip = 5
    UniversityOf <- MCUniversityOf
PROPERTY
    FixedOrderStaysFixed
