SPECIFICATION Spec
CONSTANTS
    Names = {alice, bob}
    Pinned = {bob}
    Keys = {k1, k2}
    MaxEdits = 3
    MaxKeyEdits = 1
    None = none
    Raised = raised
SYMMETRY KeySymmetry
INVARIANT
    TypeOK
PROPERTIES
    RevokedIsOut
    EnrolledIsIn
