SPECIFICATION Spec
CONSTANTS
    Names = {alice, bob}
    Pinned = {bob}
    Keys = {k1, k2}
    MaxEdits = 3
    MaxKeyEdits = 2
    None = none
    Raised = raised
PROPERTY
    UnreadableKeyIsSkipped
