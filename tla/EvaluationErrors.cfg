SPECIFICATION Spec
CONSTANTS
    plain = plain
    spaced = spaced
    other = other
    c1 = c1
    None = None
    Names <- MCNames
    Underscored <- MCUnderscored
    Consumers = {c1}
    Limit = 1
    MaxLaunches = 2
    MaxFaults = 1
INVARIANTS
    ErrorsExpire
CHECK_DEADLOCK FALSE
