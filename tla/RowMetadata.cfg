\* One row of the user, two loads, and a clock that moves by a minute.
CONSTANTS
    Null = Null
    Names = {x}
    Strings = {s}
    Sizes = {0, 1}
    Times = {1}
    MaxTime = 2
    MaxLoads = 2
SPECIFICATION Spec
INVARIANT MetadataStable
