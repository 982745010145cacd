\* Handles of every shape a caller can build: opened, loaded, or by id.
CONSTANTS
    Prios = {0}
    Names = {1}
    Sizes = {1, 2}
    Tags = {1, 2, 3}
    Times = {1, 2, 3}
    Chains = {4}
    MaxSlots = 10
    NumProgs = 3
    Shapes = {"opened", "loaded", "by_id"}

SPECIFICATION Spec

INVARIANT SortDeterministic
