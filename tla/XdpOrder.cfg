\* Handles as gen_xdp_multiprog can compose them: opened, not yet loaded.
CONSTANTS
    Prios = {0, 1}
    Names = {1, 2}
    Sizes = {1, 2}
    Tags = {1}
    Times = {1}
    Chains = {0, 4}
    MaxSlots = 10
    NumProgs = 3
    Shapes = {"opened"}

SPECIFICATION Spec

INVARIANT TypeOK
INVARIANT SlotsInSpecOrder
