CONSTANTS
    p1 = p1
    p2 = p2
    Procs <- MCProcs
    Other = Other
    None = None
    MaxProgs = 2
    NativeOK = TRUE
    Modes = {"skb", "native", "unspec"}
    Forces = {TRUE, FALSE}

SPECIFICATION Spec

PROPERTY StateMachineRefined
