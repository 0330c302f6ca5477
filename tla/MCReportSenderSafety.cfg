SPECIFICATION Spec
CONSTANTS
    Dispatches = {d1, d2}
    Repos = {r1}
    Codes = {c1}
    NoRepo = NoRepo
    NoCode = NoCode
    FaultKinds = {"transient", "permanent", "db", "crash"}
    MaxFaults = 2
INVARIANT SenderInv
INVARIANT AcceptedBeforeLifecycle
SYMMETRY Symmetry
