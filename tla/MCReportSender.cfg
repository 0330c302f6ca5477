SPECIFICATION Spec
CONSTANTS
    Dispatches = {d1}
    Repos = {r1}
    Codes = {c1}
    NoRepo = NoRepo
    NoCode = NoCode
    FaultKinds = {"transient", "permanent", "crash", "amnesia"}
    MaxFaults = 3
PROPERTY Drained
