SPECIFICATION Spec

CONSTANTS
    Folders = {f1, f2, f3}
    Requests = {r1}
    MaxChanges = 1
    None = None
    Garbled = Garbled

SYMMETRY Symmetry
PROPERTY OthersKeepTheirObjects
CHECK_DEADLOCK FALSE
