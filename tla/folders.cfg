SPECIFICATION Spec

CONSTANTS
    Folders = {f1, f2, f3}
    Requests = {r1, r2}
    MaxChanges = 3
    None = None
    Garbled = Garbled

SYMMETRY Symmetry
INVARIANT TypeOK
INVARIANT EngineSeesWhatItStored
PROPERTY ObjectsLostOnlyInWindow
PROPERTY SavedAsInMemory
CHECK_DEADLOCK FALSE
