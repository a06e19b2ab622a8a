SPECIFICATION Spec

CONSTANTS
    a = a
    b = b
    p1 = p1
    p2 = p2
    loop = loop
    kick = kick
    Torn = Torn
    NoHash = NoHash
    None = None
    Contents = {a, b}
    Paths = {p1, p2}
    Hidden = {p2}
    Passes = {loop}
    Env <- SoleWriter

INVARIANT RowMirrorsObject
INVARIANT NoConflict
PROPERTY FilesLeftAlone
