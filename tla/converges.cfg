SPECIFICATION FairSpec

CONSTANTS
    a = a
    b = b
    p1 = p1
    p2 = p2
    loop = loop
    kick = kick
    Torn = Torn
    NoHash = NoHash
    None = None
    Contents = {a, b}
    Paths = {p1}
    Hidden <- NoHidden
    Passes = {loop}
    Env <- NothingSkipped

PROPERTY Converges
