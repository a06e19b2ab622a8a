SPECIFICATION Spec

CONSTANTS
    a = a
    b = b
    p1 = p1
    p2 = p2
    loop = loop
    kick = kick
    Torn = Torn
    NoHash = NoHash
    None = None
    Contents = {a, b}
    Paths = {p1, p2}
    Hidden <- NoHidden
    Passes = {loop}
    Env <- OneAtATime

SYMMETRY Symmetry
INVARIANT ObjectHashMatchesBody
INVARIANT QueueReportsWork
INVARIANT DeletionFollowsDeletion
PROPERTY NoSilentLocalOverwrite
PROPERTY NoSilentRemoteOverwrite
PROPERTY ActsOnTheMoment
PROPERTY FinishedPassSettles
