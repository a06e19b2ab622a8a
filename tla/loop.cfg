SPECIFICATION Spec

CONSTANTS
    root = root
    sub = sub
    None = None
    Dirs = {root, sub}
    Root = root
    Parent <- ParentOf
    EventCap = 2
    Debounce = 1

INVARIANT TypeOK
INVARIANT NoticedIsOnItsWay
INVARIANT AtMostOnePassAfterPause
PROPERTY BurstsAreCut
PROPERTY DoesItsDuty
CHECK_DEADLOCK FALSE
