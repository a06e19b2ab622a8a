SPECIFICATION Spec
CONSTANTS
    svc = svc
    ui = ui
    Procs = {svc, ui}
    Port <- SamePort
    Tokens = {t1, t2}
    Passphrases = {p1, p2}
    Draws = {d1, d2}
    None = None
    Torn = Torn
INVARIANTS TypeOK EitherSecretOpens OneMasterForAll RememberedOpens UnlockedHasEngine NeverHalfUnlocked ClientsGetIn
SYMMETRY Alike
