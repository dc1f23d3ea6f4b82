\* Two users, of whom one is not registered, with one item each; UPDATEs may fail
\* or lose their answer, and the SELECTs of passwords and players may fail.
SPECIFICATION Spec
CONSTANTS
    Users = {u1, u2}
    Items = {i1}
    Values = {v1, v2}
    None = None
    Registered = {u1}
    FailingSelects = {"PASS", "PLAYER"}
INVARIANTS
    DbTypeOK
    CacheIsDatabase
PROPERTY ImplementsStore
