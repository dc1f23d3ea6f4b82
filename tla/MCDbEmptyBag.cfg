\* One user; the SELECT of items may fail.
SPECIFICATION Spec
CONSTANTS
    Users = {u1}
    Items = {i1}
    Values = {v1, v2}
    None = None
    Registered = {u1}
    FailingSelects = {"ITEM"}
INVARIANTS
    EmptyBagMeansNoItems
