\* One upload, two overlapping completions, two requests that want it under two keys, all sweeps and the account's end.
SPECIFICATION Spec

CONSTANTS
    Uploads = {u1}
    Completions = {c1, c2}
    Requests = {r1, r2}
    Keys = {"k1", "k2"}
    MaxActive = 2

INVARIANTS
    InputsProtected
    NoForgottenObject

PROPERTIES
    UnusedObjectsGo
