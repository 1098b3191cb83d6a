\* The smallest account: one upload and no job under way.
SPECIFICATION Spec

CONSTANTS
    Uploads = {u1}
    Completions = {c1}
    Requests = {r1}
    Keys = {"k1"}
    MaxActive = 1

PROPERTIES
    AccountPurged
