CONSTANTS
    Agents = {a1}
    Expiry = 0
    Polls = {p1}
    LocalOps = {}
    MaxVersion = 2
SPECIFICATION FairSpec
PROPERTY
    KillEnforced
