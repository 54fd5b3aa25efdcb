CONSTANTS
    Agents = {a1}
    Expiry = 0
    Polls = {p1, p2}
    LocalOps = {"revoke", "clear", "blanket"}
    MaxVersion = 2
SPECIFICATION FairSpec
INVARIANTS
    TypeOK
    DecisionsFollowVersion
PROPERTIES
    Converges
