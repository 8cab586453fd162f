CONSTANTS
    x1 = x1 x2 = x2 y1 = y1 y2 = y2 z1 = z1 z2 = z2
    Person <- X
    Call <- Y
    Workspace = {w1}
    Administrator <- X
    Visitor <- Y
    Link <- Z
    MaxDays = 1
    MaxOwnerIds = 2
    KeyOwner <- X
    KeyRequest <- Y
    GitKey <- Y
    MaxKeyId = 4
    MaxLinks = 2
    Session <- X
    Sid <- Y
    MaxAge = 1
    MaxClock = 1
    MaxRefresh = 3
    MaxTokens = 1
SPECIFICATION AccessSpec
SYMMETRY Interchangeable
INVARIANTS OneOwnerId LinksOwnAccount
PROPERTIES  RevocationFinal
CHECK_DEADLOCK FALSE
