CONSTANTS
    KeyOwner = {o1, o2}
    KeyRequest = {q1, q2}
    GitKey = {g1}
    MaxKeyId = 4
    MaxLinks = 1
SPECIFICATION GitAccessSpec
INVARIANTS KeyUnique
