SPECIFICATION Spec
CONSTANTS
    Requests = {r1, r2}
    Senders = {a1, a2}
    MaxVersion = 4
SYMMETRY PartySymmetry
INVARIANTS
    TypeOK
    OldLinksAreDead
    SubscribeTakes
