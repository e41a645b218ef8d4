SPECIFICATION Spec
CONSTANTS
    Requests = {r1, r2}
    Senders = {}
    MaxVersion = 3
INVARIANTS
    DeliveredLinksWork
