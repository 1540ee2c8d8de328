CONSTANTS
    r1 = r1
    r2 = r2
    alice = alice
    bob = bob
    Requests = {r1, r2}
    Users = {alice, bob}
    Requester <- MCRequester
    QueueCapacity = 1
    MaxClicks = 1
    MaxRestarts = 1
SPECIFICATION Spec
INVARIANTS ApprovedAsShown
