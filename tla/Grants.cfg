CONSTANTS
    alice = alice
    bob = bob
    Subjects = {alice, bob}
    Creator = alice
    Handlers = {h1, h2}
    Document = Document
    GrantRoles = {0, 1, 4}
    Needs = {3}
    Cold = Cold
    MaxSets = 2
    MaxRestarts = 1
    MaxFaults = 1
    MaxMailbox = 2

SYMMETRY HandlerSymmetry

SPECIFICATION Spec

INVARIANTS
    TypeOK
    OwnerRemains
    SafeUnlessStraddled

CHECK_DEADLOCK FALSE
