\* Four administrative calls, on two channel ids.
SPECIFICATION Spec
CONSTANTS
    c1 = c1
    o1 = o1
    alice = alice
    Channels = {c1, c2}
    Objects = {o1, o2, o3}
    Agents = {alice, bob}
    Requests = {}
    Hooks = {h1, h2}
    Calls = {q1, q2, q3, q4}
    Profiles <- MCProfiles
    NoChannel = NoChannel
    NoObject = NoObject
    NoAgent = NoAgent
    Boot <- MCBoot
    BootMembers <- MCBootMembers
SYMMETRY Interchangeable
INVARIANTS
    TypeOK
    AtomicUnlessStale
PROPERTIES
    OnlyPatchRevives
    ImplementsStore
CHECK_DEADLOCK FALSE
