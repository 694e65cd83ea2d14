\* Two concurrent sends in any mode, and one storage operation.
SPECIFICATION Spec
CONSTANTS
    human = human
    alice = alice
    bob = bob
    c1 = c1
    o1 = o1
    o2 = o2
    Channels = {c1}
    Objects = {o1, o2}
    Agents = {human, alice, bob}
    Requests = {r1, r2}
    Hooks = {h1}
    Broken = {h1}
    NoChannel = NoChannel
    NoObject = NoObject
    NoAgent = NoAgent
    Boot <- MCBoot
    BootMembers <- MCBootMembers
    Human = human
    Modes = {"blocking", "async", "stream"}
    Senders = {human}
    Recipients = {NoAgent}
    Outcomes = {"text", "error"}
    Profiles <- MCProfiles
    Pausing = TRUE
    MaxStoreOps = 1
SYMMETRY Interchangeable
INVARIANTS
    FanOutPartition
    RepliesAreKeptAnswers
    HistoryOrder
    RepliesFitTheEnd
    CountIsCompletedBroadcasts
    ClosedIsQuiet
PROPERTIES
    ImplementsBroadcast
CHECK_DEADLOCK FALSE
