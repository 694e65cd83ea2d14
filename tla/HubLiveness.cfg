\* One send in any mode runs to its end.
SPECIFICATION FairSpec
CONSTANTS
    human = human
    alice = alice
    bob = bob
    c1 = c1
    o1 = o1
    o2 = o2
    Channels = {c1}
    Objects = {o1, o2}
    Agents = {human, alice, bob}
    Requests = {r1}
    Hooks = {h1}
    Broken = {h1}
    NoChannel = NoChannel
    NoObject = NoObject
    NoAgent = NoAgent
    Boot <- MCBoot
    BootMembers <- MCBootMembers
    Human = human
    Modes = {"blocking", "async", "stream"}
    Senders = {human, alice}
    Recipients = {NoAgent}
    Outcomes = {"text", "error"}
    Profiles <- MCProfiles
    Pausing = TRUE
    MaxStoreOps = 2
PROPERTIES
    SendsEnd
    BackgroundDrains
    HearsEveryTarget
CHECK_DEADLOCK FALSE
