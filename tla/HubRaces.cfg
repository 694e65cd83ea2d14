\* One send in every mode, against up to three storage operations.
SPECIFICATION Spec
CONSTANTS
    human = human
    alice = alice
    bob = bob
    c1 = c1
    o1 = o1
    o2 = o2
    Channels = {c1}
    Objects = {o1, o2}
    Agents = {human, alice, bob}
    Requests = {r1}
    Hooks = {h1, h2}
    Broken = {h2}
    NoChannel = NoChannel
    NoObject = NoObject
    NoAgent = NoAgent
    Boot <- MCBoot
    BootMembers <- MCBootMembers
    Human = human
    Modes = {"blocking", "async", "stream"}
    Senders = {human, alice, NoAgent}
    Recipients = {NoAgent, bob}
    Outcomes = {"text", "blank"}
    Profiles <- MCProfiles
    Pausing = FALSE
    MaxStoreOps = 3
INVARIANTS
    TypeOK
    NoEcho
    TasksComeLate
    RepliesFitTheEnd
PROPERTIES
    HistoryOnlyGrows
    StoredIsPosted
CHECK_DEADLOCK FALSE
