\* The three backends under up to seven calls.
SPECIFICATION Spec
CONSTANTS
    sameId = sameId
    Channels = {c1, c2}
    Objects = {o1, o2, o3}
    Agents = {alice, bob}
    Names = {n1, n2}
    Patches = {p1}
    Ids = {hookId}
    HookId <- MCHookId
    hookId = hookId
    Requests = {r1, r2}
    Hooks = {h1, h2}
    Profiles <- MCProfiles
    NoChannel = NoChannel
    NoObject = NoObject
    NoAgent = NoAgent
    Absent = Absent
    Boot <- MCBoot
    BootMembers <- MCBootMembers
    ChosenId <- MCChosenId
    MaxSteps = 7
SYMMETRY Interchangeable
INVARIANTS
    SqliteKeepsMembers
    GraphCoversMembers
    HistorySandwich
    WebhooksNested
    PagesCoverHistory
CHECK_DEADLOCK FALSE
