\* A PATCH of a channel against the messages SQLite holds.
SPECIFICATION Spec
CONSTANTS
    sameId = sameId
    Channels = {c1}
    Objects = {o1}
    Agents = {alice}
    Names = {n1}
    Patches = {p1}
    Ids = {hookId}
    HookId <- MCHookId
    hookId = hookId
    Requests = {r1}
    Hooks = {h1}
    Profiles <- MCProfiles
    NoChannel = NoChannel
    NoObject = NoObject
    NoAgent = NoAgent
    Absent = Absent
    Boot <- MCBoot
    BootMembers <- MCBootMembers
    ChosenId <- MCChosenId
    MaxSteps = 5
PROPERTY SqlitePatchKeepsHistory
CHECK_DEADLOCK FALSE
