\* A channel is created again under its id while a send is in flight.
SPECIFICATION Spec
CONSTANTS
    human = human
    alice = alice
    bob = bob
    c1 = c1
    o1 = o1
    o2 = o2
    Channels = {c1}
    Objects = {o1, o2}
    Agents = {human, alice, bob}
    Requests = {r1}
    Hooks = {}
    Broken = {}
    NoChannel = NoChannel
    NoObject = NoObject
    NoAgent = NoAgent
    Boot <- MCBoot
    BootMembers <- MCBootMembers
    Human = human
    Modes = {"async"}
    Senders = {human, alice, NoAgent}
    Recipients = {NoAgent, bob}
    Outcomes = {"text", "blank"}
    Profiles <- MCProfiles
    Pausing = FALSE
    MaxStoreOps = 2
INVARIANT OneContextPerChannel
CHECK_DEADLOCK FALSE
