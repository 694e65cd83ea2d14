\* Up to three starts, two crashes anywhere, and two administrative calls.
SPECIFICATION FairSpec
CONSTANTS
    c1 = c1
    c2 = c2
    main = main
    human = human
    nMain = nMain
    nHuman = nHuman
    docker = docker
    proxy = proxy
    dashboard = dashboard
    moved = moved
    Channels = {c1, c2}
    Agents = {main, human}
    Names = {nMain, nHuman, nOther}
    Absent = Absent
    NoAgent = NoAgent
    Plan <- MCPlan
    PlanName <- MCPlanName
    Human = human
    Templates = {docker, proxy}
    Urls = {dashboard, moved}
    Environments <- MCEnvironments
    Roles = {"member"}
    NoUrl = NoUrl
    MaxCrashes = 2
    MaxCalls = 2
PROPERTIES
    BootstrapNeverDeletes
    ServesConfigured
    SecondStartChangesNothing
    EventuallyServes
CHECK_DEADLOCK FALSE
