SPECIFICATION MCSpec
CONSTANTS
    Browser = {b1, b2}
    Tab = {tab1, tab2, tab3}
    home <- TabHome
    Login = {n1, n2}
    Faults = {"disk", "lost", "restart", "idp"}
    EndSessionEndpoint = TRUE
    None = None
    B1 = b1
    B2 = b2
    Tab1 = tab1
    Tab2 = tab2
    Tab3 = tab3
    Client = {c1}
    NoClient = NoClient
    AgentReq = {r1}
    Tokens <- SomeTokens
    Body <- Bodies
    AgentFaults <- SavesOrDamage
    TooLarge = TooLarge
    TokenLife = 3
    TouchInterval = 2
    Retention = 2
    agentRegistrarCap = 1
    MaxClock = 4
    MaxBackground = 1
    Corrupt = Corrupt
SYMMETRY Symm
INVARIANTS TypesOK SignInIsOwn FailureHasCause LogoutReachesProvider
PROPERTIES RevocationHolds AuthorizedIsListed
CHECK_DEADLOCK FALSE
