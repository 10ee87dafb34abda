CONSTANTS
    Keys = {alice, paula}
    ZeroAddr = zeroAddr
    StrayAddr = strayAddr
    Bodies = {none, pay}
    IncompleteBodies = {none}
    EmptyBody = none
    ChainIds = {4217}
    Tokens = {usd}
    NoToken = noToken
    KeyAuths = {}
    NoKeyAuth = noKeyAuth
    MaxSignings = 3
SYMMETRY KeySymmetry
SPECIFICATION Spec
PROPERTIES CountersignatureFits
