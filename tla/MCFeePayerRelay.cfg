CONSTANTS
    alice = alice
    paula = paula
    otherToken = otherToken
    ServerKey = server
    ServerToken = usd
    Keys = {alice, paula, server}
    ZeroAddr = zeroAddr
    StrayAddr = strayAddr
    Bodies <- MCBodies
    IncompleteBodies <- MCIncompleteBodies
    EmptyBody <- MCEmptyBody
    ChainIds = {0, 4217}
    Tokens = {usd, otherToken}
    NoToken = noToken
    KeyAuths = {}
    NoKeyAuth = noKeyAuth
    Requests = {r1, r2}
    NoId = noId
    ClientTxs <- MCClientTxs
    Nonce <- MCNonce
SPECIFICATION Spec
INVARIANTS TypeOK SponsoredRelayVerifies MinedAsSigned OnePaymentOneTransaction SuccessIsTrue NoFalseRejection
PROPERTIES EveryRequestAnswered ImplementsSponsorship
CHECK_DEADLOCK FALSE
