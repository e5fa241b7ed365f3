SPECIFICATION Spec
CONSTANTS
    None = None
    Calls = {c1, c2}
    alice = alice
    transfer = transfer
    other = other
    wallet = wallet
    clone = clone
    Clients = {wallet, clone}
    Signers = {alice}
    Lanes = {None, 0}
    Payloads = {transfer}
    Panicking = {}
    Requests <- MixedRequests
    InitNonce <- StartNonces
    FinalityLag = 2
    Retries = 1
    MaxFaults = 2
    Silent = TRUE
    RecognisesResend = TRUE
INVARIANTS
    TypeOK
    AtMostOnce
    InvalidNonceNeverLands
    SuccessesAreDistinct
PROPERTIES
    CacheNeverGoesBack
    KeepsPromise
