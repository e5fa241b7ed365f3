SPECIFICATION AsyncFairSpec
CONSTANTS
    None = None
    Calls = {c1, c2, c3}
    alice = alice
    transfer = transfer
    wallet = wallet
    Clients = {wallet}
    Signers = {alice}
    Lanes = {None}
    Payloads = {transfer}
    Panicking = {}
    Requests <- BothModes
    InitNonce <- StartNonces
    FinalityLag = 1
    Retries = 0
    MaxFaults = 0
    Silent = FALSE
    RecognisesResend = TRUE
INVARIANTS
    NoNonceReuse
    RejectionsAreCharged
    StrictExclusion
PROPERTIES
    KeepsPromise
    EveryCallEnds
