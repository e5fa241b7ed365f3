SPECIFICATION Spec
CONSTANTS
    None = None
    Calls = {c1, c2, c3, c4}
    alice = alice
    transfer = transfer
    other = other
    wallet = wallet
    clone = clone
    Clients = {wallet}
    Signers = {alice}
    Lanes = {None}
    Payloads = {transfer}
    Panicking = {}
    Requests <- MonotonicRequests
    InitNonce <- StartNonces
    FinalityLag = 0
    Retries = 0
    MaxFaults = 0
    Silent = FALSE
    RecognisesResend = TRUE
SYMMETRY CallSymmetry
INVARIANT CollisionsNeverSurface
