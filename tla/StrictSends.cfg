SPECIFICATION FairSpec
CONSTANTS
    None = None
    Calls = {c1, c2, c3}
    alice = alice
    transfer = transfer
    other = other
    wallet = wallet
    clone = clone
    Clients = {wallet}
    Signers = {alice}
    Lanes = {None}
    Payloads = {transfer, other}
    Panicking = {other}
    Requests <- StrictRequests
    InitNonce <- StartNonces
    FinalityLag = 1
    Retries = 1
    MaxFaults = 2
    Silent = TRUE
    RecognisesResend = TRUE
INVARIANT StrictTakesTurns
PROPERTY EveryCallEnds
