SPECIFICATION CallSpec
CONSTANTS
    None = None
    Retries = 2
    Statuses <- StatusSample
    Names <- NameSample
    Lag = 1
    MaxHeight = 2
    MaxReceipts = 2
INVARIANTS
    DecisionEndsCall
    RejectedNonceIsReported
    TransientOnlyWhenSpent
    ExistsIsTrue
    MissingKeyIsNamed
    ReadsOwnWrites
    FirstFailureIsReported
    ForeignErrorsHaveACause
