SPECIFICATION Spec
CONSTANTS
    Networks = {"mainnet", "testnet"}
    Files <- CredentialFiles
    Utf8 <- TextBytes
    MaxNumber = 2147483647
    Sessions <- MCSessions
    Claims <- AllClaims
    Accounts <- AccountNames
    KeyData <- KeyBytes
    Hash <- BlockHash
    Random <- RandomBytes
    Skews <- ClockSkews
    MaxAge = 2
    MaxClock = 6
INVARIANTS
    SignatureMeansOneThing
    DomainsApart
    MessageLivesItsTime
    ReadOnlyForAReason
