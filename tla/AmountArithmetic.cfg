SPECIFICATION AmountSpec
CONSTANTS
    Radix = 2
    NearScale = 4
    DustScale = 2
    GasScale = 3
    usdt = usdt
    wnear = wnear
    coin = coin
    Tokens = {usdt, wnear, coin}
    Spaced = {coin}
    Decimals <- SmallDecimals
    Limit = 40
CHECK_DEADLOCK FALSE
INVARIANTS
    ShownReadsBack
    UnitsKeptApart
