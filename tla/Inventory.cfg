CONSTANTS
    Fills = {f1, f2, f3}
    Trades <- MCTrades
    Prices = {1, 2}
    Bases = {1}
    MaxDrops = 1
SPECIFICATION FairSpec
INVARIANTS TypeOK LotsMatchPosition
PROPERTIES IsLedger Converges
