CONSTANTS
    Fills = {f1, f2}
    Trades <- MCTrades
    Prices = {1, 2}
    Bases = {0, 1}
    MaxDrops = 1
SPECIFICATION RepairSpec
PROPERTIES RepairsOnlyGaps
