\* Partial fills, and QuoteSets the engine suppressed.
CONSTANTS
    Orders = {o1, o2}
    Leftover = {o1}
    Quotes <- Bids
    Tolerance = 1
    FullSize = 2
    MaxQuotes = 2
    Suppresses = TRUE
    NoOrder = NoOrder
    NoQuote = NoQuote
    Free = Free
SYMMETRY Symmetry
VIEW Uncounted
SPECIFICATION Spec
INVARIANTS NoOrphan OneOrderPerLevel NoGhost
