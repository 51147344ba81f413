\* No suppressed QuoteSet: a deployment in which the widest spread the
\* volatility multiplier gives stays below max_spread_bps.
CONSTANTS
    Orders = {o1, o2}
    Leftover = {o1}
    Quotes <- OneQuote
    Tolerance = 0
    FullSize = 2
    MaxQuotes = 1
    Suppresses = FALSE
    NoOrder = NoOrder
    NoQuote = NoQuote
    Free = Free
SPECIFICATION FairSpec
INVARIANTS TypeOK Exclusive EndsOnce
PROPERTIES GhostDropped CancelAllCompletes
