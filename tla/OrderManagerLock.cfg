CONSTANTS
    Orders = {o1, o2, o3}
    Leftover = {o1}
    Quotes <- OneQuote
    Tolerance = 0
    FullSize = 1
    MaxQuotes = 1
    Suppresses = TRUE
    NoOrder = NoOrder
    NoQuote = NoQuote
    Free = Free
SYMMETRY Symmetry
SPECIFICATION Spec
INVARIANTS Exclusive
