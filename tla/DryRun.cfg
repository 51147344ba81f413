CONSTANTS
    Spread = 1
    MaxSpread = 2
    Spacing = 60
    Levels = 2
    Bps = 100
    SkewNum = 1
    SkewDen = 2
    VolTarget = 1
    MaxPosition = 2
    OrderSize = 3
    SizeStep = 2
    Quanta = {1, 10}
    Whole = 10
    SigFig = 10
    Mids = {17, 20}
    Vols = {0, 3}
    Tolerance = 1
    NoOrder = NoOrder
    Free = Free
SPECIFICATION FairSpec
INVARIANTS TypeOK BooksAgree OverlapBounded PositionBounded
PROPERTIES StopsBuying
