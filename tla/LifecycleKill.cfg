CONSTANTS
    Quotes = {q1, q2}
    Close = Close
    Suppresses = TRUE
SYMMETRY Symmetry
SPECIFICATION Spec
INVARIANTS KillCloses
