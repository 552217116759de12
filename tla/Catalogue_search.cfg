SPECIFICATION Spec
CONSTANTS
    dune = dune
    title = title
    number = number
    Books = {dune}
    Queries = {title, number}
    InTitle <- InTitle_1
    Known <- Known_1
    Isbn <- Isbn_1
    NoBook = NoBook
    Providers = {p1}
    Deriving = {}
    Callers = {c1, c2}
    Enough = 2
    MaxRequests = 3
    MaxOthers = 1
SYMMETRY Symmetry
INVARIANT TypeOK
INVARIANT AnswersStored
INVARIANT RowsPerBook
CHECK_DEADLOCK FALSE
