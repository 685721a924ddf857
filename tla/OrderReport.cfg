SPECIFICATION RSpec
CONSTANTS
    Price = {1, 2, 3}
    Units = {1, 2}
    MaxBook = 5
INVARIANTS
    BestIsFirst
    ReportExact
