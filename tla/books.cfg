SPECIFICATION Spec
CONSTANTS
  Tracks = {t1, t2}
  MaxCopies = 1
  Handlers = {h1, h2}
  None = None
SYMMETRY Symmetry
CONSTRAINT ShortQueue
INVARIANTS BooksAreTruthful ReadyIsWatchable
PROPERTY BooksOnlyGrow
CHECK_DEADLOCK FALSE
