CONSTANTS
    e1 = e1
    e2 = e2
    e3 = e3
    Entries <- MCEntries
    LineSize <- MCLineSize
    MaxFileSize = 2
SPECIFICATION FairSpec
\* The logger is destroyed and the writer has gone, or sleeps for good.
CHECK_DEADLOCK FALSE
INVARIANTS TypeOK FlushKeepsItsPromise NothingLeftBehind
PROPERTIES ImplementsAccessLog EveryEntryEnds FlushReturns
