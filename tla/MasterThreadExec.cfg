\* A protocol plugin thread, that closing its connection cancels at any point, and the
\* SFTP task thread, whose function opens a dialog and that is never cancelled.
SPECIFICATION FairSpec
CONSTANTS
    Threads = {plugin, sftp}
    Cancellable = {plugin}
    Async = {plugin}
    Nesting = {sftp}
    NoThread = NoThread
INVARIANTS
    TypeOK
    NoDangling
    ReturnIsLast
    MainNeverStuck
PROPERTIES
    ImplementsMainCall
    CallReturns
CHECK_DEADLOCK FALSE
