SPECIFICATION FairSpec
CONSTANTS
    Thread = {t1, t2}
    Addr = {a1}
    Word = {0, 1}
    EntryId = {e1, e2}
    MaxCount = 2
    None = None
PROPERTY ShutdownInterruptsWaiters
