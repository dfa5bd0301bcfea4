SPECIFICATION EventSpec
CONSTANTS
    Thread = {t1, t2, n1}
    Waiter = {t1, t2}
    Notifier = {n1}
    Addr = {a1}
    Event = a1
    Last = 1
    Pending = {0}
    Word = {0, 1}
    EntryId = {e1, e2, e3}
    MaxCount = 2
    None = None
INVARIANTS NoLostWakeup CreditsHaveRunners
PROPERTY EventDelivered
