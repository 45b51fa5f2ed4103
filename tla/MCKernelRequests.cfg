CONSTANTS
    t1 = t1
    t2 = t2
    t3 = t3
    m1 = m1
    m2 = m2
    m3 = m3
    i1 = i1
    i2 = i2
    root = root
    Thread = {t1, t2, t3}
    Method = {m1, m2, m3}
    Invoker = {i1, i2}
    InvokerOf <- MCInvokerOf
    Root = root
SPECIFICATION FairSpec
INVARIANT
    RequestsSafety
PROPERTIES
    QueueStable
    DeferredIsDone
