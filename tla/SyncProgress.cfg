SPECIFICATION MCSpec
CONSTANTS
    Threads = {t1, t2, t3}
    NoThread = NoThread
    MaxReaders = 4
    Tasks = {k1, k2}
    Waiters = {w1, w2}
    MaxAdds = 3
INVARIANTS MutualExclusion WaitSound
PROPERTIES LockProgress WaitProgress
