SPECIFICATION Spec
CONSTANTS
    Users = {u1}
    Txers = {t1, t2}
    Conns = {c1, c2}
    First = c1
    MaxPrepares = 3
    Self = Self
    NoOne = NoOne
INVARIANTS NoLockCycle
