SPECIFICATION FairSpec
CONSTANTS
    Users = {u1, u2}
    Txers = {t1}
    Conns = {c1, c2}
    First = c1
    MaxPrepares = 3
    Self = Self
    NoOne = NoOne
INVARIANTS NeededIsOpen NothingLeftOpen
 
