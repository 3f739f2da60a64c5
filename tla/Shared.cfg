SPECIFICATION MCSpec
CONSTANTS
    Producer = Producer
    Size = 2
    IndexMod = 4
    MaxPush = 5
    Nil = Nil
    InitSize = 1
    Limit = 2
    ChainPush = 4
    Clients = {g1, g2}
    Ctxs = {x1, x2}
    Root = Root
    Foreign = Foreign
    Roots = {Foreign}
    AfterFuncer = TRUE
    Kinds = {"cancel", "timer", "after"}
    Causes = {k}
SYMMETRY Symmetry
INVARIANTS SlotOwnedOnce NothingDropped CancelIsComplete NothingLeft
PROPERTIES RingIsDeque ChainIsDeque FirstCancelWins
