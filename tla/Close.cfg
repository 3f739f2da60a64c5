SPECIFICATION MCSpec
CONSTANTS
    Clients = {g1, g2}
    Ctxs = {c1}
    Root = Root
    Foreign = Foreign
    Roots = {Root, Foreign}
    AfterFuncer = FALSE
    Kinds = {"cancel", "timer", "after"}
    Causes = {}
    Readers = {r1, r2}
    Writers = {w1, w2}
    Sizes = {0, 1, 2}
    MaxCalls = 3
    Nil = Nil
CHECK_DEADLOCK FALSE
INVARIANTS WriteInOnePiece
PROPERTIES CancelReaches WriteComplete CloseUnblocks
