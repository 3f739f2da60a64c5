SPECIFICATION MCSpec
CONSTANTS
    Users = {u1, u2}
    Await = Await
    Copiers = {in, out}
    RpcCalls = {k1, k2}
    NoCall = NoCall
CHECK_DEADLOCK FALSE
INVARIANTS OneOutcome EndsUnused StmtsClosed NotClosedInUse TruncationReported ReleasedUnused NothingRunsOn NilMeansComplete CompletesOnce
PROPERTIES  ContextCloses WaitIsBounded CallsComplete
