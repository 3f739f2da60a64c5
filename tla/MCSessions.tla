----------------------------- MODULE MCSessions -----------------------------
(***************************************************************************)
(* Sessions that somebody else may end, for TLC: a transaction and a Rows, *)
(* which awaitDone ends with their context, a command, which watchCtx      *)
(* ends, a Conn, and an RPC session, which ends when either side closes.   *)
(* A behaviour is one of a single part, chosen in the initial state; the   *)
(* other parts stay as they are initially.                                 *)
(***************************************************************************)
EXTENDS SqlTx

CONSTANTS Copiers, RpcCalls, NoCall

VARIABLES
    part,
    multiSets, qctxDone, txDone, closeDone, contextDone, awaitErr, rlocks, rwriter,
    closed, lasterr, closemuScanHold, hitEOF, lastcols, rpc, doClose, rreleased,
    stopped, ended,
    cdone, creaders, cwriter, dc, cpc, grabbed, creleased,
    ctx, cancel, delay, xctxDone, proc, status, orphan, pipes, copying, firstErr,
    goroutineErr, xpc, err, watcher, werr, timer, interrupted, killed,
    kpc, num, reqMutex, seq, pending, closing, shutdown, kdone, result, input,
    response, call, requests, responses, broken, clientClosed, serverClosed,
    reader, request, serving

R == INSTANCE SqlRows WITH ctxDone <- qctxDone, writer <- rwriter, pc <- rpc,
                           released <- rreleased
C == INSTANCE SqlConn WITH done <- cdone, readers <- creaders, writer <- cwriter,
                           pc <- cpc, released <- creleased
X == INSTANCE ExecCmd WITH ctxDone <- xctxDone, pc <- xpc
K == INSTANCE RpcSession WITH pc <- kpc, done <- kdone

rowsVars == <<multiSets, qctxDone, txDone, closeDone, contextDone, awaitErr, rlocks,
              rwriter, closed, lasterr, closemuScanHold, hitEOF, lastcols, rpc,
              doClose, rreleased, stopped, ended>>
connVars == <<cdone, creaders, cwriter, dc, cpc, grabbed, creleased>>
cmdVars == <<ctx, cancel, delay, xctxDone, proc, status, orphan, pipes, copying, firstErr,
             goroutineErr, xpc, err, watcher, werr, timer, interrupted, killed>>
rpcVars == <<kpc, num, reqMutex, seq, pending, closing, shutdown, kdone, result, input,
             response, call, requests, responses, broken, clientClosed, serverClosed,
             reader, request, serving>>

MCInit ==
    /\ part \in {"tx", "rows", "conn", "cmd", "rpc"}
    /\ Init /\ R!Init /\ C!Init /\ X!Init /\ K!Init
    /\ part # "rows" => ~multiSets
    /\ part # "cmd" => ~ctx /\ ~cancel /\ ~delay /\ ~orphan

MCNext ==
    \/ part = "tx" /\ Next /\ UNCHANGED <<part, rowsVars, connVars, cmdVars, rpcVars>>
    \/ part = "rows" /\ R!Next /\ UNCHANGED <<part, vars, connVars, cmdVars, rpcVars>>
    \/ part = "conn" /\ C!Next /\ UNCHANGED <<part, vars, rowsVars, cmdVars, rpcVars>>
    \/ part = "cmd" /\ X!Next /\ UNCHANGED <<part, vars, rowsVars, connVars, rpcVars>>
    \/ part = "rpc" /\ K!Next /\ UNCHANGED <<part, vars, rowsVars, connVars, cmdVars>>

\* The fairness of the part that runs, as its module states it.
MCFairness ==
    /\ \A u \in Users : /\ WF_vars(part = "tx" /\ Operation(u))
                        /\ WF_vars(part = "tx" /\ RowsAwaitDone(u))
    /\ \A p \in Procs : WF_vars(part = "tx" /\ Finish(p))
    /\ WF_vars(part = "tx" /\ AwaitDone)
    /\ WF_rowsVars(part = "rows" /\ R!User)
    /\ WF_rowsVars(part = "rows" /\ R!AwaitStep)
    /\ \A g \in R!Goroutines : WF_rowsVars(part = "rows" /\ R!CloseStep(g))
    /\ WF_cmdVars(part = "cmd" /\ X!Caller)
    /\ WF_cmdVars(part = "cmd" /\ X!Watch)
    /\ WF_cmdVars(part = "cmd" /\ X!TimerFires)
    /\ \A k \in Copiers : WF_cmdVars(part = "cmd" /\ (X!CopyEOF(k) \/ X!CopyClosed(k)))
    /\ \A k \in RpcCalls : WF_rpcVars(part = "rpc" /\ K!CallStep(k))
    /\ WF_rpcVars(part = "rpc" /\ K!Input)
    /\ WF_rpcVars(part = "rpc" /\ K!Reader)
    /\ WF_rpcVars(part = "rpc" /\ K!CloseCodec)
    /\ \A s \in 1 .. Cardinality(RpcCalls) : WF_rpcVars(part = "rpc" /\ K!Service(s))

MCSpec == MCInit /\ [][MCNext]_<<part, vars, rowsVars, connVars, cmdVars, rpcVars>> /\ MCFairness

\* Rows are not closed under a driver call (NotClosedInUse of SqlRows).
NotClosedInUse == R!NotClosedInUse

\* A result cut short never looks complete (TruncationReported of SqlRows).
TruncationReported == R!TruncationReported

\* The end of a context closes the Rows (ContextCloses of SqlRows).
ContextCloses == R!ContextCloses

\* A Conn gives its connection back unused (ReleasedUnused of SqlConn).
ReleasedUnused == C!ReleasedUnused

\* Nothing of a command runs on when Wait returns (NothingRunsOn of ExecCmd).
NothingRunsOn == X!NothingRunsOn

\* Wait returns nil only for a success whose output is complete
\* (NilMeansComplete of ExecCmd).
NilMeansComplete == X!NilMeansComplete

\* WaitDelay bounds Wait (WaitIsBounded of ExecCmd).
WaitIsBounded == X!WaitIsBounded

\* An RPC is completed once, with its own reply (CompletesOnce of RpcSession).
CompletesOnce == K!CompletesOnce

\* Every RPC that was made is completed (CallsComplete of RpcSession).
CallsComplete == K!CallsComplete
=============================================================================
