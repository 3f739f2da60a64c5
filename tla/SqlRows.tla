------------------------------- MODULE SqlRows -------------------------------
(***************************************************************************)
(* database/sql Rows (database/sql/sql.go): the cursor a user goroutine    *)
(* steps through with Next, Scan, NextResultSet, Columns, Err and Close,   *)
(* while the awaitDone goroutine closes it when a context ends.            *)
(*                                                                         *)
(* rs.closemu is a sync.RWMutex: rlocks counts its read locks, all of them *)
(* the user's, and writer is the goroutine whose Lock is pending or held;  *)
(* as in RWMutex, a pending writer keeps new readers out.  The mutex of    *)
(* the driverConn is held only inside closemu and is left out.             *)
(*                                                                         *)
(* The user is at idle, next or nextset (about to take the read lock),     *)
(* nexting or setting (in the driver's Next or NextResultSet), read (in    *)
(* Columns, ColumnTypes or Err, wanting the read lock); both goroutines    *)
(* can be at lock (about to lock closemu), pending and closing (holding    *)
(* it, in close).  awaitDone is at select, or at err (before ctx.Err()).   *)
(***************************************************************************)
EXTENDS Naturals

VARIABLES
    multiSets,                  \* does the driver's Rows implement RowsNextResultSet?
    ctxDone, txDone, closeDone, \* the query's context, the Tx's, and closectx
    contextDone,                \* has awaitDone stored a context error?
    awaitErr,                   \* the ctx.Err() that awaitDone calls close with
    rlocks, writer,             \* closemu
    closed, lasterr, closemuScanHold, hitEOF,
    lastcols,                   \* is lastcols non-nil?
    pc,                         \* where each goroutine is
    doClose,                    \* Next's local: what it still has to do
    released,                   \* number of calls of releaseConn
    stopped,    \* did the last Next or NextResultSet return false for no end it met?
    ended       \* what has ended: "no", a result "set" that others follow, or "all" rows,
                \* of which the driver has told, or which the user has closed

vars == <<multiSets, ctxDone, txDone, closeDone, contextDone, awaitErr, rlocks, writer, closed,
          lasterr, closemuScanHold, hitEOF, lastcols, pc, doClose, released, stopped, ended>>

contexts == <<multiSets, ctxDone, txDone, awaitErr>>
locks == <<rlocks, writer>>
cursor == <<closed, lasterr, hitEOF, lastcols>>

Goroutines == {"user", "await"}

Init ==
    /\ multiSets \in BOOLEAN
    /\ ctxDone = FALSE /\ txDone = FALSE /\ closeDone = FALSE /\ contextDone = FALSE
    /\ awaitErr = "nil"
    /\ rlocks = 0 /\ writer = "none"
    /\ closed = FALSE /\ lasterr = "nil" /\ closemuScanHold = FALSE
    /\ hitEOF = FALSE /\ lastcols = FALSE
    /\ pc = [user |-> "idle", await |-> "select"]
    /\ doClose = FALSE /\ released = 0 /\ stopped = FALSE /\ ended = "no"

Goto(g, from, to) == pc[g] = from /\ pc' = [pc EXCEPT ![g] = to]

\* closemuRUnlockIfHeldByScan
RUnlockIfHeldByScan ==
    /\ closemuScanHold' = FALSE
    /\ rlocks' = IF closemuScanHold THEN rlocks - 1 ELSE rlocks

-----------------------------------------------------------------------------
(* Next and NextResultSet *)

RowsNext ==
    /\ Goto("user", "idle", IF contextDone THEN "idle" ELSE "next")
    /\ RUnlockIfHeldByScan
    /\ UNCHANGED <<contexts, closeDone, contextDone, writer, cursor, doClose, released, ended>>
    /\ stopped' = (contextDone /\ ended = "no")

\* nextLocked up to the driver's Next.
NextRLock ==
    /\ writer = "none"
    /\ Goto("user", "next", IF closed THEN "idle" ELSE "nexting")
    /\ rlocks' = IF closed THEN rlocks ELSE rlocks + 1
    /\ lastcols' = (lastcols \/ ~closed)
    /\ stopped' = (closed /\ ended = "no")
    /\ UNCHANGED <<contexts, closeDone, contextDone, writer, closed, lasterr, hitEOF,
                   closemuScanHold, doClose, released, ended>>

\* The driver answers with a row, the end, the end of one of several result
\* sets, or an error; on the end and on an error the rows are closed.
NextDriver(result) ==
    LET ends == result \in {"EOF", "err"}
    IN  /\ result = "more" => multiSets
        /\ ended = "set" => result \in {"more", "err"}
        /\ Goto("user", "nexting", IF ends THEN "lock" ELSE "idle")
        /\ lasterr' = IF result = "row" THEN "nil" ELSE IF result = "err" THEN "err" ELSE "EOF"
        /\ doClose' = ends
        /\ rlocks' = rlocks - 1
        /\ stopped' = (result = "err" \/ result = "EOF")
        /\ ended' = IF result = "EOF" THEN "all" ELSE IF result = "more" THEN "set" ELSE ended
        /\ UNCHANGED <<contexts, closeDone, contextDone, writer, closed, hitEOF, lastcols,
                       closemuScanHold, released>>

NextResultSet ==
    /\ Goto("user", "idle", "nextset")
    /\ RUnlockIfHeldByScan
    /\ stopped' = FALSE
    /\ UNCHANGED <<contexts, closeDone, contextDone, writer, cursor, doClose, released, ended>>

NextResultSetRLock ==
    /\ writer = "none"
    /\ Goto("user", "nextset", IF closed THEN "idle" ELSE "setting")
    /\ rlocks' = IF closed THEN rlocks ELSE rlocks + 1
    /\ lastcols' = (lastcols /\ closed)
    /\ stopped' = closed
    /\ UNCHANGED <<contexts, closeDone, contextDone, writer, closed, lasterr, hitEOF,
                   closemuScanHold, doClose, released, ended>>

\* A driver without RowsNextResultSet closes the rows and leaves lasterr alone.
NextResultSetDriver(result) ==
    /\ multiSets <=> result # "none"
    /\ Goto("user", "setting", IF result = "set" THEN "idle" ELSE "lock")
    /\ lasterr' = IF result = "set" THEN "nil" ELSE IF result = "none" THEN lasterr ELSE result
    /\ rlocks' = rlocks - 1
    /\ stopped' = (result # "set")
    /\ ended' = IF result = "set" THEN "no" ELSE IF result = "err" THEN ended ELSE "all"
    /\ UNCHANGED <<contexts, closeDone, contextDone, writer, closed, hitEOF, lastcols,
                   closemuScanHold, doClose, released>>

-----------------------------------------------------------------------------
(* Scan, and the methods that only read *)

\* A Scan into *RawBytes keeps the read lock.
Scan ==
    /\ pc["user"] = "idle" /\ ~closemuScanHold /\ writer = "none"
    /\ lasterr \in {"nil", "EOF"} /\ ~closed /\ lastcols
    /\ closemuScanHold' = TRUE
    /\ rlocks' = rlocks + 1
    /\ UNCHANGED <<contexts, closeDone, contextDone, writer, cursor, pc, doClose, released, stopped, ended>>

Read ==
    /\ Goto("user", "idle", "read")
    /\ UNCHANGED <<contexts, closeDone, contextDone, locks, cursor, closemuScanHold,
                   doClose, released, stopped, ended>>

ReadRLock ==
    /\ writer = "none"
    /\ Goto("user", "read", "idle")
    /\ UNCHANGED <<contexts, closeDone, contextDone, locks, cursor, closemuScanHold,
                   doClose, released, stopped, ended>>

-----------------------------------------------------------------------------
(* Close *)

Close ==
    /\ Goto("user", "idle", "lock")
    /\ RUnlockIfHeldByScan
    /\ ended' = "all"
    /\ UNCHANGED <<contexts, closeDone, contextDone, writer, cursor, doClose, released, stopped>>

CloseLock(g) ==
    /\ writer = "none" /\ writer' = g
    /\ Goto(g, "lock", "pending")
    /\ UNCHANGED <<contexts, closeDone, contextDone, rlocks, cursor, closemuScanHold,
                   doClose, released, stopped, ended>>

\* Mutant: close does not wait for the readers.
CloseLockedAtOnce(g) ==
    /\ Goto(g, "pending", "closing")
    /\ UNCHANGED <<contexts, closeDone, contextDone, locks, cursor, closemuScanHold,
                   doClose, released, stopped, ended>>

CloseLocked(g) ==
    /\ rlocks = 0
    /\ Goto(g, "pending", "closing")
    /\ UNCHANGED <<contexts, closeDone, contextDone, locks, cursor, closemuScanHold,
                   doClose, released, stopped, ended>>

\* The error each goroutine calls close with: awaitDone passes ctx.Err().
CloseArg(g) == IF g = "await" THEN awaitErr ELSE "nil"

\* rs.close under closemu, rowsi.Close returning err; Next then sets hitEOF.
CloseBody(g, err) ==
    LET first == IF lasterr = "nil" THEN CloseArg(g) ELSE lasterr
    IN  /\ Goto(g, "closing", IF g = "user" THEN "idle" ELSE "exit")
        /\ writer' = "none"
        /\ closed' = TRUE
        /\ lasterr' = IF closed THEN lasterr ELSE IF first \in {"nil", "EOF"} THEN err ELSE first
        /\ closeDone' = TRUE
        /\ released' = IF closed THEN released ELSE released + 1
        /\ hitEOF' = (hitEOF \/ (g = "user" /\ doClose))
        /\ doClose' = IF g = "user" THEN FALSE ELSE doClose
        /\ UNCHANGED <<contexts, contextDone, rlocks, lastcols, closemuScanHold, stopped, ended>>

-----------------------------------------------------------------------------
(* awaitDone *)

\* Mutant: awaitDone does not store the error.
AwaitContextUnstored ==
    /\ ctxDone \/ txDone
    /\ Goto("await", "select", "err")
    /\ UNCHANGED <<contexts, closeDone, contextDone, locks, cursor, closemuScanHold,
                   doClose, released, stopped, ended>>

\* Mutant: awaitDone does not watch the context of the transaction.
AwaitContextNoTx ==
    /\ ctxDone
    /\ Goto("await", "select", "err")
    /\ contextDone' = TRUE
    /\ UNCHANGED <<contexts, closeDone, locks, cursor, closemuScanHold, doClose, released,
                   stopped, ended>>

\* A context error is stored before close is tried; the end of closectx,
\* which Close cancels, is not stored.
AwaitContext ==
    /\ ctxDone \/ txDone
    /\ Goto("await", "select", "err")
    /\ contextDone' = TRUE
    /\ UNCHANGED <<contexts, closeDone, locks, cursor, closemuScanHold, doClose, released, stopped, ended>>

AwaitClose ==
    /\ closeDone \/ ctxDone
    /\ Goto("await", "select", "err")
    /\ UNCHANGED <<contexts, closeDone, contextDone, locks, cursor, closemuScanHold,
                   doClose, released, stopped, ended>>

AwaitErr ==
    /\ Goto("await", "err", "lock")
    /\ awaitErr' = IF ctxDone THEN "ctx" ELSE "nil"
    /\ UNCHANGED <<multiSets, ctxDone, txDone, closeDone, contextDone, locks, cursor, closemuScanHold,
                   doClose, released, stopped, ended>>

\* The contexts end whenever their owners like.
Cancel ==
    /\ ctxDone' = TRUE \/ ctxDone' = ctxDone
    /\ txDone' = TRUE \/ txDone' = txDone
    /\ UNCHANGED <<multiSets, closeDone, contextDone, awaitErr, locks, cursor, closemuScanHold, pc, doClose,
                   released, stopped, ended>>

-----------------------------------------------------------------------------
User ==
    \/ NextRLock \/ \E result \in {"row", "EOF", "more", "err"} : NextDriver(result)
    \/ NextResultSetRLock
    \/ \E result \in {"set", "none", "EOF", "err"} : NextResultSetDriver(result)
    \/ ReadRLock

Calls == RowsNext \/ NextResultSet \/ Scan \/ Read \/ Close

CloseStep(g) ==
    \/ CloseLock(g) \/ CloseLocked(g)
    \/ \E err \in {"nil", "close"} : CloseBody(g, err)

AwaitStep == AwaitContext \/ AwaitClose \/ AwaitErr

Next == User \/ Calls \/ AwaitStep \/ Cancel \/ \E g \in Goroutines : CloseStep(g)

Spec == Init /\ [][Next]_vars

\* Both goroutines run on inside a method, the driver answers, and the user
\* need not call anything.
Fairness ==
    /\ WF_vars(User) /\ WF_vars(AwaitStep)
    /\ \A g \in Goroutines : WF_vars(CloseStep(g))

FairSpec == Spec /\ Fairness

-----------------------------------------------------------------------------
(* Properties *)

\* The shape of the cursor's state.  The user's goroutine read-locks closemu at
\* most once; the connection is released once, when the rows are closed,
\* whoever wins the race to close them.
TypeOK ==
    /\ {multiSets, ctxDone, txDone, closeDone, contextDone, closed, closemuScanHold, hitEOF,
        lastcols, doClose, stopped} \subseteq BOOLEAN
    /\ ended \in {"no", "set", "all"}
    /\ rlocks \in 0 .. 1 /\ released = IF closed THEN 1 ELSE 0
    /\ writer \in Goroutines \cup {"none"} /\ awaitErr \in {"nil", "ctx"}
    /\ lasterr \in {"nil", "EOF", "err", "ctx", "close"}
    /\ pc["user"] \in {"idle", "next", "nexting", "nextset", "setting", "read", "lock",
                       "pending", "closing"}
    /\ pc["await"] \in {"select", "err", "lock", "pending", "closing", "exit"}

\* What Err returns.
Err ==
    IF ~hitEOF /\ contextDone THEN "ctx"
    ELSE IF lasterr = "EOF" THEN "nil" ELSE lasterr

\* The driver's rows are not closed under a running driver call, nor while
\* the user may look at the memory behind a RawBytes, and they are closed once.
NotClosedInUse ==
    /\ TypeOK
    /\ closemuScanHold \/ pc["user"] \in {"nexting", "setting"} => ~closed

\* "Rows.Err should be consulted to distinguish between the two cases": rows
\* that the driver did not end, and the user did not close, never look like a
\* complete result; when Next or NextResultSet has returned false, Err says why.
ErrDistinguishes == pc["user"] = "idle" /\ stopped /\ ended # "all" => Err # "nil"

\* A single result set that a context cuts short never looks complete, however
\* awaitDone's select chooses and wherever the user is; and once Next has
\* reported the end of the rows, a context that ends does not show in Err.
TruncationReported ==
    /\ ~multiSets => ErrDistinguishes
    /\ hitEOF => Err # "ctx"

\* When a context ends the rows are closed, unless the user keeps a RawBytes.
\* Columns and Err, which take closemu for reading, return, unless they are
\* called under that hold: a pending close is then in their way.
ContextCloses ==
    /\ <>[]~closemuScanHold /\ <>(ctxDone \/ txDone) => <>closed
    /\ pc["user"] = "read" /\ ~closemuScanHold ~> pc["user"] = "idle"
=============================================================================
