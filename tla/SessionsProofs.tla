--------------------------- MODULE SessionsProofs ---------------------------
(***************************************************************************)
(* Proofs about the sessions that somebody else may end: a Rows, a         *)
(* command, a Conn and a transaction, each by itself (R, X and C of        *)
(* MCSessions, and SqlTx, which it extends), and for any set of users and  *)
(* of copying goroutines.                                                  *)
(***************************************************************************)
EXTENDS MCSessions, FiniteSetTheorems, TLAPS

-----------------------------------------------------------------------------
(***************************************************************************)
(* A Rows.  closemu is read-locked exactly while the user is in a driver   *)
(* call or keeps a RawBytes, and whoever closes the rows holds it alone;   *)
(* so the rows are open while they are used.                               *)
(***************************************************************************)
InDriver == rpc["user"] \in {"nexting", "setting"}
AtClose == {"lock", "pending", "closing"}

RowsLocks ==
    /\ rlocks = IF closemuScanHold \/ InDriver THEN 1 ELSE 0
    /\ closemuScanHold => rpc["user"] \in {"idle", "read"}
    /\ \A g \in R!Goroutines : rpc[g] \in {"pending", "closing"} <=> rwriter = g
    /\ \A g \in R!Goroutines : rpc[g] = "closing" => rlocks = 0
    /\ closemuScanHold \/ InDriver => ~closed

(***************************************************************************)
(* What Err has to say of a single result set.  Rows that are closed       *)
(* before their end were closed with an error, or awaitDone has stored the *)
(* error of the context; Next, which sets hitEOF only after the close,     *)
(* knows the error of the driver by then (doClose); and awaitDone is about *)
(* to close only for a reason that Err will give.                          *)
(***************************************************************************)
Failed == lasterr \in {"err", "ctx", "close"}

RowsReasons ==
    /\ closeDone => closed
    /\ rpc["await"] = "err" => contextDone \/ closed \/ qctxDone
    /\ rpc["await"] \in AtClose => contextDone \/ closed \/ awaitErr = "ctx"
    /\ doClose => /\ rpc["user"] \in AtClose
                  /\ lasterr # "ctx"
                  /\ closed \/ lasterr # "nil"
    /\ hitEOF => closed /\ lasterr # "ctx"

RowsSingle ==
    ~multiSets =>
        /\ ended \in {"no", "all"}
        /\ lasterr = "EOF" => ended = "all"
        /\ rpc["user"] \in AtClose => ended = "all" \/ doClose
        /\ doClose /\ ended # "all" => lasterr = "err"
        /\ closed /\ ended # "all" => Failed \/ (contextDone /\ ~hitEOF)
        /\ rpc["user"] \in {"idle", "read"} /\ stopped /\ ended # "all" => closed \/ contextDone

RowsPlaces == {"idle", "next", "nexting", "nextset", "setting", "read", "lock", "pending",
               "closing", "select", "err", "exit"}

RowsFlags ==
    /\ multiSets \in BOOLEAN /\ qctxDone \in BOOLEAN /\ txDone \in BOOLEAN
    /\ closeDone \in BOOLEAN /\ contextDone \in BOOLEAN /\ closed \in BOOLEAN
    /\ closemuScanHold \in BOOLEAN /\ hitEOF \in BOOLEAN /\ lastcols \in BOOLEAN
    /\ doClose \in BOOLEAN /\ stopped \in BOOLEAN

RowsType ==
    /\ ended \in {"no", "set", "all"}
    /\ rlocks \in 0 .. 1 /\ rreleased = IF closed THEN 1 ELSE 0
    /\ rwriter \in R!Goroutines \cup {"none"} /\ awaitErr \in {"nil", "ctx"}
    /\ lasterr \in {"nil", "EOF", "err", "ctx", "close"}
    /\ rpc["user"] \in {"idle", "next", "nexting", "nextset", "setting", "read", "lock",
                       "pending", "closing"}
    /\ rpc["await"] \in {"select", "err", "lock", "pending", "closing", "exit"}

RowsInv ==
    /\ RowsFlags /\ RowsType /\ rpc \in [R!Goroutines -> RowsPlaces]
    /\ RowsLocks /\ RowsReasons /\ RowsSingle

\* New rows satisfy the inductive invariant.
LEMMA RowsInit == R!Init => RowsInv
<1> SUFFICES ASSUME R!Init PROVE RowsInv
  BY Zenon
<1>1. multiSets \in BOOLEAN /\ ~qctxDone /\ ~txDone /\ ~closeDone /\ ~contextDone /\ ~closed
      /\ ~closemuScanHold /\ ~hitEOF /\ ~lastcols /\ ~doClose /\ ~stopped
  BY Zenon DEF R!Init
<1>2. rpc["user"] = "idle" /\ rpc["await"] = "select"
  BY Zenon DEF R!Init
<1>3. rpc \in [R!Goroutines -> RowsPlaces]
  BY DEF R!Init, R!Goroutines, RowsPlaces
<1>4. awaitErr = "nil" /\ rlocks = 0 /\ rwriter = "none" /\ lasterr = "nil" /\ rreleased = 0 /\ ended = "no"
  BY Zenon DEF R!Init
<1>5. RowsFlags
  BY Zenon DEF R!Init, RowsFlags
<1>9. RowsType
  BY <1>1, <1>2, <1>4 DEF RowsType, R!Goroutines
<1>6. RowsLocks
  BY <1>1, <1>2, <1>4, Zenon DEF RowsLocks, InDriver, R!Goroutines
<1>7. RowsReasons /\ RowsSingle
  BY <1>1, <1>2, <1>4, Zenon DEF RowsReasons, RowsSingle, AtClose
<1>8. QED
  BY <1>3, <1>5, <1>6, <1>7, <1>9, Zenon DEF RowsInv

\* No step of the user, of awaitDone or of a close breaks it.
LEMMA RowsStep == RowsInv /\ [R!Next]_(R!vars) => RowsInv'
<1> SUFFICES ASSUME RowsInv, [R!Next]_(R!vars) PROVE RowsInv'
  BY Zenon
<1>0. ASSUME R!AwaitContext \/ R!AwaitClose \/ R!Cancel PROVE RowsFlags'
  <2>1. CASE R!AwaitContext
    BY <2>1, Zenon DEF RowsInv, RowsFlags, R!AwaitContext, R!contexts, R!cursor
  <2>2. CASE R!AwaitClose
    BY <2>2, Zenon DEF RowsInv, RowsFlags, R!AwaitClose, R!contexts, R!cursor
  <2>3. CASE R!Cancel
    <3>1. qctxDone' \in BOOLEAN
      BY <2>3, Zenon DEF RowsInv, RowsFlags, R!Cancel
    <3>2. txDone' \in BOOLEAN
      BY <2>3, Zenon DEF RowsInv, RowsFlags, R!Cancel
    <3>3. UNCHANGED <<multiSets, closeDone, contextDone, closemuScanHold, doClose, stopped, R!cursor>>
      BY <2>3, Zenon DEF R!Cancel
    <3>4. QED
      BY <3>1, <3>2, <3>3, Zenon DEF RowsInv, RowsFlags, R!cursor
  <2>4. QED
    BY <1>0, <2>1, <2>2, <2>3, Zenon
<1> USE DEF RowsInv, RowsFlags, RowsType, RowsPlaces, RowsLocks, RowsReasons, RowsSingle, InDriver, AtClose, Failed,
            R!Goroutines, R!Goto, R!RUnlockIfHeldByScan, R!contexts, R!locks, R!cursor
<1>1. CASE R!RowsNext
  <2>1. RowsFlags'
    BY <1>1, Zenon DEF R!RowsNext
  <2>2. RowsType' /\ rpc' \in [R!Goroutines -> RowsPlaces]
    BY <1>1 DEF R!RowsNext
  <2>3. RowsLocks'
    BY <1>1 DEF R!RowsNext
  <2>4. RowsReasons'
    BY <1>1, Zenon DEF R!RowsNext
  <2>5. RowsSingle'
    BY <1>1, Zenon DEF R!RowsNext
  <2>. QED
    BY <2>1, <2>2, <2>3, <2>4, <2>5
<1>2. CASE R!NextRLock
  BY <1>2 DEF R!NextRLock
<1>3. ASSUME NEW r \in {"row", "EOF", "more", "err"}, R!NextDriver(r) PROVE RowsInv'
  <2>1. RowsFlags'
    BY <1>3 DEF R!NextDriver
  <2>2. RowsType' /\ rpc' \in [R!Goroutines -> RowsPlaces]
    BY <1>3 DEF R!NextDriver
  <2>3. RowsLocks'
    BY <1>3 DEF R!NextDriver
  <2>4. RowsReasons'
    BY <1>3, Zenon DEF R!NextDriver
  <2>5. RowsSingle'
    BY <1>3, Zenon DEF R!NextDriver
  <2>. QED
    BY <2>1, <2>2, <2>3, <2>4, <2>5
<1>4. CASE R!NextResultSet
  <2>1. RowsFlags'
    BY <1>4, Zenon DEF R!NextResultSet
  <2>2. RowsType' /\ rpc' \in [R!Goroutines -> RowsPlaces]
    BY <1>4 DEF R!NextResultSet
  <2>3. RowsLocks'
    BY <1>4 DEF R!NextResultSet
  <2>4. RowsReasons'
    BY <1>4, Zenon DEF R!NextResultSet
  <2>5. RowsSingle'
    BY <1>4, Zenon DEF R!NextResultSet
  <2>. QED
    BY <2>1, <2>2, <2>3, <2>4, <2>5
<1>5. CASE R!NextResultSetRLock
  BY <1>5 DEF R!NextResultSetRLock
<1>6. ASSUME NEW r \in {"set", "none", "EOF", "err"}, R!NextResultSetDriver(r) PROVE RowsInv'
  BY <1>6 DEF R!NextResultSetDriver
<1>7. CASE R!Scan
  BY <1>7 DEF R!Scan
<1>8. CASE R!Read \/ R!ReadRLock
  BY <1>8 DEF R!Read, R!ReadRLock
<1>9. CASE R!Close
  <2>1. RowsFlags'
    BY <1>9, Zenon DEF R!Close
  <2>2. RowsType' /\ rpc' \in [R!Goroutines -> RowsPlaces]
    BY <1>9 DEF R!Close
  <2>3. RowsLocks'
    BY <1>9 DEF R!Close
  <2>4. RowsReasons'
    BY <1>9, Zenon DEF R!Close
  <2>5. RowsSingle'
    BY <1>9, Zenon DEF R!Close
  <2>. QED
    BY <2>1, <2>2, <2>3, <2>4, <2>5
<1>10. ASSUME NEW g \in R!Goroutines, R!CloseLock(g) \/ R!CloseLocked(g) PROVE RowsInv'
  <2>1. CASE R!CloseLock(g)
    BY <2>1 DEF R!CloseLock
  <2>2. CASE R!CloseLocked(g)
    BY <2>2 DEF R!CloseLocked
  <2>3. QED
    BY <1>10, <2>1, <2>2, Zenon
<1>11. ASSUME NEW g \in R!Goroutines, NEW e \in {"nil", "close"}, R!CloseBody(g, e) PROVE RowsInv'
  <2>1. RowsFlags'
    BY <1>11, Zenon DEF R!CloseBody, R!CloseArg
  <2>2. RowsType' /\ rpc' \in [R!Goroutines -> RowsPlaces]
    BY <1>11 DEF R!CloseBody, R!CloseArg
  <2>3. RowsLocks'
    BY <1>11 DEF R!CloseBody, R!CloseArg
  <2>4. RowsReasons'
    BY <1>11, Zenon DEF R!CloseBody, R!CloseArg
  <2>5. RowsSingle'
    <3>1. CASE g = "user"
      BY <1>11, <3>1, Zenon DEF R!CloseBody, R!CloseArg
    <3>2. CASE g = "await"
      BY <1>11, <3>2, Zenon DEF R!CloseBody, R!CloseArg
    <3>3. QED
      BY <3>1, <3>2, Zenon
  <2>. QED
    BY <2>1, <2>2, <2>3, <2>4, <2>5
<1>12. CASE R!AwaitContext \/ R!AwaitClose
  <2>1. RowsFlags'
    BY <1>0, <1>12, Zenon
  <2>2. RowsType' /\ rpc' \in [R!Goroutines -> RowsPlaces]
    BY <1>12 DEF R!AwaitContext, R!AwaitClose
  <2>3. RowsLocks'
    BY <1>12 DEF R!AwaitContext, R!AwaitClose
  <2>4. RowsReasons'
    <3>1. CASE R!AwaitContext
      BY <3>1 DEF R!AwaitContext
    <3>2. CASE R!AwaitClose
      BY <3>2 DEF R!AwaitClose
    <3>3. QED
      BY <1>12, <3>1, <3>2, Zenon
  <2>5. RowsSingle'
    <3>1. CASE R!AwaitContext
      BY <3>1, Zenon DEF R!AwaitContext
    <3>2. CASE R!AwaitClose
      BY <3>2, Zenon DEF R!AwaitClose
    <3>3. QED
      BY <1>12, <3>1, <3>2, Zenon
  <2>. QED
    BY <2>1, <2>2, <2>3, <2>4, <2>5
<1>13. CASE R!AwaitErr
  BY <1>13 DEF R!AwaitErr
<1>14. CASE R!Cancel
  <2>1. RowsFlags'
    BY <1>0, <1>14, Zenon
  <2>2. RowsReasons'
    BY <1>14 DEF R!Cancel
  <2>3. QED
    BY <1>14, <2>1, <2>2 DEF R!Cancel
<1>15. CASE UNCHANGED R!vars
  BY <1>15 DEF R!vars
<1>16. QED
  BY <1>1, <1>2, <1>3, <1>4, <1>5, <1>6, <1>7, <1>8, <1>9, <1>10, <1>11, <1>12, <1>13, <1>14,
     <1>15, Zenon DEF R!Next, R!User, R!Calls, R!AwaitStep, R!CloseStep

\* The driver's rows are never closed under a running driver call or under a
\* RawBytes the user looks at, and are closed and released once.
THEOREM RowsNotClosedInUse == R!Spec => []NotClosedInUse
<1>1. RowsInv => NotClosedInUse
  BY DEF RowsInv, RowsFlags, RowsType, RowsLocks, InDriver, NotClosedInUse, R!NotClosedInUse,
     R!TypeOK
<1>2. QED
  BY <1>1, RowsInit, RowsStep, PTL DEF R!Spec

\* Rows of a single result set that a context cuts short never look like a
\* complete result to Err, whatever awaitDone's select chooses.
THEOREM RowsTruncationReported == R!Spec => []TruncationReported
<1>1. RowsInv => TruncationReported
  BY Zenon DEF RowsInv, RowsReasons, RowsSingle, Failed, TruncationReported, R!TruncationReported,
         R!ErrDistinguishes, R!Err, RowsType, RowsFlags
<1>2. QED
  BY <1>1, RowsInit, RowsStep, PTL DEF R!Spec

-----------------------------------------------------------------------------
(***************************************************************************)
(* A command.  Where the caller and watchCtx are relative to each other:   *)
(* watchCtx is over when Wait gets to the copiers, so only one of them is  *)
(* at the channel goroutineErr, which is empty while a copier runs and     *)
(* then holds the first error.                                             *)
(***************************************************************************)
CmdFlags ==
    /\ delay \in BOOLEAN /\ cancel \in BOOLEAN /\ interrupted \in BOOLEAN /\ killed \in BOOLEAN

CmdPlaces ==
    /\ xpc \in {"new", "starting", "failed", "started", "wait", "watch", "await", "select", "drain",
                "done"}
    /\ watcher \in {"none", "select", "cancel", "delay", "kill", "copiers", "drain", "send", "done"}
    /\ xpc \in {"new", "starting", "failed"} =>
          /\ proc = "none" /\ watcher = "none" /\ copying = {} /\ goroutineErr = "nil"
          /\ firstErr = "ok" /\ timer = "none"
    /\ xpc \in {"started", "wait"} => proc \in {"running", "exited"} /\ watcher # "done"
    /\ xpc = "watch" => proc = "reaped" /\ watcher \notin {"none", "done"}
    /\ xpc \in {"await", "select", "drain", "done"} => proc = "reaped" /\ watcher \in {"none", "done"}
    /\ xpc \in {"failed", "done"} => pipes = "closed"
    /\ xpc = "done" => timer = "none" /\ copying = {}

CmdCopiers ==
    /\ copying # {} <=> goroutineErr = "empty"
    /\ goroutineErr \in {"ok", "io", "closed"} => goroutineErr = firstErr
    /\ xpc \in {"select", "drain"} \/ watcher \in {"copiers", "drain"} => goroutineErr # "nil"
    /\ firstErr = "closed" => pipes = "closed"
    /\ xpc \in {"new", "starting", "started", "wait", "watch"} /\ watcher \notin {"drain", "send"} => pipes = "open"

(***************************************************************************)
(* What the error of Wait still owes: an interruption is in werr until     *)
(* watchCtx hands it over, a nil goroutineErr means that no copier failed  *)
(* or that watchCtx has already reported it.                               *)
(***************************************************************************)
Excused == firstErr = "ok" \/ (killed /\ firstErr = "io")

CmdErrors ==
    /\ xpc \in {"watch", "await", "select", "drain", "done"} /\ err = "ok" => status = "ok"
    /\ watcher \in {"none", "select", "cancel"} => ~interrupted
    /\ watcher \in {"none", "select", "cancel", "delay", "kill"} => ~killed
    /\ watcher \in {"delay", "kill", "copiers", "drain", "send"} /\ interrupted => werr # "ok"
    /\ watcher = "done" /\ interrupted => err # "ok"
    /\ goroutineErr = "nil" /\ xpc # "done" =>
          \/ Excused
          \/ watcher = "send" /\ werr # "ok"
          \/ watcher = "done" /\ err # "ok"
    /\ xpc = "done" => err # "ok" \/ Excused

CmdInv == X!TypeOK /\ CmdFlags /\ CmdPlaces /\ CmdCopiers /\ CmdErrors

\* A new command satisfies the inductive invariant.
LEMMA CmdInit == X!Init => CmdInv
<1> SUFFICES ASSUME X!Init PROVE CmdInv
  BY Zenon
<1>1. CmdFlags
  BY Zenon DEF X!Init, CmdFlags
<1>2. X!TypeOK
  BY Zenon DEF X!Init, X!TypeOK
<1>3. CmdPlaces
  BY Zenon DEF X!Init, CmdPlaces
<1>4. CmdCopiers
  BY Zenon DEF X!Init, CmdCopiers
<1>5. CmdErrors
  BY Zenon DEF X!Init, CmdErrors, Excused
<1>6. QED
  BY <1>1, <1>2, <1>3, <1>4, <1>5, Zenon DEF CmdInv

\* No step of the child, a copier, watchCtx, Start or Wait breaks it.
LEMMA CmdStep == CmdInv /\ [X!Next]_(X!vars) => CmdInv'
<1> SUFFICES ASSUME CmdInv, [X!Next]_(X!vars) PROVE CmdInv'
  BY Zenon
<1> USE DEF CmdInv, CmdFlags, CmdPlaces, CmdCopiers, CmdErrors, Excused, X!TypeOK, X!Goto,
            X!WatchGoto, X!Result, X!config, X!child, X!copy, X!watch
<1>1. CASE X!ContextDone
  BY <1>1 DEF X!ContextDone
<1>2. ASSUME NEW s \in {"ok", "fail"}, X!Exits(s) PROVE CmdInv'
  BY <1>2 DEF X!Exits
<1>3. CASE X!OrphanExits
  BY <1>3 DEF X!OrphanExits
<1>4. CASE X!TimerFires
  BY <1>4 DEF X!TimerFires
<1>5. ASSUME NEW k \in Copiers, X!CopyEOF(k) PROVE CmdInv'
  BY <1>5 DEF X!CopyEOF, X!CopyEnds
<1>6. ASSUME NEW k \in Copiers, X!CopyFails(k) PROVE CmdInv'
  BY <1>6 DEF X!CopyFails, X!CopyEnds
<1>7. ASSUME NEW k \in Copiers, X!CopyClosed(k) PROVE CmdInv'
  BY <1>7 DEF X!CopyClosed, X!CopyEnds
<1>8. CASE X!StartCheck
  BY <1>8 DEF X!StartCheck
<1>9. CASE X!StartFails
  BY <1>9 DEF X!StartFails
<1>10. CASE X!Start
  BY <1>10, Zenon DEF X!Start
<1>11. CASE X!WatchNothing
  BY <1>11 DEF X!WatchNothing
<1>12. CASE X!WatchDone
  BY <1>12 DEF X!WatchDone
<1>13. ASSUME NEW a \in X!Answers, X!WatchCancel(a) PROVE CmdInv'
  BY <1>13 DEF X!WatchCancel, X!CallCancel, X!Kill, X!Answers
<1>14. CASE X!WatchHandOver
  BY <1>14 DEF X!WatchHandOver
<1>15. CASE X!WatchExpired
  BY <1>15 DEF X!WatchExpired
<1>16. ASSUME NEW a \in X!Answers, X!WatchKill(a) PROVE CmdInv'
  BY <1>16 DEF X!WatchKill, X!Kill, X!Answers
<1>17. CASE X!WatchCopied
  BY <1>17 DEF X!WatchCopied
<1>18. CASE X!WatchClose
  BY <1>18 DEF X!WatchClose
<1>19. CASE X!WatchDrain
  BY <1>19 DEF X!WatchDrain
<1>20. CASE X!WatchSend
  BY <1>20 DEF X!WatchSend
<1>21. CASE X!Wait
  BY <1>21 DEF X!Wait
<1>22. CASE X!ProcessWait
  BY <1>22 DEF X!ProcessWait
<1>23. CASE X!AwaitNone
  BY <1>23 DEF X!AwaitNone, X!Finish
<1>24. CASE X!AwaitCopied
  BY <1>24 DEF X!AwaitCopied, X!Finish
<1>25. CASE X!AwaitTimer
  BY <1>25 DEF X!AwaitTimer
<1>26. CASE X!AwaitExpired
  BY <1>26 DEF X!AwaitExpired
<1>27. CASE X!AwaitDrain
  BY <1>27 DEF X!AwaitDrain, X!Finish
<1>28. CASE UNCHANGED X!vars
  BY <1>28 DEF X!vars
<1>29. QED
  BY <1>1, <1>2, <1>3, <1>4, <1>5, <1>6, <1>7, <1>8, <1>9, <1>10, <1>11, <1>12, <1>13, <1>14,
     <1>15, <1>16, <1>17, <1>18, <1>19, <1>20, <1>21, <1>22, <1>23, <1>24, <1>25, <1>26, <1>27,
     <1>28, Zenon DEF X!Next, X!Caller, X!Watch

\* When Wait returns, the child is reaped, every goroutine of the command is
\* over, its pipes are closed and no timer runs; Wait and watchCtx are never
\* both at the channel of the copiers.
THEOREM CmdNothingRunsOn == X!Spec => []NothingRunsOn
<1>1. CmdInv => NothingRunsOn
  BY Zenon DEF CmdInv, CmdPlaces, CmdCopiers, NothingRunsOn, X!NothingRunsOn
<1>2. QED
  BY <1>1, CmdInit, CmdStep, PTL DEF X!Spec

\* Wait returns nil only for a child that exited with success, whose output
\* was copied to its end, and that Cancel has not interrupted.
THEOREM CmdNilMeansComplete == X!Spec => []NilMeansComplete
<1>1. CmdInv => NilMeansComplete
  BY Zenon DEF CmdInv, CmdPlaces, CmdErrors, Excused, NilMeansComplete, X!NilMeansComplete
<1>2. QED
  BY <1>1, CmdInit, CmdStep, PTL DEF X!Spec

-----------------------------------------------------------------------------
(***************************************************************************)
(* A Conn.  The one goroutine that has swapped done (Closers) holds        *)
(* closemu alone when it releases the connection; whoever has the          *)
(* connection holds closemu for reading; and after the release there is no *)
(* connection left to grab.                                                *)
(***************************************************************************)
Closers == {u \in Users : cpc[u] \in {"lock", "pending", "closing"}}

UseIsLocked ==
    /\ grabbed \subseteq creaders
    /\ \A u \in grabbed : cpc[u] = "op"
    /\ \A u \in Users : cpc[u] = "closing" => creaders = {}

OneCloser ==
    /\ \A u, v \in Closers : u = v
    /\ Closers # {} => cdone /\ creleased = 0
    /\ \A u \in Users : cpc[u] \in {"pending", "closing"} => cwriter = {u}

ReleaseEndsIt ==
    /\ dc <=> creleased = 0
    /\ creleased > 0 => cdone /\ grabbed = {}

ConnInv == C!TypeOK /\ UseIsLocked /\ OneCloser /\ ReleaseEndsIt

\* A new Conn satisfies the inductive invariant.
LEMMA ConnInit == C!Init => ConnInv
<1> SUFFICES ASSUME C!Init PROVE ConnInv
  BY Zenon
<1>1. Closers = {}
  BY Zenon DEF C!Init, Closers
<1>2. C!TypeOK
  <2>1. cdone \in BOOLEAN /\ dc \in BOOLEAN
    BY Zenon DEF C!Init
  <2>2. QED
    BY <2>1 DEF C!Init, C!TypeOK
<1>3. UseIsLocked
  BY Zenon DEF C!Init, UseIsLocked
<1>4. OneCloser
  BY <1>1, Zenon DEF C!Init, OneCloser
<1>5. dc /\ creleased = 0
  BY Zenon DEF C!Init
<1>6. QED
  BY <1>2, <1>3, <1>4, <1>5 DEF ConnInv, ReleaseEndsIt

\* No step of an operation or of close breaks it.
LEMMA ConnStep == ConnInv /\ [C!Next]_(C!vars) => ConnInv'
<1> SUFFICES ASSUME ConnInv, [C!Next]_(C!vars) PROVE ConnInv'
  BY Zenon
<1> USE DEF ConnInv, C!TypeOK, UseIsLocked, OneCloser, ReleaseEndsIt, Closers, C!Goto
<1>1. ASSUME NEW u \in Users, C!GrabConn(u) PROVE ConnInv'
  BY <1>1 DEF C!GrabConn
<1>2. ASSUME NEW u \in Users, C!Close(u) PROVE ConnInv'
  BY <1>2 DEF C!Close
<1>3. ASSUME NEW u \in Users, C!GrabRLock(u) PROVE ConnInv'
  BY <1>3 DEF C!GrabRLock
<1>4. ASSUME NEW u \in Users, NEW bad \in BOOLEAN, C!OpDone(u, bad) PROVE ConnInv'
  BY <1>4 DEF C!OpDone
<1>5. ASSUME NEW u \in Users, C!OpOnNil(u) PROVE ConnInv'
  BY <1>5 DEF C!OpOnNil
<1>6. ASSUME NEW u \in Users, C!CloseCAS(u) PROVE ConnInv'
  BY <1>6 DEF C!CloseCAS
<1>7. ASSUME NEW u \in Users, C!ClosemuLock(u) PROVE ConnInv'
  BY <1>7 DEF C!ClosemuLock
<1>8. ASSUME NEW u \in Users, C!ClosemuLocked(u) PROVE ConnInv'
  BY <1>8, Zenon DEF C!ClosemuLocked
<1>9. ASSUME NEW u \in Users, C!CloseRelease(u) PROVE ConnInv'
  <2>1. u \in Closers /\ cdone /\ creleased = 0 /\ creaders = {} /\ grabbed = {}
    BY <1>9, Zenon DEF C!CloseRelease
  <2>2. Closers' = {}
    BY <1>9, <2>1, Zenon DEF C!CloseRelease
  <2>3. creleased' = 1 /\ ~dc' /\ cdone' /\ grabbed' = {}
    BY <1>9, <2>1 DEF C!CloseRelease
  <2>4. C!TypeOK'
    <3>1. dc' \in BOOLEAN
      BY <1>9, Zenon DEF C!CloseRelease
    <3>2. QED
      BY <1>9, <2>1, <2>3, <3>1 DEF C!CloseRelease
  <2>5. UseIsLocked'
    BY <1>9, <2>1, <2>3, Zenon DEF C!CloseRelease
  <2>6. OneCloser'
    BY <2>2, Zenon
  <2>7. ReleaseEndsIt'
    BY <2>3
  <2>8. QED
    BY <2>4, <2>5, <2>6, <2>7, Zenon
<1>10. CASE UNCHANGED C!vars
  BY <1>10, Zenon DEF C!vars
<1> HIDE DEF ConnInv, C!TypeOK, UseIsLocked, OneCloser, ReleaseEndsIt, Closers, C!Goto
<1>11. QED
  BY <1>1, <1>2, <1>3, <1>4, <1>5, <1>6, <1>7, <1>8, <1>9, <1>10, Zenon DEF C!Next, C!Step

\* The connection of a Conn goes back to the pool at most once, after Close or
\* an ErrBadConn has set done, and when no operation that got hold of the
\* connection is still running.
THEOREM ConnReleasedUnused == C!Spec => [](C!TypeOK /\ ReleasedUnused)
<1>1. ConnInv => C!TypeOK /\ ReleasedUnused
  BY Zenon DEF ConnInv, ReleaseEndsIt, ReleasedUnused, C!ReleasedUnused
<1>2. QED
  BY <1>1, ConnInit, ConnStep, PTL DEF C!Spec

-----------------------------------------------------------------------------
(***************************************************************************)
(* A transaction.  The one goroutine that has swapped done owns the end of *)
(* the transaction (Winners); whoever uses the connection holds closemu    *)
(* for reading; and once the owner has passed closemu nobody uses the      *)
(* connection again, because a new reader finds done set.                  *)
(***************************************************************************)
Before == {"cancel", "lock", "pending", "driver"}
After == {"close", "release"}
Winners == {p \in Procs : pc[p] \in Before \cup After}

TxUseIsLocked ==
    /\ rowsOpen \subseteq readers
    /\ \A u \in rowsOpen : pc[u] = "rows"
    /\ \A u \in Users : pc[u] \in {"locked", "exec", "prepare", "stmt"} => u \in readers

OneWinner ==
    /\ \A p, q \in Winners : p = q
    /\ Winners # {} => done /\ released = 0
    /\ ~done => outcome = {} /\ released = 0

OutcomeOnce ==
    /\ \A p \in Procs : pc[p] \in Before => outcome = {}
    /\ \A p \in Procs : pc[p] \in After => outcome # {}
    /\ released \in {0, 1}
    /\ released = 1 => outcome # {} /\ Winners = {}
    /\ \A a, b \in outcome : a = b

AwaitRollsBack == \A p \in Procs : p \notin Users => pc[p] # "commit"

TxInv == TypeOK /\ TxUseIsLocked /\ OneWinner /\ OutcomeOnce /\ AwaitRollsBack /\ EndsUnused

\* A set whose elements are all equal has at most one.
LEMMA AtMostOne ==
    ASSUME NEW S, \A a, b \in S : a = b
    PROVE  IsFiniteSet(S) /\ Cardinality(S) <= 1
<1>1. CASE S = {}
  BY <1>1, FS_EmptySet
<1>2. CASE S # {}
  <2>1. PICK a : a \in S
    BY <1>2, Zenon
  <2>2. S = {a}
    BY <2>1, Zenon
  <2>3. IsFiniteSet({a}) /\ Cardinality({a}) = 1
    BY FS_Singleton, Zenon
  <2>4. QED
    BY <2>2, <2>3
<1>3. QED
  BY <1>1, <1>2, Zenon

\* A new transaction satisfies the inductive invariant.
LEMMA TxInit == Init => TxInv
<1> SUFFICES ASSUME Init PROVE TxInv
  BY Zenon
<1>1. \A p \in Procs : pc[p] \in {"idle", "await"}
  BY Zenon DEF Init
<1>2. TypeOK
  BY Zenon DEF Init, TypeOK, Stmts
<1>3. Winners = {} /\ Active = {} /\ Ending = {}
  BY <1>1, Zenon DEF Init, Winners, Before, After, Active, Ending, Procs
<1>4. TxUseIsLocked /\ AwaitRollsBack
  BY <1>1, Zenon DEF Init, TxUseIsLocked, AwaitRollsBack, Procs
<1>5. OneWinner /\ OutcomeOnce /\ EndsUnused
  BY <1>1, <1>3 DEF Init, OneWinner, OutcomeOnce, EndsUnused, Before, After
<1>6. QED
  BY <1>2, <1>4, <1>5, Zenon DEF TxInv

\* No step of a user, of Commit, of rollback or of awaitDone breaks it.
LEMMA TxStep == TxInv /\ [Next]_vars => TxInv'
<1> SUFFICES ASSUME TxInv, [Next]_vars PROVE TxInv'
  BY Zenon
<1>0. TypeOK /\ TxUseIsLocked /\ OneWinner /\ OutcomeOnce /\ AwaitRollsBack /\ EndsUnused
  BY Zenon DEF TxInv
<1>1. ASSUME NEW u \in Users, Grab(u) PROVE TxInv'
  <2>1. TypeOK' /\ TxUseIsLocked' /\ AwaitRollsBack'
    BY <1>0, <1>1, Zenon DEF Grab, Goto, TypeOK, Procs, Stmts, TxUseIsLocked, AwaitRollsBack
  <2>2. OneWinner' /\ OutcomeOnce'
    BY <1>0, <1>1, Zenon DEF Grab, Goto, TypeOK, OneWinner, Winners, Before, After, Procs,
       OutcomeOnce
  <2>3. EndsUnused'
    BY <1>0, <1>1, Zenon DEF Grab, Goto, TypeOK, TxUseIsLocked, OneWinner, OutcomeOnce,
       EndsUnused, Winners, Before, After, Active, Ending, Procs
  <2>4. QED
    BY <2>1, <2>2, <2>3, Zenon DEF TxInv
<1>2. ASSUME NEW u \in Users, Commit(u) PROVE TxInv'
  <2>1. TypeOK' /\ TxUseIsLocked' /\ AwaitRollsBack'
    BY <1>0, <1>2, Zenon DEF Commit, Goto, TypeOK, Procs, Stmts, TxUseIsLocked, AwaitRollsBack
  <2>2. OneWinner' /\ OutcomeOnce'
    BY <1>0, <1>2, Zenon DEF Commit, Goto, TypeOK, OneWinner, Winners, Before, After, Procs,
       OutcomeOnce
  <2>3. EndsUnused'
    BY <1>0, <1>2, Zenon DEF Commit, Goto, TypeOK, TxUseIsLocked, OneWinner, OutcomeOnce,
       EndsUnused, Winners, Before, After, Active, Ending, Procs
  <2>4. QED
    BY <2>1, <2>2, <2>3, Zenon DEF TxInv
<1>3. ASSUME NEW u \in Users, Rollback(u) PROVE TxInv'
  <2>1. TypeOK' /\ TxUseIsLocked' /\ AwaitRollsBack'
    BY <1>0, <1>3, Zenon DEF Rollback, Goto, TypeOK, Procs, Stmts, TxUseIsLocked,
       AwaitRollsBack
  <2>2. OneWinner' /\ OutcomeOnce'
    BY <1>0, <1>3, Zenon DEF Rollback, Goto, TypeOK, OneWinner, Winners, Before, After, Procs,
       OutcomeOnce
  <2>3. EndsUnused'
    BY <1>0, <1>3, Zenon DEF Rollback, Goto, TypeOK, TxUseIsLocked, OneWinner, OutcomeOnce,
       EndsUnused, Winners, Before, After, Active, Ending, Procs
  <2>4. QED
    BY <2>1, <2>2, <2>3, Zenon DEF TxInv
<1>4. ASSUME NEW u \in Users, RowsClose(u) PROVE TxInv'
  <2>1. TypeOK' /\ TxUseIsLocked' /\ AwaitRollsBack'
    BY <1>0, <1>4, Zenon DEF RowsClose, Goto, TypeOK, Procs, Stmts, TxUseIsLocked,
       AwaitRollsBack
  <2>2. OneWinner' /\ OutcomeOnce'
    BY <1>0, <1>4, Zenon DEF RowsClose, Goto, TypeOK, OneWinner, Winners, Before, After,
       Procs, OutcomeOnce
  <2>3. EndsUnused'
    BY <1>0, <1>4, Zenon DEF RowsClose, Goto, TypeOK, TxUseIsLocked, OneWinner, OutcomeOnce,
       EndsUnused, Winners, Before, After, Active, Ending, Procs
  <2>4. QED
    BY <2>1, <2>2, <2>3, Zenon DEF TxInv
<1>5. ASSUME NEW u \in Users, GrabRLock(u) PROVE TxInv'
  <2>1. TypeOK' /\ TxUseIsLocked' /\ AwaitRollsBack'
    BY <1>0, <1>5, Zenon DEF GrabRLock, Goto, TypeOK, Procs, Stmts, TxUseIsLocked,
       AwaitRollsBack
  <2>2. OneWinner' /\ OutcomeOnce'
    BY <1>0, <1>5, Zenon DEF GrabRLock, Goto, TypeOK, OneWinner, Winners, Before, After,
       Procs, OutcomeOnce
  <2>3. EndsUnused'
    BY <1>0, <1>5, Zenon DEF GrabRLock, Goto, TypeOK, TxUseIsLocked, OneWinner, OutcomeOnce,
       EndsUnused, Winners, Before, After, Active, Ending, Procs
  <2>4. QED
    BY <2>1, <2>2, <2>3, Zenon DEF TxInv
<1>6. ASSUME NEW u \in Users, NEW op \in {"exec", "prepare", "stmt"}, GrabIsDone(u, op)
      PROVE TxInv'
  <2>1. TypeOK' /\ TxUseIsLocked' /\ AwaitRollsBack'
    BY <1>0, <1>6, Zenon DEF GrabIsDone, Goto, TypeOK, Procs, Stmts, TxUseIsLocked,
       AwaitRollsBack
  <2>2. OutcomeOnce'
    BY <1>0, <1>6, Zenon DEF GrabIsDone, Goto, TypeOK, OneWinner, OutcomeOnce, Winners,
       Before, After, Procs
  <2>3. OneWinner'
    <3>1. pc[u] \notin Before \cup After /\ pc'[u] \notin Before \cup After
      BY <1>0, <1>6 DEF GrabIsDone, Goto, TypeOK, Before, After
    <3>2. \A p \in Procs \ {u} : pc'[p] = pc[p]
      BY <1>0, <1>6, Zenon DEF GrabIsDone, Goto, TypeOK
    <3>3. Winners' = Winners
      BY <3>1, <3>2 DEF Winners
    <3>4. QED
      BY <1>0, <1>6, <3>3, Zenon DEF GrabIsDone, OneWinner
  <2>4. EndsUnused'
    <3>1. CASE ~done
      <4>1. released = 0 /\ Winners = {}
        BY <1>0, <3>1, Zenon DEF OneWinner
      <4>2. released' = 0 /\ done' = done
        BY <1>6, <4>1, Zenon DEF GrabIsDone
      <4>3. Winners' = {}
        BY <2>3, <3>1, <4>2, Zenon DEF OneWinner
      <4>4. Ending' = {}
        BY <4>3, Zenon DEF Ending, Winners, Before, After
      <4>5. QED
        BY <4>2, <4>4 DEF EndsUnused
    <3>2. CASE done
      <4>1. pc[u] = "locked" /\ pc' = [pc EXCEPT ![u] = "idle"]
        BY <1>6, <3>2, Zenon DEF GrabIsDone, Goto
      <4>2. Ending' \subseteq Ending /\ Active' \subseteq Active
        BY <1>0, <1>6, <4>1, Zenon DEF GrabIsDone, TypeOK, Ending, Active, Procs
      <4>3. released' = released
        BY <1>6, Zenon DEF GrabIsDone
      <4>4. QED
        BY <1>0, <4>2, <4>3, Zenon DEF EndsUnused
    <3>3. QED
      BY <3>1, <3>2, Zenon
  <2>5. QED
    BY <2>1, <2>2, <2>3, <2>4, Zenon DEF TxInv
<1>7. ASSUME NEW u \in Users, OpDone(u) PROVE TxInv'
  <2>1. TypeOK' /\ TxUseIsLocked' /\ AwaitRollsBack'
    BY <1>0, <1>7, Zenon DEF OpDone, TypeOK, Procs, Stmts, TxUseIsLocked, AwaitRollsBack
  <2>2. OneWinner' /\ OutcomeOnce'
    BY <1>0, <1>7, Zenon DEF OpDone, TypeOK, OneWinner, Winners, Before, After, Procs,
       OutcomeOnce
  <2>3. EndsUnused'
    BY <1>0, <1>7, Zenon DEF OpDone, TypeOK, TxUseIsLocked, OneWinner, OutcomeOnce,
       EndsUnused, Winners, Before, After, Active, Ending, Procs
  <2>4. QED
    BY <2>1, <2>2, <2>3, Zenon DEF TxInv
<1>8. ASSUME NEW u \in Users, QueryDone(u) PROVE TxInv'
  <2>1. TypeOK' /\ TxUseIsLocked' /\ AwaitRollsBack'
    BY <1>0, <1>8, Zenon DEF QueryDone, Goto, TypeOK, Procs, Stmts, TxUseIsLocked,
       AwaitRollsBack
  <2>2. OneWinner' /\ OutcomeOnce'
    BY <1>0, <1>8, Zenon DEF QueryDone, Goto, TypeOK, OneWinner, Winners, Before, After,
       Procs, OutcomeOnce
  <2>3. EndsUnused'
    BY <1>0, <1>8, Zenon DEF QueryDone, Goto, TypeOK, TxUseIsLocked, OneWinner, OutcomeOnce,
       EndsUnused, Winners, Before, After, Active, Ending, Procs
  <2>4. QED
    BY <2>1, <2>2, <2>3, Zenon DEF TxInv
<1>9. ASSUME NEW u \in Users, PrepareDone(u) PROVE TxInv'
  <2>1. TxUseIsLocked' /\ AwaitRollsBack'
    BY <1>0, <1>9, Zenon DEF PrepareDone, Goto, TypeOK, TxUseIsLocked, Procs, AwaitRollsBack
  <2>2. TypeOK'
    BY <1>0, <1>9 DEF PrepareDone, Goto, TypeOK, Procs, Stmts
  <2>3. OneWinner' /\ OutcomeOnce'
    BY <1>0, <1>9, Zenon DEF PrepareDone, Goto, TypeOK, OneWinner, Winners, Before, After,
       Procs, OutcomeOnce
  <2>4. EndsUnused'
    BY <1>0, <1>9, Zenon DEF PrepareDone, Goto, TypeOK, TxUseIsLocked, OneWinner, OutcomeOnce,
       EndsUnused, Winners, Before, After, Active, Ending, Procs
  <2>5. QED
    BY <2>1, <2>2, <2>3, <2>4, Zenon DEF TxInv
<1>10. ASSUME NEW u \in Users, PrepareAppend(u) PROVE TxInv'
  <2>1. TxUseIsLocked' /\ AwaitRollsBack'
    BY <1>0, <1>10, Zenon DEF PrepareAppend, Goto, TypeOK, TxUseIsLocked, Procs, AwaitRollsBack
  <2>2. TypeOK'
    BY <1>0, <1>10 DEF PrepareAppend, Goto, TypeOK, Procs, Stmts
  <2>3. OneWinner' /\ OutcomeOnce'
    BY <1>0, <1>10, Zenon DEF PrepareAppend, Goto, TypeOK, OneWinner, Winners, Before, After,
       Procs, OutcomeOnce
  <2>4. EndsUnused'
    BY <1>0, <1>10, Zenon DEF PrepareAppend, Goto, TypeOK, TxUseIsLocked, OneWinner,
       OutcomeOnce, EndsUnused, Winners, Before, After, Active, Ending, Procs
  <2>5. QED
    BY <2>1, <2>2, <2>3, <2>4, Zenon DEF TxInv
<1>11. ASSUME NEW u \in Users, StmtDone(u) PROVE TxInv'
  <2>1. TxUseIsLocked' /\ AwaitRollsBack'
    BY <1>0, <1>11, Zenon DEF StmtDone, Goto, TypeOK, TxUseIsLocked, Procs, AwaitRollsBack
  <2>2. TypeOK'
    BY <1>0, <1>11 DEF StmtDone, Goto, TypeOK, Procs, Stmts
  <2>3. OneWinner' /\ OutcomeOnce'
    BY <1>0, <1>11, Zenon DEF StmtDone, Goto, TypeOK, OneWinner, Winners, Before, After,
       Procs, OutcomeOnce
  <2>4. EndsUnused'
    BY <1>0, <1>11, Zenon DEF StmtDone, Goto, TypeOK, TxUseIsLocked, OneWinner, OutcomeOnce,
       EndsUnused, Winners, Before, After, Active, Ending, Procs
  <2>5. QED
    BY <2>1, <2>2, <2>3, <2>4, Zenon DEF TxInv
<1>12. ASSUME NEW u \in Users, RowsAwaitDone(u) PROVE TxInv'
  <2>1. TypeOK' /\ TxUseIsLocked' /\ AwaitRollsBack'
    BY <1>0, <1>12, Zenon DEF RowsAwaitDone, TypeOK, Procs, Stmts, TxUseIsLocked,
       AwaitRollsBack
  <2>2. OneWinner' /\ OutcomeOnce'
    BY <1>0, <1>12, Zenon DEF RowsAwaitDone, TypeOK, OneWinner, Winners, Before, After, Procs,
       OutcomeOnce
  <2>3. EndsUnused'
    BY <1>0, <1>12, Zenon DEF RowsAwaitDone, TypeOK, TxUseIsLocked, OneWinner, OutcomeOnce,
       EndsUnused, Winners, Before, After, Active, Ending, Procs
  <2>4. QED
    BY <2>1, <2>2, <2>3, Zenon DEF TxInv
<1>13. ASSUME NEW p \in Procs, WinOrReturn(p) PROVE TxInv'
  <2>1. TxUseIsLocked' /\ AwaitRollsBack'
    BY <1>0, <1>13, Zenon DEF WinOrReturn, TypeOK, TxUseIsLocked, Procs, AwaitRollsBack
  <2>2. TypeOK'
    <3>1. commits' \subseteq Users
      BY <1>0, <1>13, Zenon DEF WinOrReturn, TypeOK, AwaitRollsBack
    <3>2. pc' \in [Procs -> {"idle", "grab", "locked", "exec", "rows", "prepare", "append",
                             "stmt", "await", "commit", "rollback", "cancel", "lock",
                             "pending", "driver", "close", "release"}]
      BY <1>0, <1>13, Zenon DEF WinOrReturn, TypeOK
    <3>3. QED
      BY <1>0, <1>13, <3>1, <3>2, Zenon DEF WinOrReturn, TypeOK
  <2>3. OneWinner' /\ OutcomeOnce'
    BY <1>0, <1>13, Zenon DEF WinOrReturn, TypeOK, OneWinner, Winners, Before, After, Procs,
       OutcomeOnce
  <2>4. EndsUnused'
    BY <1>0, <1>13, Zenon DEF WinOrReturn, TypeOK, TxUseIsLocked, OneWinner, OutcomeOnce,
       EndsUnused, Winners, Before, After, Active, Ending, Procs
  <2>5. QED
    BY <2>1, <2>2, <2>3, <2>4, Zenon DEF TxInv
<1>14. ASSUME NEW p \in Procs, CancelTx(p) PROVE TxInv'
  <2>1. TypeOK' /\ TxUseIsLocked' /\ AwaitRollsBack'
    BY <1>0, <1>14, Zenon DEF CancelTx, Goto, TypeOK, Procs, Stmts, TxUseIsLocked,
       AwaitRollsBack
  <2>2. OneWinner' /\ OutcomeOnce'
    BY <1>0, <1>14, Zenon DEF CancelTx, Goto, TypeOK, OneWinner, Winners, Before, After,
       Procs, OutcomeOnce
  <2>3. EndsUnused'
    BY <1>0, <1>14, Zenon DEF CancelTx, Goto, TypeOK, TxUseIsLocked, OneWinner, OutcomeOnce,
       EndsUnused, Winners, Before, After, Active, Ending, Procs
  <2>4. QED
    BY <2>1, <2>2, <2>3, Zenon DEF TxInv
<1>15. ASSUME NEW p \in Procs, LockClosemu(p) PROVE TxInv'
  <2>1. TypeOK' /\ TxUseIsLocked' /\ AwaitRollsBack'
    BY <1>0, <1>15, Zenon DEF LockClosemu, Goto, TypeOK, Procs, Stmts, TxUseIsLocked,
       AwaitRollsBack
  <2>2. OneWinner' /\ OutcomeOnce'
    BY <1>0, <1>15, Zenon DEF LockClosemu, Goto, TypeOK, OneWinner, Winners, Before, After,
       Procs, OutcomeOnce
  <2>3. EndsUnused'
    BY <1>0, <1>15, Zenon DEF LockClosemu, Goto, TypeOK, TxUseIsLocked, OneWinner,
       OutcomeOnce, EndsUnused, Winners, Before, After, Active, Ending, Procs
  <2>4. QED
    BY <2>1, <2>2, <2>3, Zenon DEF TxInv
<1>16. ASSUME NEW p \in Procs, UnlockClosemu(p) PROVE TxInv'
  <2>1. TypeOK' /\ TxUseIsLocked' /\ AwaitRollsBack'
    BY <1>0, <1>16, Zenon DEF UnlockClosemu, Goto, TypeOK, Procs, Stmts, TxUseIsLocked,
       AwaitRollsBack
  <2>2. OutcomeOnce'
    BY <1>0, <1>16, Zenon DEF UnlockClosemu, Goto, TypeOK, OneWinner, OutcomeOnce, Winners,
       Before, After, Procs
  <2>3. OneWinner'
    BY <1>0, <1>16 DEF UnlockClosemu, Goto, TypeOK, OneWinner, Winners, Before, After, Procs
  <2>4. EndsUnused'
    BY <1>0, <1>16, Zenon DEF UnlockClosemu, Goto, TypeOK, TxUseIsLocked, OneWinner,
       OutcomeOnce, EndsUnused, Winners, Before, After, Active, Ending, Procs
  <2>5. QED
    BY <2>1, <2>2, <2>3, <2>4, Zenon DEF TxInv
<1>17. ASSUME NEW p \in Procs, NEW bad \in BOOLEAN, DriverFinish(p, bad) PROVE TxInv'
  <2> DEFINE c == IF p \in commits THEN "commit" ELSE "rollback"
             o == <<c, bad>>
  <2>0. c \in {"commit", "rollback"}
    BY Zenon
  <2>1. o \in {"commit", "rollback"} \X BOOLEAN /\ outcome' = outcome \cup {o}
    BY <1>17, <2>0, Zenon DEF DriverFinish
  <2>2. outcome = {}
    BY <1>0, <1>17, Zenon DEF DriverFinish, Goto, OutcomeOnce, Before
  <2>3. outcome' = {o}
    BY <2>1, <2>2, Zenon
  <2> HIDE DEF o
  <2>4. TypeOK' /\ TxUseIsLocked' /\ AwaitRollsBack'
    BY <1>0, <1>17, <2>1, <2>2, <2>3, Zenon DEF DriverFinish, Goto, TypeOK, Procs, Stmts,
       TxUseIsLocked, AwaitRollsBack
  <2>5. OutcomeOnce'
    BY <1>0, <1>17, <2>1, <2>2, <2>3, Zenon DEF DriverFinish, Goto, TypeOK, OneWinner,
       OutcomeOnce, Winners, Before, After, Procs
  <2>6. OneWinner'
    BY <1>0, <1>17, <2>1, <2>2, <2>3 DEF DriverFinish, Goto, TypeOK, OneWinner, Winners,
       Before, After, Procs
  <2>7. EndsUnused'
    BY <1>0, <1>17, <2>1, <2>2, <2>3, Zenon DEF DriverFinish, Goto, TypeOK, TxUseIsLocked,
       OneWinner, OutcomeOnce, EndsUnused, Winners, Before, After, Active, Ending, Procs
  <2>8. QED
    BY <2>4, <2>5, <2>6, <2>7, Zenon DEF TxInv
<1>18. ASSUME NEW p \in Procs, ClosePrepared(p) PROVE TxInv'
  <2>1. TypeOK' /\ TxUseIsLocked' /\ AwaitRollsBack'
    BY <1>0, <1>18, Zenon DEF ClosePrepared, Goto, TypeOK, Procs, Stmts, TxUseIsLocked,
       AwaitRollsBack
  <2>2. OneWinner' /\ OutcomeOnce'
    BY <1>0, <1>18, Zenon DEF ClosePrepared, Goto, TypeOK, OneWinner, Winners, Before, After,
       Procs, OutcomeOnce
  <2>3. EndsUnused'
    BY <1>0, <1>18, Zenon DEF ClosePrepared, Goto, TypeOK, TxUseIsLocked, OneWinner,
       OutcomeOnce, EndsUnused, Winners, Before, After, Active, Ending, Procs
  <2>4. QED
    BY <2>1, <2>2, <2>3, Zenon DEF TxInv
<1>19. ASSUME NEW p \in Procs, Release(p) PROVE TxInv'
  <2>1. TxUseIsLocked' /\ AwaitRollsBack'
    BY <1>0, <1>19, Zenon DEF Release, Goto, TypeOK, TxUseIsLocked, Procs, AwaitRollsBack
  <2>2. TypeOK'
    BY <1>0, <1>19 DEF Release, Goto, TypeOK, Procs, Stmts
  <2>3. OneWinner'
    BY <1>0, <1>19, Zenon DEF Release, Goto, TypeOK, OneWinner, Winners, Before, After, Procs
  <2>4. OutcomeOnce'
    BY <1>0, <1>19 DEF Release, Goto, TypeOK, OneWinner, OutcomeOnce, Winners, Before, After,
       Procs
  <2>5. EndsUnused'
    BY <1>0, <1>19, Zenon DEF Release, Goto, TypeOK, TxUseIsLocked, OneWinner, OutcomeOnce,
       EndsUnused, Winners, Before, After, Active, Ending, Procs
  <2>6. QED
    BY <2>1, <2>2, <2>3, <2>4, <2>5, Zenon DEF TxInv
<1>20. CASE AwaitDone
  <2>1. TypeOK' /\ TxUseIsLocked' /\ AwaitRollsBack'
    BY <1>0, <1>20, Zenon DEF AwaitDone, Goto, TypeOK, Procs, Stmts, TxUseIsLocked,
       AwaitRollsBack
  <2>2. OneWinner' /\ OutcomeOnce'
    BY <1>0, <1>20, Zenon DEF AwaitDone, Goto, TypeOK, OneWinner, Winners, Before, After,
       Procs, OutcomeOnce
  <2>3. EndsUnused'
    BY <1>0, <1>20, Zenon DEF AwaitDone, Goto, TypeOK, TxUseIsLocked, OneWinner, OutcomeOnce,
       EndsUnused, Winners, Before, After, Active, Ending, Procs
  <2>4. QED
    BY <2>1, <2>2, <2>3, Zenon DEF TxInv
<1>21. CASE ContextEnds
  <2>1. TypeOK' /\ TxUseIsLocked' /\ AwaitRollsBack'
    BY <1>0, <1>21, Zenon DEF ContextEnds, TypeOK, Procs, Stmts, TxUseIsLocked, AwaitRollsBack
  <2>2. OneWinner' /\ OutcomeOnce'
    BY <1>0, <1>21, Zenon DEF ContextEnds, TypeOK, OneWinner, Winners, Before, After, Procs,
       OutcomeOnce
  <2>3. EndsUnused'
    BY <1>0, <1>21, Zenon DEF ContextEnds, TypeOK, TxUseIsLocked, OneWinner, OutcomeOnce,
       EndsUnused, Winners, Before, After, Active, Ending, Procs
  <2>4. QED
    BY <2>1, <2>2, <2>3, Zenon DEF TxInv
<1>22. CASE UNCHANGED vars
  <2>1. TypeOK' /\ TxUseIsLocked' /\ AwaitRollsBack'
    BY <1>0, <1>22, Zenon DEF vars, TypeOK, Procs, Stmts, TxUseIsLocked, AwaitRollsBack
  <2>2. OneWinner' /\ OutcomeOnce'
    BY <1>0, <1>22, Zenon DEF vars, TypeOK, OneWinner, Winners, Before, After, Procs,
       OutcomeOnce
  <2>3. EndsUnused'
    BY <1>0, <1>22, Zenon DEF vars, TypeOK, TxUseIsLocked, OneWinner, OutcomeOnce, EndsUnused,
       Winners, Before, After, Active, Ending, Procs
  <2>4. QED
    BY <2>1, <2>2, <2>3, Zenon DEF TxInv
<1>23. QED
  BY <1>1, <1>2, <1>3, <1>4, <1>5, <1>6, <1>7, <1>8, <1>9, <1>10, <1>11, <1>12, <1>13,
     <1>14, <1>15, <1>16, <1>17, <1>18, <1>19, <1>20, <1>21, <1>22, Zenon DEF Next, Calls,
     Operation, Finish

\* The inductive invariant holds of every transaction.
THEOREM TxInvariant == Spec => []TxInv
BY TxInit, TxStep, PTL DEF Spec

\* The state of a transaction keeps its shape, and awaitDone never commits.
THEOREM TypeCorrect == Spec => []TypeOK
<1>1. TxInv => TypeOK
  BY Zenon DEF TxInv
<1>2. QED
  BY <1>1, TxInvariant, PTL

\* Commit, Rollback and awaitDone give the driver one outcome between them and
\* release the connection once, after it.
THEOREM EndsWithOneOutcome == Spec => []OneOutcome
<1>1. TxInv => OneOutcome
  <2> SUFFICES ASSUME TxInv PROVE OneOutcome
    BY Zenon
  <2>1. Ending \subseteq Winners
    BY Zenon DEF Ending, Winners, Before, After
  <2>2. Cardinality(Ending) <= 1
    BY <2>1, AtMostOne, Zenon DEF TxInv, OneWinner
  <2>3. Cardinality(outcome) <= 1
    BY AtMostOne, Zenon DEF TxInv, OutcomeOnce
  <2>4. released <= 1 /\ (released = 1 => outcome # {} /\ Ending = {})
    BY <2>1 DEF TxInv, OutcomeOnce
  <2>5. QED
    BY <2>2, <2>3, <2>4, Zenon DEF OneOutcome
<1>2. QED
  BY <1>1, TxInvariant, PTL

\* The driver is never told the outcome, nor the connection released, while a
\* query or its Rows use the connection.
THEOREM NeverEndsInUse == Spec => []EndsUnused
<1>1. TxInv => EndsUnused
  BY Zenon DEF TxInv
<1>2. QED
  BY <1>1, TxInvariant, PTL

(***************************************************************************)
(* Statements.  What StmtContext has opened is in tx.stmts, because it is  *)
(* added under the read lock; so closePrepared closes all of it, and       *)
(* nothing can be opened behind the back of the one who ends the           *)
(* transaction (EndsUnused).                                               *)
(***************************************************************************)
Listed == \A u \in Users : <<u, "stmt">> \in open => <<u, "stmt">> \in stmts

Works == \A o \in outcome : ~o[2]

ClosedForRelease ==
    released = 1 \/ (\E p \in Procs : pc[p] = "release") =>
        (Works => \A u \in Users : <<u, "stmt">> \notin open)

SInv == Listed /\ ClosedForRelease

\* A step that neither opens nor closes a statement, nor ends the transaction,
\* keeps the invariant of the statements.
LEMMA StmtsUntouched ==
    ASSUME SInv, UNCHANGED <<stmts, open, outcome, released>>,
           \A p \in Procs : pc'[p] = "release" => pc[p] = "release"
    PROVE  SInv'
BY Zenon DEF SInv, Listed, ClosedForRelease, Works

\* No step breaks the invariant of the statements.
LEMMA StmtsStep == TxInv /\ SInv /\ [Next]_vars => SInv'
<1> SUFFICES ASSUME TxInv, SInv, [Next]_vars PROVE SInv'
  BY Zenon
<1>0. pc = [p \in Procs |-> pc[p]] /\ Users \subseteq Procs
  BY Zenon DEF TxInv, TypeOK, Procs
<1>1. ASSUME NEW u \in Users,
             \/ Calls(u) \/ GrabRLock(u) \/ OpDone(u) \/ QueryDone(u) \/ RowsAwaitDone(u)
             \/ \E op \in {"exec", "prepare", "stmt"} : GrabIsDone(u, op)
      PROVE SInv'
  <2>1. UNCHANGED <<stmts, open, outcome, released>>
    BY <1>1, Zenon DEF Calls, Grab, Commit, Rollback, RowsClose, GrabRLock, OpDone, QueryDone,
                RowsAwaitDone, GrabIsDone
  <2>2. \A p \in Procs : pc'[p] = "release" => pc[p] = "release"
    BY <1>0, <1>1, Zenon DEF Calls, Grab, Commit, Rollback, RowsClose, GrabRLock, OpDone,
       QueryDone, RowsAwaitDone, GrabIsDone, Goto
  <2>3. QED
    BY <2>1, <2>2, StmtsUntouched, Zenon
<1>2. ASSUME NEW u \in Users, PrepareDone(u) PROVE SInv'
  <2>1. \A v \in Users : <<v, "stmt">> \in open' <=> <<v, "stmt">> \in open
    BY <1>2, Zenon DEF PrepareDone
  <2>2. QED
    BY <1>0, <1>2, <2>1, Zenon DEF PrepareDone, Goto, SInv, Listed, ClosedForRelease, Works
<1>3. ASSUME NEW u \in Users, PrepareAppend(u) PROVE SInv'
  BY <1>0, <1>3, Zenon DEF PrepareAppend, Goto, SInv, Listed, ClosedForRelease, Works
<1>4. ASSUME NEW u \in Users, StmtDone(u) PROVE SInv'
  <2>1. u \in Active
    BY <1>4, Zenon DEF StmtDone, Goto, Active
  <2>2. released # 1 /\ \A p \in Procs : pc[p] # "release"
    BY <2>1 DEF TxInv, EndsUnused, Ending
  <2>3. ClosedForRelease'
    BY <1>0, <1>4, <2>2, Zenon DEF StmtDone, Goto, ClosedForRelease
  <2>4. Listed'
    BY <1>4, Zenon DEF StmtDone, SInv, Listed
  <2>5. QED
    BY <2>3, <2>4, Zenon DEF SInv
<1>5. ASSUME NEW p \in Procs, WinOrReturn(p) \/ CancelTx(p) \/ LockClosemu(p) \/ UnlockClosemu(p)
      PROVE SInv'
  <2>1. UNCHANGED <<stmts, open, outcome, released>>
    BY <1>5, Zenon DEF WinOrReturn, CancelTx, LockClosemu, UnlockClosemu
  <2>2. \A q \in Procs : pc'[q] = "release" => pc[q] = "release"
    BY <1>0, <1>5, Zenon DEF WinOrReturn, CancelTx, LockClosemu, UnlockClosemu, Goto
  <2>3. QED
    BY <2>1, <2>2, StmtsUntouched, Zenon
<1>6. ASSUME NEW p \in Procs, NEW bad \in BOOLEAN, DriverFinish(p, bad) PROVE SInv'
  <2>1. p \in Winners /\ released = 0 /\ \A q \in Winners : q = p
    BY <1>6, Zenon DEF DriverFinish, Goto, Winners, Before, TxInv, OneWinner
  <2>2. \A q \in Procs : q # p => pc[q] # "release"
    BY <2>1, Zenon DEF Winners, After
  <2>3. CASE bad
    <3>1. <<IF p \in commits THEN "commit" ELSE "rollback", bad>> \in outcome'
      BY <1>6, Zenon DEF DriverFinish
    <3>2. ~Works'
      BY <2>3, <3>1, Zenon DEF Works
    <3>3. QED
      BY <1>6, <3>2, Zenon DEF DriverFinish, SInv, Listed, ClosedForRelease
  <2>4. CASE ~bad
    <3>1. released' # 1 /\ \A q \in Procs : pc'[q] # "release"
      BY <1>0, <1>6, <2>1, <2>2, <2>4 DEF DriverFinish, Goto
    <3>2. QED
      BY <1>6, <3>1, Zenon DEF DriverFinish, SInv, Listed, ClosedForRelease
  <2>5. QED
    BY <2>3, <2>4, Zenon
<1>7. ASSUME NEW p \in Procs, ClosePrepared(p) PROVE SInv'
  <2>1. \A u \in Users : <<u, "stmt">> \notin open'
    BY <1>7, Zenon DEF ClosePrepared, SInv, Listed
  <2>2. QED
    BY <2>1, Zenon DEF SInv, Listed, ClosedForRelease
<1>8. ASSUME NEW p \in Procs, Release(p) PROVE SInv'
  <2>1. Works => \A u \in Users : <<u, "stmt">> \notin open
    BY <1>8, Zenon DEF Release, Goto, SInv, ClosedForRelease
  <2>2. QED
    BY <1>8, <2>1, Zenon DEF Release, SInv, Listed, ClosedForRelease, Works
<1>9. ASSUME AwaitDone \/ ContextEnds \/ UNCHANGED vars PROVE SInv'
  <2>1. UNCHANGED <<stmts, open, outcome, released>>
    BY <1>9, Zenon DEF AwaitDone, ContextEnds, vars
  <2>2. \A q \in Procs : pc'[q] = "release" => pc[q] = "release"
    BY <1>0, <1>9, Zenon DEF AwaitDone, ContextEnds, vars, Goto
  <2>3. QED
    BY <2>1, <2>2, StmtsUntouched, Zenon
<1>10. QED
  BY <1>1, <1>2, <1>3, <1>4, <1>5, <1>6, <1>7, <1>8, <1>9, Zenon DEF Next, Operation, Finish

\* Every statement that StmtContext made is closed by the time the transaction
\* gives back a connection that still works.
THEOREM StmtsClosedWithTx == Spec => []StmtsClosed
<1>1. Init => SInv
  BY Zenon DEF Init, SInv, Listed, ClosedForRelease
<1>2. SInv => StmtsClosed
  BY Zenon DEF SInv, ClosedForRelease, Works, StmtsClosed
<1>3. QED
  BY <1>1, <1>2, StmtsStep, TxInvariant, PTL DEF Spec
=============================================================================
