------------------------------- MODULE SqlPool -------------------------------
(***************************************************************************)
(* The connection pool of database/sql (DB in database/sql/sql.go).        *)
(*                                                                         *)
(* Clients call DB.conn through DB.retry, use the driverConn they get and  *)
(* give it back with putConn; the opener goroutine opens connections for   *)
(* the waiting requests; the cleaner goroutine closes those that are too   *)
(* old or idle for too long; an administrator calls the Set methods, and a *)
(* closer calls DB.Close.  A section of the code between db.mu.Lock and    *)
(* db.mu.Unlock is one action.  The rest is asynchronous: the driver's     *)
(* Connect, ResetSession and Close, the wait on the request channel, the   *)
(* steps of driverConn.Close, and the sends and receives of the goroutines.*)
(*                                                                         *)
(* A client is at                                                          *)
(*   idle        outside every call      retry   before the next attempt   *)
(*   connecting  in Connect              reset   in resetSession           *)
(*   waiting     on its request channel  cancel  context done, db.mu wanted*)
(*   drain       request not deleted     put     giving back what it drained*)
(*   using       owns a connection                                         *)
(*                                                                         *)
(* A driverConn that is finally closed becomes garbage, and its identity   *)
(* is used again for a later one.  Times are ages in ticks.                *)
(***************************************************************************)
EXTENDS Integers, Sequences, FiniteSets

CONSTANTS Clients,      \* goroutines that use the DB
          Conns,        \* identities of driverConns
          NoConn,
          Admin, Closer, Cleaner,   \* the other goroutines that close connections
          InitMaxOpen,  \* the settings the program starts with
          InitMaxIdle,
          InitLifetime,
          MaxOpens,     \* arguments of SetMaxOpenConns
          MaxIdles,     \* arguments of SetMaxIdleConns
          Durations,    \* arguments of SetConnMaxLifetime and SetConnMaxIdleTime
          MaxAge,       \* ages are counted up to this bound
          Closes,       \* does the program call DB.Close?
          DriverFails,  \* may Connect fail?
          DriverBad     \* may the driver answer ErrBadConn?

VARIABLES
    closed, freeConn, connRequests, numOpen, openerCh, cleanerCh,
    maxOpen, maxIdleCount, maxLifetime, maxIdleTime,
    dc,         \* the driverConns
    age, idle,  \* ticks since createdAt and returnedAt
    req,        \* the buffered channel of each client's connRequest
    pc, conn, attempt, lifetime,    \* clients, and the locals of their calls
    todo, step, \* connections a goroutine has yet to close, and how far it is
    opener, cleaner, stopped, syncIdle,
    panic       \* messages of the panics raised

settings == <<maxOpen, maxIdleCount, maxLifetime, maxIdleTime>>
pool == <<closed, freeConn, connRequests, numOpen, openerCh, cleanerCh>>
conns == <<dc, age, idle>>
client == <<req, pc, conn, attempt, lifetime>>
closing == <<todo, step>>
goroutines == <<opener, cleaner, stopped, syncIdle>>
vars == <<pool, settings, conns, client, closing, goroutines, panic>>

Procs == Clients \cup {Admin, Closer, Cleaner}

\* What a request channel may hold besides a connection.
Empty == "empty"
ReqErr == "err"
ReqClosed == "closed"

\* The zero driverConn: no driver.Conn (ci) has been opened for it.
Garbage == [ci |-> "none", needReset |-> FALSE, closed |-> FALSE,
            inUse |-> FALSE, dep |-> FALSE]

maxBadConnRetries == 2
defaultMaxIdleConns == 2

Init ==
    /\ closed = FALSE /\ freeConn = <<>> /\ connRequests = {}
    /\ numOpen = 0 /\ openerCh = 0 /\ cleanerCh = "nil"
    /\ maxOpen = InitMaxOpen /\ maxIdleCount = InitMaxIdle
    /\ maxLifetime = InitLifetime /\ maxIdleTime = 0
    /\ dc = [c \in Conns |-> Garbage]
    /\ age = [c \in Conns |-> 0] /\ idle = [c \in Conns |-> 0]
    /\ req = [p \in Clients |-> Empty]
    /\ pc = [p \in Clients |-> "idle"]
    /\ conn = [p \in Clients |-> NoConn]
    /\ attempt = [p \in Clients |-> 0]
    /\ lifetime = [p \in Clients |-> 0]
    /\ todo = [p \in Procs |-> <<>>]
    /\ step = [p \in Procs |-> IF p = Closer THEN "ci" ELSE "mark"]
    /\ opener = "wait" /\ cleaner = "off" /\ stopped = FALSE /\ syncIdle = 0
    /\ panic = {}

-----------------------------------------------------------------------------
(* Helpers *)

Least(m, n) == IF m < n THEN m ELSE n

\* A goroutine runs its own code when it has no connection left to close.
Ready(p) == todo[p] = <<>>

maxIdleConnsLocked(n) ==
    IF n = 0 THEN defaultMaxIdleConns ELSE IF n < 0 THEN 0 ELSE n

shortestIdleTimeLocked ==
    IF maxIdleTime <= 0 THEN maxLifetime
    ELSE IF maxLifetime <= 0 THEN maxIdleTime
    ELSE Least(maxIdleTime, maxLifetime)

expired(c, timeout) == timeout > 0 /\ age[c] > timeout

\* maybeOpenNewConnections, called with n connections open and the requests
\* reqs waiting.
maybeOpenNewConnections(n, reqs) ==
    LET numRequests == IF maxOpen > 0
                       THEN Least(Cardinality(reqs), maxOpen - n)
                       ELSE Cardinality(reqs)
        opens == IF numRequests > 0 THEN numRequests ELSE 0
    IN  /\ numOpen' = n + (IF closed THEN Least(opens, 1) ELSE opens)
        /\ openerCh' = openerCh + (IF closed THEN 0 ELSE opens)

\* Mutant: the cleaner is started for maxIdleTime only.
startCleanerLockedIdleOnly(life, idleTime) ==
    IF idleTime > 0 /\ numOpen > 0 /\ cleanerCh = "nil"
    THEN cleanerCh' = "empty" /\ cleaner' = "wait"
    ELSE UNCHANGED <<cleanerCh, cleaner>>

startCleanerLocked(life, idleTime) ==
    IF (life > 0 \/ idleTime > 0) /\ numOpen > 0 /\ cleanerCh = "nil"
    THEN cleanerCh' = "empty" /\ cleaner' = "wait"
    ELSE UNCHANGED <<cleanerCh, cleaner>>

\* Mutant: putConnDBLocked does not look at db.closed.
CanPutWhenClosed(n) == ~(maxOpen > 0 /\ n > maxOpen)

\* What putConnDBLocked finds when n connections are open.
CanPut(n) == ~closed /\ ~(maxOpen > 0 /\ n > maxOpen)
PutsToRequest(n) == CanPut(n) /\ connRequests # {}

PutsToFree(n) ==
    /\ CanPut(n) /\ connRequests = {}
    /\ maxIdleConnsLocked(maxIdleCount) > Len(freeConn)

\* putConnDBLocked hands msg to a request TakeRandom picks.
Deliver(msg) ==
    \E q \in connRequests :
        /\ connRequests' = connRequests \ {q}
        /\ req' = [req EXCEPT ![q] = msg]

\* A driverConn made from a driver.Conn that Connect has just returned.
NewConn(c, used) ==
    /\ dc[c] = Garbage
    /\ dc' = [dc EXCEPT ![c] = [Garbage EXCEPT !.ci = "open",
                                               !.inUse = used, !.dep = TRUE]]
    /\ age' = [age EXCEPT ![c] = 0]
    /\ idle' = [idle EXCEPT ![c] = 0]

\* p goes on to close the connections s, in order.
ToClose(p, s) == todo' = [todo EXCEPT ![p] = s]

\* retry: a call that failed is made again after ErrBadConn, at first with
\* cachedOrNewConn and at last with alwaysNewConn.
Fails(p, bad) ==
    LET again == bad /\ attempt[p] < maxBadConnRetries
    IN  /\ pc' = [pc EXCEPT ![p] = IF again THEN "retry" ELSE "idle"]
        /\ attempt' = [attempt EXCEPT ![p] = IF again THEN @ + 1 ELSE 0]

cachedOrNewConn(p) == attempt[p] < maxBadConnRetries

-----------------------------------------------------------------------------
(* DB.conn *)

Starts(p) == Ready(p) /\ pc[p] \in {"idle", "retry"}

\* The DB is closed, or the context is done: the call returns at once.
ConnFails(p) ==
    /\ Starts(p) /\ (pc[p] = "idle" => closed)
    /\ Fails(p, FALSE)
    /\ UNCHANGED <<pool, settings, conns, closing, goroutines, panic, req, conn, lifetime>>

\* The free connection returned last is taken, and closed if it has expired.
ConnCached(p) ==
    LET last == Len(freeConn)
        c == freeConn[last]
    IN  /\ Starts(p) /\ ~closed /\ cachedOrNewConn(p) /\ last > 0
        /\ freeConn' = SubSeq(freeConn, 1, last - 1)
        /\ dc' = [dc EXCEPT ![c].inUse = TRUE]
        /\ IF expired(c, maxLifetime)
           THEN ToClose(p, <<c>>) /\ Fails(p, TRUE) /\ UNCHANGED conn
           ELSE /\ pc' = [pc EXCEPT ![p] = "reset"]
                /\ conn' = [conn EXCEPT ![p] = c]
                /\ UNCHANGED <<todo, attempt>>
        /\ UNCHANGED <<closed, connRequests, numOpen, openerCh, cleanerCh, settings,
                       age, idle, req, lifetime, step, goroutines, panic>>

\* Mutant: one connection too many.
AtLimitOffByOne == maxOpen > 0 /\ numOpen > maxOpen

AtLimit == maxOpen > 0 /\ numOpen >= maxOpen

ConnRequest(p) ==
    /\ Starts(p) /\ ~closed /\ (cachedOrNewConn(p) => freeConn = <<>>)
    /\ AtLimit
    /\ connRequests' = connRequests \cup {p}
    /\ lifetime' = [lifetime EXCEPT ![p] = maxLifetime]
    /\ pc' = [pc EXCEPT ![p] = "waiting"]
    /\ UNCHANGED <<closed, freeConn, numOpen, openerCh, cleanerCh, settings, conns,
                   req, conn, attempt, closing, goroutines, panic>>

ConnOpen(p) ==
    /\ Starts(p) /\ ~closed /\ (cachedOrNewConn(p) => freeConn = <<>>)
    /\ ~AtLimit
    /\ numOpen' = numOpen + 1
    /\ pc' = [pc EXCEPT ![p] = "connecting"]
    /\ UNCHANGED <<closed, freeConn, connRequests, openerCh, cleanerCh, settings, conns,
                   req, conn, attempt, lifetime, closing, goroutines, panic>>

\* Mutant: a failed Connect does not pass its slot on.
ConnectFailsQuietly(p, bad) ==
    /\ pc[p] = "connecting" /\ DriverFails /\ (bad => DriverBad)
    /\ numOpen' = numOpen - 1
    /\ Fails(p, bad)
    /\ UNCHANGED <<closed, freeConn, connRequests, openerCh, cleanerCh, settings, conns,
                   req, conn, lifetime, closing, goroutines, panic>>

ConnectFails(p, bad) ==
    /\ pc[p] = "connecting" /\ DriverFails /\ (bad => DriverBad)
    /\ maybeOpenNewConnections(numOpen - 1, connRequests)
    /\ Fails(p, bad)
    /\ UNCHANGED <<closed, freeConn, connRequests, cleanerCh, settings, conns, req, conn,
                   lifetime, closing, goroutines, panic>>

ConnectOk(p) ==
    /\ pc[p] = "connecting"
    /\ \E c \in Conns : NewConn(c, TRUE) /\ conn' = [conn EXCEPT ![p] = c]
    /\ pc' = [pc EXCEPT ![p] = "using"]
    /\ UNCHANGED <<pool, settings, req, attempt, lifetime, closing, goroutines, panic>>

\* resetSession asks the driver only when the session needs it.
ResetSession(p, bad) ==
    /\ Ready(p) /\ pc[p] = "reset"
    /\ bad => DriverBad /\ dc[conn[p]].needReset
    /\ IF bad
       THEN /\ ToClose(p, <<conn[p]>>) /\ Fails(p, TRUE)
            /\ conn' = [conn EXCEPT ![p] = NoConn]
       ELSE /\ pc' = [pc EXCEPT ![p] = "using"]
            /\ UNCHANGED <<todo, attempt, conn>>
    /\ UNCHANGED <<pool, settings, conns, req, lifetime, step, goroutines, panic>>

-----------------------------------------------------------------------------
(* The wait of DB.conn on its request channel *)

ReceiveConn(p) ==
    LET c == req[p]
    IN  /\ pc[p] = "waiting" /\ c \in Conns
        /\ IF cachedOrNewConn(p) /\ expired(c, lifetime[p])
           THEN ToClose(p, <<c>>) /\ Fails(p, TRUE) /\ UNCHANGED conn
           ELSE /\ pc' = [pc EXCEPT ![p] = "reset"]
                /\ conn' = [conn EXCEPT ![p] = c]
                /\ UNCHANGED <<todo, attempt>>
        /\ req' = [req EXCEPT ![p] = Empty]
        /\ lifetime' = [lifetime EXCEPT ![p] = 0]
        /\ UNCHANGED <<pool, settings, conns, step, goroutines, panic>>

\* The request was answered with an error, or DB.Close closed the channel.
ReceiveErr(p, bad) ==
    /\ pc[p] = "waiting" /\ req[p] \in {ReqErr, ReqClosed}
    /\ bad => req[p] = ReqErr /\ DriverBad
    /\ Fails(p, bad)
    /\ req' = [req EXCEPT ![p] = Empty]
    /\ lifetime' = [lifetime EXCEPT ![p] = 0]
    /\ UNCHANGED <<pool, settings, conns, conn, closing, goroutines, panic>>

\* The select takes ctx.Done(), even when an answer is ready.
WaitCancel(p) ==
    /\ pc[p] = "waiting"
    /\ pc' = [pc EXCEPT ![p] = "cancel"]
    /\ lifetime' = [lifetime EXCEPT ![p] = 0]
    /\ UNCHANGED <<pool, settings, conns, req, conn, attempt, closing, goroutines, panic>>


WaitDelete(p) ==
    /\ pc[p] = "cancel"
    /\ connRequests' = connRequests \ {p}
    /\ IF p \in connRequests
       THEN Fails(p, FALSE)
       ELSE pc' = [pc EXCEPT ![p] = "drain"] /\ UNCHANGED attempt
    /\ UNCHANGED <<closed, freeConn, numOpen, openerCh, cleanerCh, settings, conns, req,
                   conn, lifetime, closing, goroutines, panic>>

\* The best-effort select: what is in the channel is taken, nothing is awaited.
WaitDrain(p) ==
    /\ pc[p] = "drain"
    /\ IF req[p] \in Conns
       THEN /\ pc' = [pc EXCEPT ![p] = "put"]
            /\ conn' = [conn EXCEPT ![p] = req[p]]
            /\ UNCHANGED attempt
       ELSE Fails(p, FALSE) /\ UNCHANGED conn
    /\ req' = [req EXCEPT ![p] = Empty]
    /\ UNCHANGED <<pool, settings, conns, lifetime, closing, goroutines, panic>>

-----------------------------------------------------------------------------
(* DB.putConn *)

\* What every call of putConn does to the driverConn c it is given.
PutBack(p, c, used) ==
    /\ panic' = IF dc[c].inUse THEN panic ELSE panic \cup {"never out"}
    /\ dc' = [dc EXCEPT ![c].inUse = used, ![c].needReset = @ \/ pc[p] = "using"]
    /\ idle' = [idle EXCEPT ![c] = 0]
    /\ conn' = [conn EXCEPT ![p] = NoConn]

\* The connection is bad: the call it was used for said so (failed), the
\* driver's IsValid said so, or it has expired.  It is discarded.
PutBad(p, failed) ==
    LET c == conn[p]
    IN  /\ Ready(p) /\ pc[p] \in {"using", "put"}
        /\ failed => pc[p] = "using" /\ DriverBad
        /\ DriverBad \/ expired(c, maxLifetime)
        /\ PutBack(p, c, FALSE)
        /\ maybeOpenNewConnections(numOpen, connRequests)
        /\ ToClose(p, <<c>>)
        /\ Fails(p, failed)
        /\ UNCHANGED <<closed, freeConn, connRequests, cleanerCh, settings, age, req,
                       lifetime, step, goroutines>>

Puts(p) == Ready(p) /\ pc[p] \in {"using", "put"} /\ ~expired(conn[p], maxLifetime)

\* A waiting request gets the connection.
PutToRequest(p) ==
    LET c == conn[p]
    IN  /\ Puts(p) /\ PutsToRequest(numOpen)
        /\ PutBack(p, c, TRUE)
        /\ Deliver(c)
        /\ Fails(p, FALSE)
        /\ UNCHANGED <<closed, freeConn, numOpen, openerCh, cleanerCh, settings, age,
                       lifetime, closing, goroutines>>

PutToFree(p) ==
    LET c == conn[p]
    IN  /\ Puts(p) /\ PutsToFree(numOpen)
        /\ PutBack(p, c, FALSE)
        /\ freeConn' = Append(freeConn, c)
        /\ startCleanerLocked(maxLifetime, maxIdleTime)
        /\ Fails(p, FALSE)
        /\ UNCHANGED <<closed, connRequests, numOpen, openerCh, settings, age, req,
                       lifetime, closing, opener, stopped, syncIdle>>

\* Nobody wants it: the DB is closed, or over one of its limits.
PutRefused(p) ==
    LET c == conn[p]
    IN  /\ Puts(p) /\ ~PutsToRequest(numOpen) /\ ~PutsToFree(numOpen)
        /\ PutBack(p, c, FALSE)
        /\ ToClose(p, <<c>>)
        /\ Fails(p, FALSE)
        /\ UNCHANGED <<pool, settings, age, req, lifetime, step, goroutines>>

-----------------------------------------------------------------------------
(* driverConn.Close, of the connections a goroutine has decided to close.  *)
(* DB.Close has marked its own, and goes on with their finalClose.         *)

CloseMark(p) ==
    LET c == Head(todo[p])
    IN  /\ ~Ready(p) /\ step[p] = "mark"
        /\ IF dc[c].closed     \* "sql: duplicate driverConn close"
           THEN ToClose(p, Tail(todo[p])) /\ UNCHANGED <<dc, step>>
           ELSE /\ dc' = [dc EXCEPT ![c].closed = TRUE]
                /\ step' = [step EXCEPT ![p] = "dep"]
                /\ UNCHANGED todo
        /\ UNCHANGED <<pool, settings, age, idle, client, goroutines, panic>>

\* removeDepLocked(dc, dc) returns dc.finalClose.
CloseDep(p) ==
    LET c == Head(todo[p])
    IN  /\ ~Ready(p) /\ step[p] = "dep"
        /\ panic' = IF dc[c].dep THEN panic ELSE panic \cup {"unpaired removeDep"}
        /\ dc' = [dc EXCEPT ![c].dep = FALSE]
        /\ step' = [step EXCEPT ![p] = "ci"]
        /\ UNCHANGED <<pool, settings, age, idle, client, todo, goroutines>>

\* finalClose: the driver's Close, then the count.
CloseCi(p) ==
    LET c == Head(todo[p])
    IN  /\ ~Ready(p) /\ step[p] = "ci"
        /\ dc' = [dc EXCEPT ![c].ci = "closed"]
        /\ step' = [step EXCEPT ![p] = "count"]
        /\ UNCHANGED <<pool, settings, age, idle, client, todo, goroutines, panic>>

\* Mutant: finalClose does not call maybeOpenNewConnections.
CloseCountOnly(p) ==
    LET c == Head(todo[p])
    IN  /\ ~Ready(p) /\ step[p] = "count"
        /\ numOpen' = numOpen - 1
        /\ dc' = [dc EXCEPT ![c] = Garbage]
        /\ age' = [age EXCEPT ![c] = 0] /\ idle' = [idle EXCEPT ![c] = 0]
        /\ ToClose(p, Tail(todo[p]))
        /\ step' = [step EXCEPT ![p] = IF p = Closer THEN "ci" ELSE "mark"]
        /\ UNCHANGED <<closed, freeConn, connRequests, openerCh, cleanerCh, settings, client,
                       goroutines, panic>>

CloseCount(p) ==
    LET c == Head(todo[p])
    IN  /\ ~Ready(p) /\ step[p] = "count"
        /\ maybeOpenNewConnections(numOpen - 1, connRequests)
        /\ dc' = [dc EXCEPT ![c] = Garbage]
        /\ age' = [age EXCEPT ![c] = 0] /\ idle' = [idle EXCEPT ![c] = 0]
        /\ ToClose(p, Tail(todo[p]))
        /\ step' = [step EXCEPT ![p] = IF p = Closer THEN "ci" ELSE "mark"]
        /\ UNCHANGED <<closed, freeConn, connRequests, cleanerCh, settings, client,
                       goroutines, panic>>

-----------------------------------------------------------------------------
(* The opener: connectionOpener and openNewConnection *)

OpenerTake ==
    /\ opener = "wait" /\ openerCh > 0
    /\ openerCh' = openerCh - 1
    /\ opener' = "connect"
    /\ UNCHANGED <<closed, freeConn, connRequests, numOpen, cleanerCh, settings, conns,
                   client, closing, cleaner, stopped, syncIdle, panic>>

OpenerExit ==
    /\ opener = "wait" /\ stopped
    /\ opener' = "exit"
    /\ UNCHANGED <<pool, settings, conns, client, closing, cleaner, stopped, syncIdle, panic>>

\* The DB was closed meanwhile: a connection just made is closed again.
OpenerClosed ==
    /\ opener = "connect" /\ closed
    /\ numOpen' = numOpen - 1
    /\ opener' = "wait"
    /\ UNCHANGED <<closed, freeConn, connRequests, openerCh, cleanerCh, settings, conns,
                   client, closing, cleaner, stopped, syncIdle, panic>>

\* Connect failed: a request, if one may be answered, is told; then
\* maybeOpenNewConnections tries again for the others.
OpenerFails ==
    /\ opener = "connect" /\ ~closed /\ DriverFails
    /\ IF PutsToRequest(numOpen - 1)
       THEN Deliver(ReqErr)
       ELSE UNCHANGED <<connRequests, req>>
    /\ maybeOpenNewConnections(numOpen - 1, connRequests')
    /\ opener' = "wait"
    /\ UNCHANGED <<closed, freeConn, cleanerCh, settings, conns, pc, conn, attempt,
                   lifetime, closing, cleaner, stopped, syncIdle, panic>>

OpenerToRequest ==
    /\ opener = "connect" /\ PutsToRequest(numOpen)
    /\ \E c \in Conns : NewConn(c, TRUE) /\ Deliver(c)
    /\ opener' = "wait"
    /\ UNCHANGED <<closed, freeConn, numOpen, openerCh, cleanerCh, settings, pc, conn,
                   attempt, lifetime, closing, cleaner, stopped, syncIdle, panic>>

OpenerToFree ==
    /\ opener = "connect" /\ PutsToFree(numOpen)
    /\ \E c \in Conns : NewConn(c, FALSE) /\ freeConn' = Append(freeConn, c)
    /\ startCleanerLocked(maxLifetime, maxIdleTime)
    /\ opener' = "wait"
    /\ UNCHANGED <<closed, connRequests, numOpen, openerCh, settings, client, closing,
                   stopped, syncIdle, panic>>

OpenerRefused ==
    /\ opener = "connect" /\ ~closed
    /\ ~PutsToRequest(numOpen) /\ ~PutsToFree(numOpen)
    /\ numOpen' = numOpen - 1
    /\ opener' = "wait"
    /\ UNCHANGED <<closed, freeConn, connRequests, openerCh, cleanerCh, settings, conns,
                   client, closing, cleaner, stopped, syncIdle, panic>>

-----------------------------------------------------------------------------
(* The cleaner: connectionCleaner *)

\* Its timer fires, or it receives from cleanerCh.
CleanerWake(timer) ==
    /\ cleaner = "wait" /\ Ready(Cleaner)
    /\ timer \/ cleanerCh \in {"full", "closed"}
    /\ cleanerCh' = IF cleanerCh = "full" /\ ~timer THEN "empty" ELSE cleanerCh
    /\ cleaner' = "run"
    /\ UNCHANGED <<closed, freeConn, connRequests, numOpen, openerCh, settings, conns,
                   client, closing, opener, stopped, syncIdle, panic>>

\* connectionCleanerRunLocked: freeConn is ordered by returnedAt, so those
\* idle for too long are a prefix; of the rest the expired ones are removed.
idleClosing ==
    LET tooIdle == {i \in DOMAIN freeConn : maxIdleTime > 0 /\ idle[freeConn[i]] > maxIdleTime}
        i == IF tooIdle = {} THEN 0 ELSE CHOOSE m \in tooIdle : \A n \in tooIdle : n <= m
    IN  SubSeq(freeConn, 1, i)

CleanerRun ==
    LET rest == SubSeq(freeConn, Len(idleClosing) + 1, Len(freeConn))
        isExpired(c) == expired(c, maxLifetime)
        isFresh(c) == ~isExpired(c)
    IN  /\ cleaner = "run"
        /\ IF closed \/ numOpen = 0 \/ shortestIdleTimeLocked <= 0
           THEN cleanerCh' = "nil" /\ cleaner' = "off" /\ UNCHANGED <<freeConn, todo>>
           ELSE /\ freeConn' = SelectSeq(rest, isFresh)
                /\ ToClose(Cleaner, idleClosing \o SelectSeq(rest, isExpired))
                /\ cleaner' = "wait"
                /\ UNCHANGED cleanerCh
        /\ UNCHANGED <<closed, connRequests, numOpen, openerCh, settings, conns, client,
                       step, opener, stopped, syncIdle, panic>>

\* Time passes; how long a connection has been idle matters while it is free.
Tick ==
    /\ \E c \in Conns : dc[c].ci # "none" /\ age[c] < MaxAge
    /\ age' = [c \in Conns |-> IF dc[c].ci = "none" THEN 0 ELSE Least(age[c] + 1, MaxAge)]
    /\ idle' = [c \in Conns |-> IF \E i \in DOMAIN freeConn : freeConn[i] = c
                                THEN Least(idle[c] + 1, MaxAge) ELSE idle[c]]
    /\ UNCHANGED <<pool, settings, dc, client, closing, goroutines, panic>>

-----------------------------------------------------------------------------
(* The Set methods *)

\* The section of SetMaxIdleConns: the newest idle connections are closed.
setMaxIdle(n) ==
    LET count == IF n > 0 THEN n ELSE -1
        maxIdle == IF maxOpen > 0 THEN Least(maxIdleConnsLocked(count), maxOpen)
                   ELSE maxIdleConnsLocked(count)
        kept == Least(maxIdle, Len(freeConn))
    IN  /\ maxIdleCount' = IF maxIdle < maxIdleConnsLocked(count) THEN maxOpen ELSE count
        /\ freeConn' = SubSeq(freeConn, 1, kept)
        /\ ToClose(Admin, SubSeq(freeConn, kept + 1, Len(freeConn)))
        /\ UNCHANGED <<closed, connRequests, numOpen, openerCh, cleanerCh, maxOpen,
                       maxLifetime, maxIdleTime, conns, client, step, opener, cleaner,
                       stopped, panic>>

SetMaxIdleConns(n) ==
    /\ Ready(Admin) /\ syncIdle = 0
    /\ setMaxIdle(n)
    /\ UNCHANGED syncIdle

\* SetMaxOpenConns calls SetMaxIdleConns when the idle limit is now too high,
\* in a section of its own.
SetMaxOpenConns(n) ==
    /\ Ready(Admin) /\ syncIdle = 0
    /\ maxOpen' = IF n < 0 THEN 0 ELSE n
    /\ syncIdle' = IF n > 0 /\ maxIdleConnsLocked(maxIdleCount) > n THEN n ELSE 0
    /\ UNCHANGED <<pool, maxIdleCount, maxLifetime, maxIdleTime, conns, client, closing,
                   opener, cleaner, stopped, panic>>

SyncMaxIdle ==
    /\ syncIdle > 0
    /\ setMaxIdle(syncIdle)
    /\ syncIdle' = 0

\* The cleaner is woken when a time is shortened.  A send on a closed channel
\* panics, in a select with a default too.
WakeAndStartCleaner(d, life, idleTime) ==
    LET wakes == d > 0 /\ d < shortestIdleTimeLocked /\ cleanerCh # "nil"
    IN  /\ panic' = IF wakes /\ cleanerCh = "closed"
                    THEN panic \cup {"send on closed channel"} ELSE panic
        /\ maxLifetime' = life /\ maxIdleTime' = idleTime
        /\ IF wakes /\ cleanerCh = "empty"
           THEN cleanerCh' = "full" /\ UNCHANGED cleaner
           ELSE startCleanerLocked(life, idleTime)

SetConnMaxLifetime(d) ==
    /\ Ready(Admin) /\ syncIdle = 0
    /\ WakeAndStartCleaner(d, d, maxIdleTime)
    /\ UNCHANGED <<closed, freeConn, connRequests, numOpen, openerCh, maxOpen,
                   maxIdleCount, conns, client, closing, opener, stopped, syncIdle>>

SetConnMaxIdleTime(d) ==
    /\ Ready(Admin) /\ syncIdle = 0
    /\ WakeAndStartCleaner(d, maxLifetime, d)
    /\ UNCHANGED <<closed, freeConn, connRequests, numOpen, openerCh, maxOpen,
                   maxIdleCount, conns, client, closing, opener, stopped, syncIdle>>

-----------------------------------------------------------------------------
(* DB.Close *)

Close ==
    LET isOpen(c) == ~dc[c].closed
        fns == SelectSeq(freeConn, isOpen)
        marked == {freeConn[i] : i \in DOMAIN freeConn}
    IN  /\ Closes /\ ~closed
        /\ closed' = TRUE
        /\ cleanerCh' = IF cleanerCh = "nil" THEN "nil" ELSE "closed"
        /\ panic' = IF \E c \in marked : isOpen(c) /\ ~dc[c].dep
                    THEN panic \cup {"unpaired removeDep"} ELSE panic
        /\ dc' = [c \in Conns |-> IF c \in marked
                                  THEN [dc[c] EXCEPT !.closed = TRUE, !.dep = FALSE]
                                  ELSE dc[c]]
        /\ ToClose(Closer, fns)
        /\ freeConn' = <<>>
        /\ req' = [p \in Clients |-> IF p \in connRequests THEN ReqClosed ELSE req[p]]
        /\ connRequests' = {}
        /\ UNCHANGED <<numOpen, openerCh, settings, age, idle, pc, conn, attempt, lifetime,
                       step, goroutines>>

\* The free connections are closed: db.stop() ends the opener.
CloseStop ==
    /\ closed /\ Ready(Closer) /\ ~stopped
    /\ stopped' = TRUE
    /\ UNCHANGED <<pool, settings, conns, client, closing, opener, cleaner, syncIdle, panic>>

-----------------------------------------------------------------------------
Conn(p) == ConnFails(p) \/ ConnCached(p) \/ ConnRequest(p) \/ ConnOpen(p)
Put(p) ==
    \/ \E failed \in BOOLEAN : PutBad(p, failed)
    \/ PutToRequest(p) \/ PutToFree(p) \/ PutRefused(p)
Wait(p) ==
    \/ ReceiveConn(p) \/ WaitDelete(p) \/ WaitDrain(p)
    \/ \E bad \in BOOLEAN : ReceiveErr(p, bad)
Driver(p) ==
    \/ ConnectOk(p)
    \/ \E bad \in BOOLEAN : ConnectFails(p, bad) \/ ResetSession(p, bad)
DriverConnClose(p) == CloseMark(p) \/ CloseDep(p) \/ CloseCi(p) \/ CloseCount(p)
Opener ==
    \/ OpenerTake \/ OpenerExit \/ OpenerClosed \/ OpenerFails
    \/ OpenerToRequest \/ OpenerToFree \/ OpenerRefused
CleanerStep == CleanerRun \/ \E timer \in BOOLEAN : CleanerWake(timer)
Set ==
    \/ \E n \in MaxOpens : SetMaxOpenConns(n)
    \/ \E n \in MaxIdles : SetMaxIdleConns(n)
    \/ \E d \in Durations : SetConnMaxLifetime(d) \/ SetConnMaxIdleTime(d)

Next ==
    \/ \E p \in Clients : Conn(p) \/ Put(p) \/ Wait(p) \/ Driver(p) \/ WaitCancel(p)
    \/ \E p \in Procs : DriverConnClose(p)
    \/ Opener \/ CleanerStep \/ Tick \/ Set \/ SyncMaxIdle \/ Close \/ CloseStop

Spec == Init /\ [][Next]_vars

\* putConnDBLocked picks the request of p.
Answered(p) ==
    /\ OpenerFails \/ OpenerToRequest \/ \E q \in Clients : PutToRequest(q)
    /\ p \in connRequests /\ p \notin connRequests'

\* The driver answers, clients give back what they use, and a goroutine in
\* the middle of a method runs on.  Nothing makes a client call, a context
\* expire, or an administrator act.  TakeRandom picks every request with the
\* same probability, so none is passed over for ever.
Fairness ==
    /\ \A p \in Clients :
        /\ SF_vars(Answered(p))
        /\ WF_vars(pc[p] = "retry" /\ Conn(p))
        /\ WF_vars(Put(p)) /\ WF_vars(Wait(p)) /\ WF_vars(Driver(p))
    /\ \A p \in Procs : WF_vars(DriverConnClose(p))
    /\ WF_vars(Opener) /\ WF_vars(CleanerStep)
    /\ WF_vars(SyncMaxIdle) /\ WF_vars(CloseStop)

FairSpec == Spec /\ Fairness

-----------------------------------------------------------------------------
(* Properties *)

\* The shape of the pool's state: counts are never negative and channels hold
\* one message at most.
TypeOK ==
    /\ closed \in BOOLEAN /\ stopped \in BOOLEAN
    /\ freeConn \in Seq(Conns)
    /\ connRequests \subseteq Clients
    /\ numOpen \in Nat /\ openerCh \in Nat /\ syncIdle \in Nat
    /\ cleanerCh \in {"nil", "empty", "full", "closed"}
    /\ maxOpen \in Nat /\ maxLifetime \in Nat /\ maxIdleTime \in Nat
    /\ maxIdleCount \in Int
    /\ dc \in [Conns -> [ci : {"none", "open", "closed"}, needReset : BOOLEAN,
                         closed : BOOLEAN, inUse : BOOLEAN, dep : BOOLEAN]]
    /\ age \in [Conns -> 0 .. MaxAge] /\ idle \in [Conns -> 0 .. MaxAge]
    /\ req \in [Clients -> Conns \cup {Empty, ReqErr, ReqClosed}]
    /\ pc \in [Clients -> {"idle", "retry", "connecting", "reset", "waiting",
                           "cancel", "drain", "put", "using"}]
    /\ conn \in [Clients -> Conns \cup {NoConn}]
    /\ attempt \in [Clients -> 0 .. maxBadConnRetries]
    /\ lifetime \in [Clients -> Nat]
    /\ todo \in [Procs -> Seq(Conns)]
    /\ step \in [Procs -> {"mark", "dep", "ci", "count"}]
    /\ opener \in {"wait", "connect", "exit"}
    /\ cleaner \in {"off", "wait", "run"}

\* The places a driverConn can be in.
Owners(c) ==
    {<<"free", i>> : i \in {j \in DOMAIN freeConn : freeConn[j] = c}}
    \cup {<<"request", p>> : p \in {q \in Clients :
                req[q] = c /\ pc[q] \in {"waiting", "cancel", "drain"}}}
    \cup {<<"client", p>> : p \in {q \in Clients : conn[q] = c}}
    \cup UNION {{<<"close", p, i>> : i \in {j \in DOMAIN todo[p] : todo[p][j] = c}}
                : p \in Procs}


\* Connections not yet opened that numOpen counts.
PendingOpens ==
    openerCh + (IF opener = "connect" THEN 1 ELSE 0)
    + Cardinality({p \in Clients : pc[p] = "connecting"})

\* The pool's state has its shape, numOpen is "the number of opened and pending
\* open connections", and no more connections are idle than SetMaxIdleConns
\* allows.  The count stays within the limits set so far, and with it the
\* messages in openerCh: the send made under db.mu finds room in the channel.
OpenCount ==
    /\ TypeOK
    /\ \E limit \in {InitMaxOpen} \cup MaxOpens : numOpen <= limit
    /\ Len(freeConn) <= maxIdleConnsLocked(maxIdleCount)
    /\ numOpen = Cardinality({c \in Conns : dc[c].ci # "none"}) + PendingOpens

\* While the limit is not raised, a request waits only if the pool is at its
\* limit: every slot that comes free is passed on to a waiting request.
WaitersOnlyAtLimit ==
    connRequests # {} => ~closed /\ maxOpen > 0 /\ numOpen >= maxOpen

\* After DB.Close, when everyone has finished, no connection is left open.
ClosedLeavesNothing ==
    closed /\ stopped /\ opener # "connect"
    /\ (\A p \in Clients : pc[p] = "idle") /\ (\A p \in Procs : Ready(p))
        => \A c \in Conns : dc[c].ci = "none"

\* A client that waits for a connection, new or cached, is answered.  (The
\* last attempt of retry insists on a new connection; it may wait beside an
\* idle one for as long as nobody uses or closes that.)
WaiterServed ==
    \A p \in Clients :
        pc[p] = "waiting" /\ attempt[p] < maxBadConnRetries ~> pc[p] # "waiting"

\* An idle connection past its lifetime does not stay in the pool.
ExpiredLeaves ==
    \A c \in Conns :
        (\E i \in DOMAIN freeConn : freeConn[i] = c) /\ expired(c, maxLifetime)
            ~> ~(\E i \in DOMAIN freeConn : freeConn[i] = c) \/ ~expired(c, maxLifetime)
=============================================================================
