------------------------------- MODULE SqlStmt -------------------------------
(***************************************************************************)
(* A prepared statement of a DB (Stmt in database/sql/sql.go).  It is      *)
(* prepared again on every connection it is run on, may be bound to a      *)
(* transaction by Tx.StmtContext, and is closed by its user while queries, *)
(* open Rows and transactions still depend on it.                          *)
(*                                                                         *)
(* closemu is an RWMutex (its readers, and the goroutine whose Lock is     *)
(* pending or held), mu and the lock of a driverConn are mutexes with an   *)
(* owner; a section under db.mu, or under one of these alone, is one       *)
(* action.  A driver statement is the number of its preparation.           *)
(*                                                                         *)
(* A user is at idle; check, conn, lookup, prepare, append (connStmt);     *)
(* use (it runs the driver statement); rows (its Rows are open); return;   *)
(* or locked, unlock (Close).  Somebody in a transaction is at idle;       *)
(* own, prepare, append, dep (StmtContext); or end (closePrepared).        *)
(* All of them pass through put, mark, close (putConn and the close of a   *)
(* bad connection) and removeDep, lockFinal, note, removeOpen (finalClose).*)
(***************************************************************************)
EXTENDS Naturals, Sequences, FiniteSets

CONSTANTS Users,        \* goroutines that run and close the statement
          Txers,        \* goroutines that share a transaction
          Conns,
          MaxPrepares,  \* bound on the preparations that succeed
          First,        \* the connection that DB.Prepare used
          Self, NoOne

ASSUME StmtAssumption ==
    /\ IsFiniteSet(Conns) /\ First \in Conns /\ MaxPrepares \in Nat
    /\ Users \cap Txers = {} /\ Self \notin Users \cup Txers
    /\ NoOne \notin Conns \cup Users \cup Txers

VARIABLES
    readers, writer,    \* closemu
    mu, closed, css, lastNumClosed,
    dep,                \* db.dep of the statement
    numClosed, free, inUse, dbmuClosed, finalClosed,
    lock,               \* the lock of each driverConn
    openStmt, onPut,    \* of each driverConn
    made, shut,         \* the connection of each driver statement, in the order
                        \* they were prepared, and those that were closed
    txConn,             \* the connection of the transaction, or NoOne
    txs,                \* tx.stmts: by whom, the driver statement, and whether
                        \* it is the transaction's own (no parent)
    lost,               \* whose transaction ended with ErrBadConn, statement open
    unpaired,           \* removeDep has panicked
    pc,
    at                  \* the local variables of each goroutine: its connection
                        \* and driver statement, the connStmt finalClose is at,
                        \* what removeDep removes, where it all returns to

stmtVars == <<readers, writer, mu, closed, css, lastNumClosed, dep, unpaired>>
connVars == <<numClosed, free, inUse, dbmuClosed, finalClosed, lock, openStmt, onPut, made, shut>>
txVars == <<txConn, txs, lost>>
vars == <<stmtVars, connVars, txVars, pc, at>>

Procs == Users \cup Txers
NoEntry == <<NoOne, 0>>

\* Local variables: while a goroutine has a connection and a driver statement
\* on it, on its way back from there or from Close, and in finalClose.
Uses(c, d) == [conn |-> c, ds |-> d, entry |-> NoEntry, x |-> NoOne, then |-> "idle"]
Leaves(c, x, then) == [conn |-> c, ds |-> 0, entry |-> NoEntry, x |-> x, then |-> then]
Visits(e, x, then) == [conn |-> NoOne, ds |-> 0, entry |-> e, x |-> x, then |-> then]
Nothing == Uses(NoOne, 0)

\* What DB.prepare leaves: the statement prepared on an idle connection.
Init ==
    /\ readers = {} /\ writer = {} /\ mu = NoOne /\ closed = FALSE
    /\ css = {<<First, 1>>} /\ lastNumClosed = 0 /\ dep = {Self}
    /\ numClosed = 0 /\ free = Conns /\ inUse = {} /\ dbmuClosed = {} /\ finalClosed = {}
    /\ lock = [c \in Conns |-> NoOne]
    /\ openStmt = [c \in Conns |-> IF c = First THEN {1} ELSE {}]
    /\ onPut = [c \in Conns |-> {}]
    /\ made = <<First>> /\ shut = {}
    /\ txConn = NoOne /\ txs = {} /\ lost = {}
    /\ pc = [p \in Procs |-> "idle"] /\ at = [p \in Procs |-> Nothing]
    /\ unpaired = FALSE

On(c) == {e \in css : e[1] = c}
Set(f, p, v) == [f EXCEPT ![p] = v]

\* A goroutine goes from one point of the code to another with its local
\* variables l; Goto keeps them, and a goroutine that is idle has none.
Step(p, from, to, l) ==
    /\ pc[p] = from /\ pc' = Set(pc, p, to)
    /\ at' = Set(at, p, IF to = "idle" THEN Nothing ELSE l)
Goto(p, from, to) == Step(p, from, to, at[p])

\* The connection a goroutine works on.
ConnOf(p) == IF p \in Txers THEN txConn ELSE at[p].conn

\* removeClosedStmtLocked, under mu: css is pruned only when enough
\* connections have been closed since the last time.
Threshold ==
    LET t == Cardinality(css) \div 2 + 1 IN IF t > 10 THEN 10 ELSE t
removeClosedStmtLocked ==
    LET prunes == numClosed - lastNumClosed >= Threshold
    IN  /\ css' = IF prunes THEN {e \in css : e[1] \notin dbmuClosed} ELSE css
        /\ lastNumClosed' = IF prunes THEN numClosed ELSE lastNumClosed

-----------------------------------------------------------------------------
(* ExecContext and QueryContext: connStmt, the driver call, the release *)

Exec(u) ==
    /\ writer = {}
    /\ readers' = readers \cup {u}
    /\ Goto(u, "idle", "check")
    /\ UNCHANGED <<writer, mu, closed, css, lastNumClosed, dep, unpaired, connVars, txVars>>

ConnStmt(u) ==
    /\ mu = NoOne
    /\ Step(u, "check", IF closed THEN "return" ELSE "conn", Nothing)
    /\ IF closed THEN UNCHANGED <<css, lastNumClosed>> ELSE removeClosedStmtLocked
    /\ UNCHANGED <<readers, writer, mu, closed, dep, unpaired, connVars, txVars>>

\* db.conn; it may fail.
Conn(u) ==
    /\ \E c \in free :
        /\ Step(u, "conn", "lookup", Uses(c, 0))
        /\ free' = free \ {c} /\ inUse' = inUse \cup {c}
    /\ UNCHANGED <<stmtVars, numClosed, dbmuClosed, finalClosed, lock, openStmt, onPut, made, shut, txVars>>

ConnFails(u) ==
    /\ Goto(u, "conn", "return")
    /\ UNCHANGED <<stmtVars, connVars, txVars>>

Lookup(u) ==
    /\ mu = NoOne
    /\ \/ On(at[u].conn) = {} /\ Goto(u, "lookup", "prepare")
       \/ \E e \in On(at[u].conn) : Step(u, "lookup", "use", Uses(at[u].conn, e[2]))
    /\ UNCHANGED <<stmtVars, connVars, txVars>>

\* prepareLocked: the driver statement is noted in openStmt, and the lock of
\* the connection stays held.
Prepare(p) ==
    LET c == ConnOf(p)
    IN  /\ Step(p, "prepare", "append", Uses(at[p].conn, Len(made) + 1))
        /\ lock[c] = NoOne /\ lock' = Set(lock, c, p)
        /\ Len(made) < MaxPrepares /\ made' = Append(made, c)
        /\ openStmt' = [openStmt EXCEPT ![c] = @ \cup {Len(made) + 1}]
        /\ UNCHANGED <<stmtVars, numClosed, free, inUse, dbmuClosed, finalClosed, onPut, shut, txVars>>

PrepareFails(p, to) ==
    /\ Step(p, "prepare", IF p \in Txers THEN "idle" ELSE "put", Leaves(at[p].conn, NoOne, to))
    /\ lock[ConnOf(p)] = NoOne
    /\ UNCHANGED <<stmtVars, connVars, txVars>>

\* Mutant: the statement is not added to css.
ListStmtForgotten(p) ==
    /\ mu = NoOne
    /\ Goto(p, "append", IF p \in Txers THEN "dep" ELSE "use")
    /\ lock' = Set(lock, ConnOf(p), NoOne)
    /\ UNCHANGED <<stmtVars, numClosed, free, inUse, dbmuClosed, finalClosed, openStmt, onPut,
                   made, shut, txVars>>

\* prepareOnConnLocked takes mu while it holds the connection.
ListStmt(p) ==
    /\ mu = NoOne
    /\ Goto(p, "append", IF p \in Txers THEN "dep" ELSE "use")
    /\ css' = css \cup {<<ConnOf(p), at[p].ds>>}
    /\ lock' = Set(lock, ConnOf(p), NoOne)
    /\ UNCHANGED <<readers, writer, mu, closed, lastNumClosed, dep, unpaired, numClosed, free,
                   inUse, dbmuClosed, finalClosed, openStmt, onPut, made, shut, txVars>>

\* The statement has run; after ErrBadConn, retry calls connStmt again.
Executed(u, to) ==
    /\ Step(u, "use", "put", Leaves(at[u].conn, NoOne, to))
    /\ lock[at[u].conn] = NoOne
    /\ UNCHANGED <<stmtVars, connVars, txVars>>

\* A query's Rows depend on the statement and keep the connection.
Queried(u) ==
    /\ Goto(u, "use", "rows")
    /\ lock[at[u].conn] = NoOne
    /\ dep' = dep \cup {u}
    /\ readers' = readers \ {u}
    /\ UNCHANGED <<writer, mu, closed, css, lastNumClosed, unpaired, connVars, txVars>>

Return(u) ==
    /\ Goto(u, "return", "idle")
    /\ readers' = readers \ {u}
    /\ UNCHANGED <<writer, mu, closed, css, lastNumClosed, dep, unpaired, connVars, txVars>>

RowsClose(u) ==
    /\ Step(u, "rows", "put", Leaves(at[u].conn, u, "removeDep"))
    /\ UNCHANGED <<stmtVars, connVars, txVars>>

-----------------------------------------------------------------------------
(* putConn, and driverConn.Close for a connection that is not kept *)


\* putConn first runs onPut, which closes the statements noted there.  After
\* ErrBadConn, which is what makes retry go on, the connection is closed; so
\* is one that is too old or not wanted in the pool.
PutConn(p, bad) ==
    LET c == at[p].conn
    IN  /\ Goto(p, "put", IF bad THEN "mark" ELSE at[p].then)
        /\ at[p].then = "check" => bad
        /\ lock[c] = NoOne
        /\ inUse' = inUse \ {c}
        /\ free' = IF bad THEN free ELSE free \cup {c}
        /\ shut' = shut \cup onPut[c]
        /\ onPut' = Set(onPut, c, {})
        /\ UNCHANGED <<stmtVars, numClosed, dbmuClosed, finalClosed, lock, openStmt, made, txVars>>

CloseMark(p) ==
    /\ Goto(p, "mark", "close")
    /\ dbmuClosed' = dbmuClosed \cup {at[p].conn}
    /\ UNCHANGED <<stmtVars, numClosed, free, inUse, finalClosed, lock, openStmt, onPut, made, shut, txVars>>

\* driverConn.finalClose closes what is open on the connection and counts it.
CloseConn(p) ==
    LET c == at[p].conn
    IN  /\ Goto(p, "close", at[p].then)
        /\ lock[c] = NoOne
        /\ shut' = shut \cup openStmt[c]
        /\ openStmt' = Set(openStmt, c, {})
        /\ finalClosed' = finalClosed \cup {c}
        /\ numClosed' = numClosed + 1
        /\ UNCHANGED <<stmtVars, free, inUse, dbmuClosed, lock, onPut, made, txVars>>

-----------------------------------------------------------------------------
(* Close, removeDep and finalClose *)

CloseLock(u) ==
    /\ writer = {} /\ writer' = {u}
    /\ Goto(u, "idle", "locked")
    /\ UNCHANGED <<readers, mu, closed, css, lastNumClosed, dep, unpaired, connVars, txVars>>

Close(u) ==
    /\ readers = {} /\ mu = NoOne
    /\ Step(u, "locked", IF closed THEN "unlock" ELSE "removeDep", Leaves(NoOne, Self, "unlock"))
    /\ closed' = TRUE
    /\ UNCHANGED <<readers, writer, mu, css, lastNumClosed, dep, unpaired, connVars, txVars>>

CloseUnlock(u) ==
    /\ Goto(u, "unlock", "idle")
    /\ writer' = {}
    /\ UNCHANGED <<readers, mu, closed, css, lastNumClosed, dep, unpaired, connVars, txVars>>

\* Where a goroutine goes on after removeDep; the close of Rows is then over.
After(p) == IF at[p].then = "removeDep" THEN "idle" ELSE at[p].then

\* After the last dependency comes finalClose.
RemoveDep(p) ==
    /\ Goto(p, "removeDep", IF dep \subseteq {at[p].x} THEN "lockFinal" ELSE After(p))
    /\ dep' = dep \ {at[p].x}
    /\ unpaired' = (unpaired \/ at[p].x \notin dep)
    /\ UNCHANGED <<readers, writer, mu, closed, css, lastNumClosed, connVars, txVars>>

FinalLock(p) ==
    /\ mu = NoOne /\ mu' = p
    /\ Goto(p, "lockFinal", "note")
    /\ UNCHANGED <<readers, writer, closed, css, lastNumClosed, dep, unpaired, connVars, txVars>>

\* Mutant: the statement is closed although its connection is in use.
NoteUnusedAtOnce(p) ==
    /\ \E e \in css :
        /\ Step(p, "note", "removeOpen", Visits(e, at[p].x, at[p].then))
        /\ css' = css \ {e}
        /\ lock[e[1]] = NoOne
        /\ shut' = IF e[1] \in finalClosed THEN shut ELSE shut \cup {e[2]}
    /\ UNCHANGED <<readers, writer, mu, closed, lastNumClosed, dep, unpaired, numClosed, free,
                   inUse, dbmuClosed, finalClosed, lock, openStmt, onPut, made, txVars>>

\* noteUnusedDriverStatement: in use, it is closed when the connection is put
\* back; else at once.
NoteUnused(p) ==
    /\ \E e \in css :
        /\ Step(p, "note", "removeOpen", Visits(e, at[p].x, at[p].then))
        /\ css' = css \ {e}
        /\ IF e[1] \in inUse
           THEN onPut' = [onPut EXCEPT ![e[1]] = @ \cup {e[2]}] /\ shut' = shut
           ELSE /\ lock[e[1]] = NoOne
                /\ shut' = IF e[1] \in finalClosed THEN shut ELSE shut \cup {e[2]}
                /\ onPut' = onPut
    /\ UNCHANGED <<readers, writer, mu, closed, lastNumClosed, dep, unpaired, numClosed, free,
                   inUse, dbmuClosed, finalClosed, lock, openStmt, made, txVars>>

\* removeOpenStmt takes the connection's lock while mu is held.
RemoveOpenStmt(p) ==
    LET e == at[p].entry
    IN  /\ Step(p, "removeOpen", "note", Leaves(NoOne, at[p].x, at[p].then))
        /\ lock[e[1]] = NoOne
        /\ openStmt' = [openStmt EXCEPT ![e[1]] = @ \ {e[2]}]
        /\ UNCHANGED <<stmtVars, numClosed, free, inUse, dbmuClosed, finalClosed, lock, onPut, made,
                       shut, txVars>>

FinalUnlock(p) ==
    /\ css = {}
    /\ Goto(p, "note", After(p))
    /\ mu' = NoOne
    /\ UNCHANGED <<readers, writer, closed, css, lastNumClosed, dep, unpaired, connVars, txVars>>

-----------------------------------------------------------------------------
(* A transaction and its statements *)

Begin(t) ==
    /\ pc[t] = "idle" /\ txConn = NoOne
    /\ \E c \in free :
        /\ free' = free \ {c} /\ inUse' = inUse \cup {c}
        /\ txConn' = c
    /\ UNCHANGED <<stmtVars, numClosed, dbmuClosed, finalClosed, lock, openStmt, onPut, made, shut,
                   txs, lost, pc, at>>

\* Tx.StmtContext does not take closemu of its statement.
StmtContext(t) ==
    /\ txConn # NoOne /\ mu = NoOne
    /\ \A s \in txs : s.by # t
    /\ t \notin lost
    /\ \A p \in Txers : pc[p] \in {"idle", "own", "prepare", "append", "dep"}
    /\ \/ closed /\ Goto(t, "idle", "own")
       \/ ~closed /\ On(txConn) = {} /\ Goto(t, "idle", "prepare")
       \/ ~closed /\ \E e \in On(txConn) : Step(t, "idle", "dep", Uses(NoOne, e[2]))
    /\ IF closed THEN UNCHANGED <<css, lastNumClosed>> ELSE removeClosedStmtLocked
    /\ UNCHANGED <<readers, writer, mu, closed, dep, unpaired, connVars, txVars>>

\* For a closed statement the transaction prepares one of its own.
PrepareOwn(t) ==
    /\ Goto(t, "own", "idle")
    /\ lock[txConn] = NoOne
    /\ Len(made) < MaxPrepares /\ made' = Append(made, txConn)
    /\ txs' = txs \cup {[by |-> t, ds |-> Len(made) + 1, own |-> TRUE]}
    /\ UNCHANGED <<stmtVars, numClosed, free, inUse, dbmuClosed, finalClosed, lock, openStmt, onPut,
                   shut, txConn, lost>>

PrepareOwnFails(t) ==
    /\ Goto(t, "own", "idle")
    /\ UNCHANGED <<stmtVars, connVars, txVars>>

AddDep(t) ==
    /\ Goto(t, "dep", "idle")
    /\ dep' = dep \cup {t}
    /\ txs' = txs \cup {[by |-> t, ds |-> at[t].ds, own |-> FALSE]}
    /\ UNCHANGED <<readers, writer, mu, closed, css, lastNumClosed, unpaired, connVars, txConn, lost>>

\* Commit or Rollback, with nobody in an operation of the transaction.
EndTx(t) ==
    /\ txConn # NoOne /\ \A p \in Txers : pc[p] = "idle"
    /\ Goto(t, "idle", "end")
    /\ UNCHANGED <<stmtVars, connVars, txVars>>

\* closePrepared closes each statement: one with a parent gives up its
\* dependency on it, another closes the driver statement.
CloseTxStmt(t) ==
    /\ \E s \in txs :
        /\ txs' = txs \ {s}
        /\ Step(t, "end", IF s.own THEN "end" ELSE "removeDep",
                Leaves(NoOne, IF s.own THEN NoOne ELSE s.by, "end"))
        /\ shut' = IF s.own THEN shut \cup {s.ds} ELSE shut
    /\ UNCHANGED <<stmtVars, numClosed, free, inUse, dbmuClosed, finalClosed, lock, openStmt, onPut,
                   made, txConn, lost>>

\* When the driver answers ErrBadConn they are left as they are.
AbandonTx(t) ==
    /\ \A p \in Txers \ {t} : pc[p] = "idle"
    /\ Step(t, "idle", "mark", Uses(txConn, 0))
    /\ txConn # NoOne /\ lock[txConn] = NoOne
    /\ inUse' = inUse \ {txConn}
    /\ shut' = shut \cup onPut[txConn] /\ onPut' = Set(onPut, txConn, {})
    /\ txConn' = NoOne /\ txs' = {}
    /\ lost' = lost \cup {s.by : s \in {s \in txs : ~s.own}}
    /\ UNCHANGED <<stmtVars, numClosed, free, dbmuClosed, finalClosed, lock, openStmt, made>>

ReleaseTx(t) ==
    /\ txs = {}
    /\ Step(t, "end", "put", Uses(txConn, 0))
    /\ txConn' = NoOne
    /\ UNCHANGED <<stmtVars, connVars, txs, lost>>

-----------------------------------------------------------------------------
Shared(p) ==
    \/ Prepare(p) \/ (\E to \in {"return", "check"} : PrepareFails(p, to)) \/ ListStmt(p)
    \/ (\E bad \in BOOLEAN : PutConn(p, bad)) \/ CloseMark(p) \/ CloseConn(p)
    \/ RemoveDep(p) \/ FinalLock(p) \/ NoteUnused(p) \/ RemoveOpenStmt(p) \/ FinalUnlock(p)

UserStep(u) ==
    \/ ConnStmt(u) \/ Conn(u) \/ ConnFails(u) \/ Lookup(u) \/ Return(u)
    \/ (\E to \in {"return", "check"} : Executed(u, to)) \/ Queried(u)
    \/ Close(u) \/ CloseUnlock(u)

TxStep(t) == PrepareOwn(t) \/ PrepareOwnFails(t) \/ AddDep(t) \/ CloseTxStmt(t) \/ ReleaseTx(t)

Next ==
    \/ \E p \in Procs : Shared(p)
    \/ \E u \in Users : Exec(u) \/ RowsClose(u) \/ CloseLock(u) \/ UserStep(u)
    \/ \E t \in Txers : Begin(t) \/ StmtContext(t) \/ EndTx(t) \/ AbandonTx(t) \/ TxStep(t)

Spec == Init /\ [][Next]_vars

\* Goroutines in a call run on and the driver answers; calls are bounded, so
\* that a mutex becomes free for who waits for it.  Nobody has to close Rows, end a transaction or call
\* anything.
Fairness ==
    /\ \A u \in Users : WF_vars(Shared(u) \/ UserStep(u))
    /\ \A t \in Txers : WF_vars(Shared(t) \/ TxStep(t))

FairSpec == Spec /\ Fairness

-----------------------------------------------------------------------------
(* Properties *)

TypeOK ==
    /\ readers \subseteq Users /\ writer \subseteq Users /\ Cardinality(writer) <= 1
    /\ mu \in Procs \cup {NoOne} /\ lock \in [Conns -> Procs \cup {NoOne}]
    /\ closed \in BOOLEAN /\ unpaired \in BOOLEAN
    /\ css \subseteq Conns \X DOMAIN made /\ dep \subseteq Procs \cup {Self}
    /\ lastNumClosed <= numClosed /\ numClosed <= Cardinality(Conns)
    /\ free \cap inUse = {} /\ free \cup inUse \subseteq Conns \ dbmuClosed
    /\ finalClosed \subseteq dbmuClosed /\ dbmuClosed \subseteq Conns
    /\ shut \cup UNION {openStmt[c] \cup onPut[c] : c \in Conns} \subseteq DOMAIN made
    /\ txConn \in inUse \cup {NoOne} /\ lost \subseteq Txers

\* The driver statements somebody runs, reads from, or has bound to an open
\* transaction.
Needed ==
    {at[p].ds : p \in {p \in Procs : pc[p] \in {"use", "rows", "dep"}}} \cup {s.ds : s \in txs}

\* "parentStmt may be closed by the user without them having to know whether
\* or not any transactions are still using it": no driver statement is closed
\* while a call runs it, Rows read from it or a transaction uses it.
NeededIsOpen == TypeOK /\ Needed \cap shut = {}

\* When the statement is closed and everybody is done with it, no dependency
\* is left but those of transactions that ended with ErrBadConn, and without
\* them the driver has no open statement on any connection that is open.
NothingLeftOpen ==
    closed /\ txConn = NoOne /\ (\A p \in Procs : pc[p] = "idle") =>
        /\ dep = lost /\ ~unpaired
        /\ lost = {} => \A d \in DOMAIN made : d \in shut \/ made[d] \in finalClosed


\* "A Stmt is safe for concurrent use by multiple goroutines": nobody holds a
\* connection and waits for mu while mu's holder waits for that connection.
NoLockCycle ==
    \A p, q \in Procs :
        ~ /\ pc[p] = "append" /\ mu = q
          /\ pc[q] = "removeOpen" /\ at[q].entry[1] = ConnOf(p)
=============================================================================
