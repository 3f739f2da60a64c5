-------------------------------- MODULE SqlTx --------------------------------
(***************************************************************************)
(* A transaction of database/sql (Tx in database/sql/sql.go): goroutines   *)
(* run queries, prepare statements, commit and roll back, while awaitDone  *)
(* rolls the transaction back when its context ends.                       *)
(*                                                                         *)
(* tx.closemu is a sync.RWMutex: readers are the goroutines that hold it   *)
(* for reading, writer the one whose Lock is pending.  The Rows of a query *)
(* keep the read lock until they are closed, by their user or, when the    *)
(* transaction's context ends, by their own awaitDone.                     *)
(*                                                                         *)
(* A goroutine is at                                                       *)
(*   idle     outside the Tx            grab     grabConn, before RLock    *)
(*   locked   grabConn, before isDone   exec     in the driver             *)
(*   rows     reading the Rows of its query                                *)
(*   prepare  PrepareContext, driver    append   PrepareContext, released  *)
(*   stmt     StmtContext, driver                                          *)
(*   commit   Commit, before the CompareAndSwap                            *)
(*   rollback rollback, before the CompareAndSwap                          *)
(*   cancel, lock, pending, driver, close, release   the steps of Commit   *)
(*            and rollback once the transaction is theirs                  *)
(***************************************************************************)
EXTENDS Naturals, FiniteSets

CONSTANTS Users,        \* goroutines that use the Tx
          Await         \* the goroutine of awaitDone

VARIABLES
    ctxDone,            \* is tx.ctx done?
    done, readers, writer,
    pc,
    commits,            \* is the goroutine finishing with Commit?
    rowsOpen,           \* users whose Rows are open
    stmts,              \* the statements in tx.stmts.v: their users and their makers
    open,               \* the statements that are open
    outcome,            \* the calls made on txi, and whether they returned ErrBadConn
    released            \* number of calls of tx.releaseConn

vars == <<ctxDone, done, readers, writer, pc, commits, rowsOpen, stmts, open, outcome, released>>

Procs == Users \cup {Await}
Stmts == Users \X {"prepare", "stmt"}

Init ==
    /\ ctxDone = FALSE /\ done = FALSE /\ readers = {} /\ writer = {}
    /\ pc = [p \in Procs |-> IF p = Await THEN "await" ELSE "idle"]
    /\ commits = {} /\ rowsOpen = {} /\ stmts = {} /\ open = {}
    /\ outcome = {} /\ released = 0

Goto(p, from, to) == pc[p] = from /\ pc' = [pc EXCEPT ![p] = to]

-----------------------------------------------------------------------------
(* Operations on the connection of the transaction *)

\* grabConn: the read lock comes before the check of done.
Grab(u) ==
    /\ Goto(u, "idle", "grab")
    /\ UNCHANGED <<ctxDone, done, readers, writer, commits, rowsOpen, stmts, open, outcome, released>>

GrabRLock(u) ==
    /\ writer = {}
    /\ readers' = readers \cup {u}
    /\ Goto(u, "grab", "locked")
    /\ UNCHANGED <<ctxDone, done, writer, commits, rowsOpen, stmts, open, outcome, released>>

\* A user makes at most one statement in each of the two ways.
GrabIsDone(u, op) ==
    /\ <<u, op>> \notin open \cup stmts
    /\ Goto(u, "locked", IF done THEN "idle" ELSE op)
    /\ readers' = IF done THEN readers \ {u} ELSE readers
    /\ UNCHANGED <<ctxDone, done, writer, commits, rowsOpen, stmts, open, outcome, released>>

\* ExecContext, and any operation that fails, releases the lock.
OpDone(u) ==
    /\ pc[u] \in {"exec", "prepare", "stmt"}
    /\ pc' = [pc EXCEPT ![u] = "idle"]
    /\ readers' = readers \ {u}
    /\ UNCHANGED <<ctxDone, done, writer, commits, rowsOpen, stmts, open, outcome, released>>

QueryDone(u) ==
    /\ Goto(u, "exec", "rows")
    /\ rowsOpen' = rowsOpen \cup {u}
    /\ UNCHANGED <<ctxDone, done, readers, writer, commits, stmts, open, outcome, released>>

\* Rows.close, called by the user or by the Rows' awaitDone.
RowsClose(u) ==
    /\ Goto(u, "rows", "idle")
    /\ rowsOpen' = rowsOpen \ {u}
    /\ readers' = readers \ {u}
    /\ UNCHANGED <<ctxDone, done, writer, commits, stmts, open, outcome, released>>


RowsAwaitDone(u) ==
    /\ u \in rowsOpen /\ ctxDone
    /\ rowsOpen' = rowsOpen \ {u}
    /\ readers' = readers \ {u}
    /\ UNCHANGED <<ctxDone, done, writer, pc, commits, stmts, open, outcome, released>>

\* prepareDC releases the lock when it returns, and PrepareContext then adds
\* the statement to tx.stmts.
PrepareDone(u) ==
    /\ Goto(u, "prepare", "append")
    /\ open' = open \cup {<<u, "prepare">>}
    /\ readers' = readers \ {u}
    /\ UNCHANGED <<ctxDone, done, writer, commits, rowsOpen, stmts, outcome, released>>

PrepareAppend(u) ==
    /\ Goto(u, "append", "idle")
    /\ stmts' = stmts \cup {<<u, "prepare">>}
    /\ UNCHANGED <<ctxDone, done, readers, writer, commits, rowsOpen, open, outcome, released>>

\* Mutant: StmtContext does not record the statement it made.
StmtDoneUnlisted(u) ==
    /\ Goto(u, "stmt", "idle")
    /\ open' = open \cup {<<u, "stmt">>}
    /\ readers' = readers \ {u}
    /\ UNCHANGED <<ctxDone, done, writer, commits, rowsOpen, stmts, outcome, released>>

\* StmtContext adds its statement first; its release is deferred.
StmtDone(u) ==
    /\ Goto(u, "stmt", "idle")
    /\ open' = open \cup {<<u, "stmt">>} /\ stmts' = stmts \cup {<<u, "stmt">>}
    /\ readers' = readers \ {u}
    /\ UNCHANGED <<ctxDone, done, writer, commits, rowsOpen, outcome, released>>

-----------------------------------------------------------------------------
(* Commit and rollback *)

\* Commit gives up when the context is done already.
Commit(u) ==
    /\ Goto(u, "idle", IF ctxDone THEN "idle" ELSE "commit")
    /\ UNCHANGED <<ctxDone, done, readers, writer, commits, rowsOpen, stmts, open, outcome, released>>

Rollback(u) ==
    /\ Goto(u, "idle", "rollback")
    /\ UNCHANGED <<ctxDone, done, readers, writer, commits, rowsOpen, stmts, open, outcome, released>>

AwaitDone ==
    /\ ctxDone
    /\ Goto(Await, "await", "rollback")
    /\ UNCHANGED <<ctxDone, done, readers, writer, commits, rowsOpen, stmts, open, outcome, released>>

\* Mutant: done is stored, not compared and swapped.
WinAlways(p) ==
    /\ pc[p] \in {"commit", "rollback"}
    /\ pc' = [pc EXCEPT ![p] = "cancel"]
    /\ commits' = IF pc[p] = "commit" THEN commits \cup {p} ELSE commits
    /\ done' = TRUE
    /\ UNCHANGED <<ctxDone, readers, writer, rowsOpen, stmts, open, outcome, released>>

\* done.CompareAndSwap(false, true): the transaction belongs to the winner.
WinOrReturn(p) ==
    /\ pc[p] \in {"commit", "rollback"}
    /\ pc' = [pc EXCEPT ![p] = IF done THEN "idle" ELSE "cancel"]
    /\ commits' = IF ~done /\ pc[p] = "commit" THEN commits \cup {p} ELSE commits
    /\ done' = TRUE
    /\ UNCHANGED <<ctxDone, readers, writer, rowsOpen, stmts, open, outcome, released>>

CancelTx(p) ==
    /\ Goto(p, "cancel", "lock")
    /\ ctxDone' = TRUE
    /\ UNCHANGED <<done, readers, writer, commits, rowsOpen, stmts, open, outcome, released>>

LockClosemu(p) ==
    /\ writer = {} /\ writer' = {p}
    /\ Goto(p, "lock", "pending")
    /\ UNCHANGED <<ctxDone, done, readers, commits, rowsOpen, stmts, open, outcome, released>>

\* Mutant: the operations that hold closemu are not waited for.
UnlockClosemuAtOnce(p) ==
    /\ writer' = {}
    /\ Goto(p, "pending", "driver")
    /\ UNCHANGED <<ctxDone, done, readers, commits, rowsOpen, stmts, open, outcome, released>>

\* The lock is released at once: later readers find done set.
UnlockClosemu(p) ==
    /\ readers = {} /\ writer' = {}
    /\ Goto(p, "pending", "driver")
    /\ UNCHANGED <<ctxDone, done, readers, commits, rowsOpen, stmts, open, outcome, released>>

\* txi.Commit or txi.Rollback; with ErrBadConn the statements are left alone.
DriverFinish(p, bad) ==
    /\ Goto(p, "driver", IF bad THEN "release" ELSE "close")
    /\ outcome' = outcome \cup {<<IF p \in commits THEN "commit" ELSE "rollback", bad>>}
    /\ UNCHANGED <<ctxDone, done, readers, writer, commits, rowsOpen, stmts, open, released>>

ClosePrepared(p) ==
    /\ Goto(p, "close", "release")
    /\ open' = open \ stmts
    /\ UNCHANGED <<ctxDone, done, readers, writer, commits, rowsOpen, stmts, outcome, released>>

\* tx.close: the connection goes back to the pool.
Release(p) ==
    /\ Goto(p, "release", "idle")
    /\ released' = released + 1
    /\ UNCHANGED <<ctxDone, done, readers, writer, commits, rowsOpen, stmts, open, outcome>>

\* The context given to BeginTx ends.
ContextEnds ==
    /\ ctxDone' = TRUE
    /\ UNCHANGED <<done, readers, writer, pc, commits, rowsOpen, stmts, open, outcome, released>>

-----------------------------------------------------------------------------
Calls(u) == Grab(u) \/ Commit(u) \/ Rollback(u) \/ RowsClose(u)

Operation(u) ==
    \/ GrabRLock(u) \/ \E op \in {"exec", "prepare", "stmt"} : GrabIsDone(u, op)
    \/ OpDone(u) \/ QueryDone(u)
    \/ PrepareDone(u) \/ PrepareAppend(u) \/ StmtDone(u)

Finish(p) ==
    \/ WinOrReturn(p) \/ CancelTx(p) \/ LockClosemu(p) \/ UnlockClosemu(p)
    \/ (\E bad \in BOOLEAN : DriverFinish(p, bad))
    \/ ClosePrepared(p) \/ Release(p)

Next ==
    \/ \E u \in Users : Calls(u) \/ Operation(u) \/ RowsAwaitDone(u)
    \/ \E p \in Procs : Finish(p)
    \/ AwaitDone \/ ContextEnds

Spec == Init /\ [][Next]_vars

\* The driver answers and goroutines run on; a user need neither close its
\* Rows nor end the transaction.
Fairness ==
    /\ \A u \in Users : WF_vars(Operation(u)) /\ WF_vars(RowsAwaitDone(u))
    /\ \A p \in Procs : WF_vars(Finish(p))
    /\ WF_vars(AwaitDone)

FairSpec == Spec /\ Fairness

-----------------------------------------------------------------------------
(* Properties *)

\* The shape of the transaction's state; awaitDone only ever rolls back.
TypeOK ==
    /\ ctxDone \in BOOLEAN /\ done \in BOOLEAN
    /\ readers \subseteq Users /\ writer \subseteq Procs
    /\ pc \in [Procs -> {"idle", "grab", "locked", "exec", "rows", "prepare", "append",
                         "stmt", "await", "commit", "rollback", "cancel", "lock",
                         "pending", "driver", "close", "release"}]
    /\ commits \subseteq Users /\ rowsOpen \subseteq Users
    /\ stmts \subseteq Stmts /\ open \subseteq Stmts
    /\ outcome \subseteq {"commit", "rollback"} \X BOOLEAN
    /\ released \in Nat

\* Users that may be using the connection.
Active == rowsOpen \cup {u \in Users : pc[u] \in {"exec", "prepare", "stmt"}}

\* The one who ends the transaction and has passed closemu.
Ending == {p \in Procs : pc[p] \in {"driver", "close", "release"}}

\* However many goroutines commit, roll back or await the context, the driver
\* is told one outcome, by one of them, and the connection is released once,
\* after that.
OneOutcome ==
    /\ Cardinality(Ending) <= 1 /\ released <= 1
    /\ Cardinality(outcome) <= 1
    /\ released = 1 => outcome # {} /\ Ending = {}

\* The transaction is neither ended in the driver nor its connection released
\* while a query runs on it or its Rows are open.
EndsUnused == Ending # {} \/ released > 0 => Active = {}


\* A statement that StmtContext made is closed when the transaction has given
\* back a connection that still works.  (PrepareContext adds its statement to
\* tx.stmts after it has let go of the transaction, so its statements may stay
\* open.)
StmtsClosed ==
    released = 1 /\ (\A o \in outcome : ~o[2]) => \A u \in Users : <<u, "stmt">> \notin open
=============================================================================
