------------------------------- MODULE SqlConn -------------------------------
(***************************************************************************)
(* A single connection taken from the pool (Conn in database/sql/sql.go):  *)
(* goroutines run operations on it and close it.  closemu is a             *)
(* sync.RWMutex, with its readers and the goroutine whose Lock is pending  *)
(* or held.                                                                *)
(*                                                                         *)
(* A goroutine is at idle; grab (grabConn, done checked, before RLock);    *)
(* op (the operation runs, with the dc that grabConn returned); close      *)
(* (before the CompareAndSwap), lock, pending, closing (in Conn.close);    *)
(* or panic (it used a nil dc).                                            *)
(***************************************************************************)
EXTENDS Naturals

CONSTANT Users          \* goroutines that use the Conn

VARIABLES done, readers, writer,
          dc,           \* is c.dc non-nil?
          pc,
          grabbed,      \* users whose grabConn returned a non-nil dc
          released      \* number of calls of dc.releaseConn

vars == <<done, readers, writer, dc, pc, grabbed, released>>

Init ==
    /\ done = FALSE /\ readers = {} /\ writer = {} /\ dc = TRUE
    /\ pc = [u \in Users |-> "idle"]
    /\ grabbed = {} /\ released = 0

Goto(u, from, to) == pc[u] = from /\ pc' = [pc EXCEPT ![u] = to]

-----------------------------------------------------------------------------
\* grabConn checks done, and takes the read lock only then.
GrabConn(u) ==
    /\ Goto(u, "idle", IF done THEN "idle" ELSE "grab")
    /\ UNCHANGED <<done, readers, writer, dc, grabbed, released>>

GrabRLock(u) ==
    /\ writer = {}
    /\ readers' = readers \cup {u}
    /\ grabbed' = IF dc THEN grabbed \cup {u} ELSE grabbed
    /\ Goto(u, "grab", "op")
    /\ UNCHANGED <<done, writer, dc, released>>

\* closemuRUnlockCondReleaseConn
OpDone(u, bad) ==
    /\ u \in grabbed
    /\ Goto(u, "op", IF bad THEN "close" ELSE "idle")
    /\ readers' = readers \ {u}
    /\ grabbed' = grabbed \ {u}
    /\ UNCHANGED <<done, writer, dc, released>>

\* pingDC, execDC, queryDC, prepareDC and beginDC dereference the dc.
OpOnNil(u) ==
    /\ u \notin grabbed
    /\ Goto(u, "op", "panic")
    /\ UNCHANGED <<done, readers, writer, dc, grabbed, released>>

Close(u) ==
    /\ Goto(u, "idle", "close")
    /\ UNCHANGED <<done, readers, writer, dc, grabbed, released>>

CloseCAS(u) ==
    /\ Goto(u, "close", IF done THEN "idle" ELSE "lock")
    /\ done' = TRUE
    /\ UNCHANGED <<readers, writer, dc, grabbed, released>>

ClosemuLock(u) ==
    /\ writer = {} /\ writer' = {u}
    /\ Goto(u, "lock", "pending")
    /\ UNCHANGED <<done, readers, dc, grabbed, released>>

\* Mutant: close does not wait for the operations that hold closemu.
ClosemuLockedAtOnce(u) ==
    /\ Goto(u, "pending", "closing")
    /\ UNCHANGED <<done, readers, writer, dc, grabbed, released>>

ClosemuLocked(u) ==
    /\ readers = {}
    /\ Goto(u, "pending", "closing")
    /\ UNCHANGED <<done, readers, writer, dc, grabbed, released>>

CloseRelease(u) ==
    /\ Goto(u, "closing", "idle")
    /\ released' = released + 1
    /\ dc' = FALSE
    /\ writer' = {}
    /\ UNCHANGED <<done, readers, grabbed>>

-----------------------------------------------------------------------------
Step(u) ==
    \/ GrabRLock(u) \/ (\E bad \in BOOLEAN : OpDone(u, bad)) \/ OpOnNil(u)
    \/ CloseCAS(u) \/ ClosemuLock(u) \/ ClosemuLocked(u) \/ CloseRelease(u)

Next == \E u \in Users : GrabConn(u) \/ Close(u) \/ Step(u)

Spec == Init /\ [][Next]_vars

-----------------------------------------------------------------------------
(* Properties *)

\* The shape of the Conn's state; its connection is released at most once.
TypeOK ==
    /\ done \in BOOLEAN /\ dc \in BOOLEAN
    /\ readers \subseteq Users /\ writer \subseteq Users /\ grabbed \subseteq Users
    /\ pc \in [Users -> {"idle", "grab", "op", "close", "lock", "pending", "closing",
                         "panic"}]
    /\ released \in 0 .. 1

\* The connection goes back to the pool only when no operation that got hold
\* of it is still running, and Close has come first.
ReleasedUnused == released > 0 => grabbed = {} /\ done

\* "All operations after a Close will return with ErrConnDone. Close is safe
\* to call concurrently with other operations": no operation runs without a
\* connection.
GrabbedIsLive == \A u \in Users : pc[u] = "op" => u \in grabbed
=============================================================================
