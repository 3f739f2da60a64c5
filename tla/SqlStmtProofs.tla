---------------------------- MODULE SqlStmtProofs ----------------------------
(***************************************************************************)
(* Proofs about the prepared statement of SqlStmt, for any number of users,*)
(* transactions, connections and preparations: where the goroutines are,   *)
(* who has which connection, the phases of a transaction, which connection *)
(* a driver statement was prepared on and where it is kept, the calls, the *)
(* dependencies, the inductive invariant and the theorems.                 *)
(***************************************************************************)
EXTENDS SqlStmt, FiniteSetTheorems, TLAPS

-----------------------------------------------------------------------------
(* The places of the goroutines, and what their local variables hold there *)

Leaving == {"put", "mark", "close"}
Finals == {"lockFinal", "note", "removeOpen"}
Ending == {"removeDep"} \cup Finals
UserPlaces ==
    {"idle", "check", "conn", "lookup", "prepare", "append", "use", "rows", "return", "locked",
     "unlock"} \cup Leaving \cup Ending
TxPhase == {"own", "prepare", "append", "dep"}
TxPlaces == {"idle", "end"} \cup TxPhase \cup Leaving \cup Ending
Thens == {"idle", "return", "check", "removeDep", "unlock", "end"}
Locals ==
    [conn : Conns \cup {NoOne}, ds : Nat, entry : (Conns \cup {NoOne}) \X Nat,
     x : Procs \cup {Self, NoOne}, then : Thens]

\* Where a goroutine is, and where putConn and removeDep return to.
UserAt(u, place, l) ==
    /\ place \in UserPlaces
    /\ place \in Leaving => \/ l.then \in {"return", "check"}
                            \/ l.then = "removeDep" /\ l.x = u
    /\ place \in Ending => \/ l.then = "removeDep" /\ l.x = u
                           \/ l.then = "unlock" /\ l.x = Self
TxAt(place, l) ==
    /\ place \in TxPlaces
    /\ place \in Leaving => l.then = "idle"
    /\ place \in Ending => l.then = "end" /\ l.x \in Txers

At(p, place, l) == (p \in Users => UserAt(p, place, l)) /\ (p \in Txers => TxAt(place, l))

Threads ==
    /\ pc \in [Procs -> UserPlaces \cup TxPlaces] /\ at \in [Procs -> Locals]
    /\ \A p \in Procs : At(p, pc[p], at[p])

TxStmts == [by : Txers, ds : Nat, own : BOOLEAN]

StmtTyped ==
    /\ css \subseteq Conns \X Nat /\ mu \in Procs \cup {NoOne} /\ lastNumClosed \in Nat
    /\ closed \in BOOLEAN /\ unpaired \in BOOLEAN
ConnTyped ==
    /\ free \subseteq Conns /\ inUse \subseteq Conns
    /\ dbmuClosed \subseteq Conns /\ finalClosed \subseteq Conns
    /\ lock \in [Conns -> Procs \cup {NoOne}] /\ numClosed \in Nat
DriverTyped ==
    /\ made \in Seq(Conns) /\ shut \subseteq Nat
    /\ openStmt \in [Conns -> SUBSET Nat] /\ onPut \in [Conns -> SUBSET Nat]
TxTyped == txConn \in Conns \cup {NoOne} /\ txs \subseteq TxStmts /\ lost \subseteq Txers

Typed == StmtTyped /\ ConnTyped /\ DriverTyped /\ TxTyped

-----------------------------------------------------------------------------
(* Steps *)

Fails(p) == \E to \in {"return", "check"} : PrepareFails(p, to)
Puts(p) == \E bad \in BOOLEAN : PutConn(p, bad)
Ran(u) == \E to \in {"return", "check"} : Executed(u, to)

\* A goroutine that moves leaves the others where they are.
LEMMA OneMoves ==
    ASSUME Threads, NEW p \in Procs, NEW from, NEW to, NEW l \in Locals, Step(p, from, to, l),
           At(p, to, l)
    PROVE  Threads'
<1>1. to \in UserPlaces \cup TxPlaces
  BY Zenon DEF At, UserAt, TxAt, Procs
<1>2. Nothing \in Locals
  BY Zenon DEF Nothing, Uses, NoEntry, Locals, Thens
<1>3. pc' \in [Procs -> UserPlaces \cup TxPlaces] /\ at' \in [Procs -> Locals]
  BY <1>1, <1>2, Zenon DEF Threads, Step, Set
<1>4. \A q \in Procs \ {p} : pc'[q] = pc[q] /\ at'[q] = at[q]
  BY Zenon DEF Threads, Step, Set
<1>5. pc'[p] = to /\ at'[p] = IF to = "idle" THEN Nothing ELSE l
  BY Zenon DEF Threads, Step, Set
<1>6. ASSUME NEW q \in Procs PROVE At(q, pc'[q], at'[q])
  <2>1. CASE q = p
    BY <1>5, <2>1, Zenon DEF At, UserAt, TxAt, Leaving, Ending, Finals
  <2>2. CASE q # p
    BY <1>4, <2>2, Zenon DEF Threads
  <2>3. QED
    BY <2>1, <2>2, Zenon
<1>7. QED
  BY <1>3, <1>6, Zenon DEF Threads, At, UserAt, TxAt

\* Every step keeps the places and the local variables as they should be.
LEMMA ThreadsStep ==
    ASSUME Threads, Typed, Next
    PROVE  Threads'
<1>1. ASSUME NEW t \in Txers, Begin(t)
      PROVE  Threads'
  BY <1>1, Zenon DEF Begin, Threads
<1>2. ASSUME NEW u \in Users, \/ Exec(u) \/ ConnFails(u) \/ Queried(u) \/ Return(u)
                              \/ CloseLock(u) \/ CloseUnlock(u)
      PROVE  Threads'
  <2>1. at[u] \in Locals /\ u \in Procs
    BY Zenon DEF Threads, Procs
  <2>2. \E to \in {"idle", "check", "return", "rows", "locked"} :
          \E from : Step(u, from, to, at[u])
    BY <1>2, Zenon DEF Exec, ConnFails, Queried, Return, CloseLock, CloseUnlock, Goto
  <2>3. \A to \in {"idle", "check", "return", "rows", "locked"} : At(u, to, at[u])
    BY StmtAssumption, Zenon DEF At, UserAt, Leaving, Finals, Ending, UserPlaces, TxPlaces,
       TxPhase
  <2>4. QED
    BY <2>1, <2>2, <2>3, OneMoves, Zenon
<1>3. ASSUME NEW t \in Txers, PrepareOwnFails(t) \/ PrepareOwn(t) \/ AddDep(t) \/ EndTx(t)
      PROVE  Threads'
  <2>1. at[t] \in Locals /\ t \in Procs
    BY Zenon DEF Threads, Procs
  <2>2. \E to \in {"idle", "end"} : \E from : Step(t, from, to, at[t])
    BY <1>3, Zenon DEF PrepareOwnFails, PrepareOwn, AddDep, EndTx, Goto
  <2>3. \A to \in {"idle", "end"} : At(t, to, at[t])
    BY StmtAssumption, Zenon DEF At, TxAt, Leaving, Finals, Ending, UserPlaces, TxPlaces, TxPhase
  <2>4. QED
    BY <2>1, <2>2, <2>3, OneMoves, Zenon
<1>4. ASSUME NEW u \in Users, ConnStmt(u)
      PROVE  Threads'
  <2>1. /\ u \in Procs /\ at[u] \in Locals
        /\ at[u].conn \in Conns \cup {NoOne} /\ at[u].x \in Procs \cup {Self, NoOne}
    BY Zenon DEF Threads, Procs, Locals
  <2>2. Step(u, "check", IF closed THEN "return" ELSE "conn", Nothing)
    BY <1>4, Zenon DEF ConnStmt, removeClosedStmtLocked, Goto
  <2>3. Nothing \in Locals
    BY <2>1, Zenon DEF Nothing, Locals, NoEntry, Uses, Thens
  <2>4. At(u, IF closed THEN "return" ELSE "conn", Nothing)
    BY StmtAssumption, Zenon DEF At, UserAt, TxAt, Leaving, Finals, Ending, UserPlaces, TxPlaces,
       TxPhase
  <2>5. QED
    BY <2>1, <2>2, <2>3, <2>4, OneMoves, Zenon
<1>5. ASSUME NEW u \in Users, Conn(u)
      PROVE  Threads'
  <2>1. /\ u \in Procs /\ at[u] \in Locals
        /\ at[u].conn \in Conns \cup {NoOne} /\ at[u].x \in Procs \cup {Self, NoOne}
    BY Zenon DEF Threads, Procs, Locals
  <2>2. PICK c \in free : Step(u, "conn", "lookup", Uses(c, 0))
    BY <1>5, Zenon DEF Conn, Goto
  <2>3. Uses(c, 0) \in Locals
    BY <2>1, Zenon DEF Uses, Locals, NoEntry, Typed, StmtTyped, ConnTyped, DriverTyped, TxTyped,
       Thens
  <2>4. At(u, "lookup", Uses(c, 0))
    BY StmtAssumption, Zenon DEF At, UserAt, TxAt, Leaving, Finals, Ending, UserPlaces, TxPlaces,
       TxPhase
  <2>5. QED
    BY <2>1, <2>2, <2>3, <2>4, OneMoves, Zenon
<1>6. ASSUME NEW u \in Users, Lookup(u)
      PROVE  Threads'
  <2>1. u \in Procs /\ at[u] \in Locals
    BY Zenon DEF Threads, Procs
  <2>2. CASE Step(u, "lookup", "prepare", at[u])
    <3>1. At(u, "prepare", at[u])
      BY StmtAssumption, Zenon DEF At, UserAt, Leaving, Finals, Ending, UserPlaces, TxPlaces,
         TxPhase
    <3>2. QED
      BY <2>1, <2>2, <3>1, OneMoves, Zenon
  <2>3. ASSUME NEW e \in css, Step(u, "lookup", "use", Uses(at[u].conn, e[2]))
        PROVE  Threads'
    <3>1. Uses(at[u].conn, e[2]) \in Locals
      BY <2>1, Zenon DEF Uses, Locals, NoEntry, Thens, Typed, StmtTyped
    <3>2. At(u, "use", Uses(at[u].conn, e[2]))
      BY StmtAssumption, Zenon DEF At, UserAt, Leaving, Finals, Ending, UserPlaces, TxPlaces,
         TxPhase
    <3>3. QED
      BY <2>1, <2>3, <3>1, <3>2, OneMoves, Zenon
  <2>4. QED
    BY <1>6, <2>2, <2>3, Zenon DEF Lookup, Goto, On
<1>7. ASSUME NEW u \in Users, Ran(u)
      PROVE  Threads'
  <2>1. /\ u \in Procs /\ at[u] \in Locals
        /\ at[u].conn \in Conns \cup {NoOne} /\ at[u].x \in Procs \cup {Self, NoOne}
    BY Zenon DEF Threads, Procs, Locals
  <2>2. PICK to \in {"return", "check"} : 
          Step(u, "use", "put",
               Leaves(at[u].conn, NoOne, to))
    BY <1>7, Zenon DEF Ran, Executed, Goto
  <2>3. Leaves(at[u].conn, NoOne, to) \in Locals
    BY <2>1, Zenon DEF Leaves, Locals, NoEntry, Thens
  <2>4. At(u, "put", Leaves(at[u].conn, NoOne, to))
    BY StmtAssumption, Zenon DEF At, UserAt, TxAt, Leaving, Finals, Ending, UserPlaces, TxPlaces,
       TxPhase, Leaves
  <2>5. QED
    BY <2>1, <2>2, <2>3, <2>4, OneMoves, Zenon
<1>8. ASSUME NEW u \in Users, RowsClose(u)
      PROVE  Threads'
  <2>1. /\ u \in Procs /\ at[u] \in Locals
        /\ at[u].conn \in Conns \cup {NoOne} /\ at[u].x \in Procs \cup {Self, NoOne}
    BY Zenon DEF Threads, Procs, Locals
  <2>2. Step(u, "rows", "put", Leaves(at[u].conn, u, "removeDep"))
    BY <1>8, Zenon DEF RowsClose, Goto
  <2>3. Leaves(at[u].conn, u, "removeDep") \in Locals
    BY <2>1, Zenon DEF Leaves, Locals, NoEntry, Thens
  <2>4. At(u, "put", Leaves(at[u].conn, u, "removeDep"))
    BY StmtAssumption, Zenon DEF At, UserAt, TxAt, Leaving, Finals, Ending, UserPlaces, TxPlaces,
       TxPhase, Leaves
  <2>5. QED
    BY <2>1, <2>2, <2>3, <2>4, OneMoves, Zenon
<1>9. ASSUME NEW u \in Users, Close(u)
      PROVE  Threads'
  <2>1. /\ u \in Procs /\ at[u] \in Locals
        /\ at[u].conn \in Conns \cup {NoOne} /\ at[u].x \in Procs \cup {Self, NoOne}
    BY Zenon DEF Threads, Procs, Locals
  <2>2. Step(u, "locked", IF closed THEN "unlock" ELSE "removeDep",
             Leaves(NoOne, Self, "unlock"))
    BY <1>9, Zenon DEF Close, Goto
  <2>3. Leaves(NoOne, Self, "unlock") \in Locals
    BY <2>1, Zenon DEF Leaves, Locals, NoEntry, Thens
  <2>4. At(u, IF closed THEN "unlock" ELSE "removeDep", Leaves(NoOne, Self, "unlock"))
    BY StmtAssumption, Zenon DEF At, UserAt, TxAt, Leaving, Finals, Ending, UserPlaces, TxPlaces,
       TxPhase, Leaves
  <2>5. QED
    BY <2>1, <2>2, <2>3, <2>4, OneMoves, Zenon
<1>10. ASSUME NEW p \in Procs, Prepare(p)
       PROVE  Threads'
  <2>1. /\ p \in Procs /\ at[p] \in Locals
        /\ at[p].conn \in Conns \cup {NoOne} /\ at[p].x \in Procs \cup {Self, NoOne}
    BY Zenon DEF Threads, Procs, Locals
  <2>2. Step(p, "prepare", "append", Uses(at[p].conn, Len(made) + 1))
    BY <1>10, Zenon DEF Prepare, Goto
  <2>3. Uses(at[p].conn, Len(made) + 1) \in Locals
    BY <2>1 DEF Uses, Locals, NoEntry, Typed, StmtTyped, ConnTyped, DriverTyped, TxTyped,
       Thens
  <2>4. At(p, "append", Uses(at[p].conn, Len(made) + 1))
    BY StmtAssumption, Zenon DEF At, UserAt, TxAt, Leaving, Finals, Ending, UserPlaces, TxPlaces,
       TxPhase
  <2>5. QED
    BY <2>1, <2>2, <2>3, <2>4, OneMoves, Zenon
<1>11. ASSUME NEW p \in Procs, Fails(p)
       PROVE  Threads'
  <2>1. /\ p \in Procs /\ at[p] \in Locals
        /\ at[p].conn \in Conns \cup {NoOne} /\ at[p].x \in Procs \cup {Self, NoOne}
    BY Zenon DEF Threads, Procs, Locals
  <2>2. PICK to \in {"return", "check"} : 
          Step(p, "prepare", (IF p \in Txers THEN "idle" ELSE "put"),
               Leaves(at[p].conn, NoOne, to))
    BY <1>11, Zenon DEF Fails, PrepareFails, Goto
  <2>3. Leaves(at[p].conn, NoOne, to) \in Locals
    BY <2>1, Zenon DEF Leaves, Locals, NoEntry, Thens
  <2>4. At(p, (IF p \in Txers THEN "idle" ELSE "put"), Leaves(at[p].conn, NoOne, to))
    BY StmtAssumption, Zenon DEF At, UserAt, TxAt, Leaving, Finals, Ending, UserPlaces, TxPlaces,
       TxPhase, Leaves
  <2>5. QED
    BY <2>1, <2>2, <2>3, <2>4, OneMoves, Zenon
<1>12. ASSUME NEW p \in Procs, ListStmt(p)
       PROVE  Threads'
  <2>1. /\ p \in Procs /\ at[p] \in Locals
        /\ at[p].conn \in Conns \cup {NoOne} /\ at[p].x \in Procs \cup {Self, NoOne}
    BY Zenon DEF Threads, Procs, Locals
  <2>2. Step(p, "append", (IF p \in Txers THEN "dep" ELSE "use"), at[p])
    BY <1>12, Zenon DEF ListStmt, Goto
  <2>3. At(p, (IF p \in Txers THEN "dep" ELSE "use"), at[p])
    BY StmtAssumption, Zenon DEF At, UserAt, TxAt, Leaving, Finals, Ending, UserPlaces, TxPlaces,
       TxPhase
  <2>4. QED
    BY <2>1, <2>2, <2>3, OneMoves, Zenon
<1>13. ASSUME NEW p \in Procs, Puts(p)
       PROVE  Threads'
  <2>1. /\ p \in Procs /\ at[p] \in Locals
        /\ at[p].conn \in Conns \cup {NoOne} /\ at[p].x \in Procs \cup {Self, NoOne}
    BY Zenon DEF Threads, Procs, Locals
  <2>2. PICK bad \in BOOLEAN : Step(p, "put", (IF bad THEN "mark" ELSE at[p].then), at[p])
    BY <1>13, Zenon DEF Puts, PutConn, Goto
  <2>3. At(p, (IF bad THEN "mark" ELSE at[p].then), at[p])
    BY <2>1, <2>2, StmtAssumption, Zenon DEF At, UserAt, TxAt, Leaving, Finals, Ending,
       UserPlaces, TxPlaces, TxPhase, Threads, Step, Procs
  <2>4. QED
    BY <2>1, <2>2, <2>3, OneMoves, Zenon
<1>14. ASSUME NEW p \in Procs, CloseMark(p)
       PROVE  Threads'
  <2>1. /\ p \in Procs /\ at[p] \in Locals
        /\ at[p].conn \in Conns \cup {NoOne} /\ at[p].x \in Procs \cup {Self, NoOne}
    BY Zenon DEF Threads, Procs, Locals
  <2>2. Step(p, "mark", "close", at[p])
    BY <1>14, Zenon DEF CloseMark, Goto
  <2>3. At(p, "close", at[p])
    BY <2>1, <2>2, StmtAssumption, Zenon DEF At, UserAt, TxAt, Leaving, Finals, Ending,
       UserPlaces, TxPlaces, TxPhase, Threads, Step, Procs
  <2>4. QED
    BY <2>1, <2>2, <2>3, OneMoves, Zenon
<1>15. ASSUME NEW p \in Procs, CloseConn(p)
       PROVE  Threads'
  <2>1. /\ p \in Procs /\ at[p] \in Locals
        /\ at[p].conn \in Conns \cup {NoOne} /\ at[p].x \in Procs \cup {Self, NoOne}
    BY Zenon DEF Threads, Procs, Locals
  <2>2. Step(p, "close", at[p].then, at[p])
    BY <1>15, Zenon DEF CloseConn, Goto
  <2>3. At(p, at[p].then, at[p])
    BY <2>1, <2>2, StmtAssumption, Zenon DEF At, UserAt, TxAt, Leaving, Finals, Ending,
       UserPlaces, TxPlaces, TxPhase, Threads, Step, Procs
  <2>4. QED
    BY <2>1, <2>2, <2>3, OneMoves, Zenon
<1>16. ASSUME NEW p \in Procs, RemoveDep(p)
       PROVE  Threads'
  <2>1. /\ p \in Procs /\ at[p] \in Locals
        /\ at[p].conn \in Conns \cup {NoOne} /\ at[p].x \in Procs \cup {Self, NoOne}
    BY Zenon DEF Threads, Procs, Locals
  <2>2. Step(p, "removeDep", (IF dep \subseteq {at[p].x} THEN "lockFinal" ELSE After(p)),
             at[p])
    BY <1>16, Zenon DEF RemoveDep, Goto
  <2>3. At(p, (IF dep \subseteq {at[p].x} THEN "lockFinal" ELSE After(p)), at[p])
    BY <2>1, <2>2, StmtAssumption, Zenon DEF At, UserAt, TxAt, Leaving, Finals, Ending,
       UserPlaces, TxPlaces, TxPhase, After, Threads, Step, Procs
  <2>4. QED
    BY <2>1, <2>2, <2>3, OneMoves, Zenon
<1>17. ASSUME NEW p \in Procs, FinalLock(p)
       PROVE  Threads'
  <2>1. /\ p \in Procs /\ at[p] \in Locals
        /\ at[p].conn \in Conns \cup {NoOne} /\ at[p].x \in Procs \cup {Self, NoOne}
    BY Zenon DEF Threads, Procs, Locals
  <2>2. Step(p, "lockFinal", "note", at[p])
    BY <1>17, Zenon DEF FinalLock, Goto
  <2>3. At(p, "note", at[p])
    BY <2>1, <2>2, StmtAssumption, Zenon DEF At, UserAt, TxAt, Leaving, Finals, Ending,
       UserPlaces, TxPlaces, TxPhase, Threads, Step, Procs
  <2>4. QED
    BY <2>1, <2>2, <2>3, OneMoves, Zenon
<1>18. ASSUME NEW p \in Procs, NoteUnused(p)
       PROVE  Threads'
  <2>1. /\ p \in Procs /\ at[p] \in Locals
        /\ at[p].conn \in Conns \cup {NoOne} /\ at[p].x \in Procs \cup {Self, NoOne}
    BY Zenon DEF Threads, Procs, Locals
  <2>2. PICK e \in css : Step(p, "note", "removeOpen", Visits(e, at[p].x, at[p].then))
    BY <1>18, Zenon DEF NoteUnused, Goto
  <2>3. Visits(e, at[p].x, at[p].then) \in Locals
    BY <2>1, Zenon DEF Visits, Locals, NoEntry, Typed, StmtTyped, ConnTyped, DriverTyped, TxTyped,
       Thens
  <2>4. At(p, "removeOpen", Visits(e, at[p].x, at[p].then))
    BY <2>1, <2>2, StmtAssumption, Zenon DEF At, UserAt, TxAt, Leaving, Finals, Ending,
       UserPlaces, TxPlaces, TxPhase, Visits, Threads, Step, Procs
  <2>5. QED
    BY <2>1, <2>2, <2>3, <2>4, OneMoves, Zenon
<1>19. ASSUME NEW p \in Procs, RemoveOpenStmt(p)
       PROVE  Threads'
  <2>1. /\ p \in Procs /\ at[p] \in Locals
        /\ at[p].conn \in Conns \cup {NoOne} /\ at[p].x \in Procs \cup {Self, NoOne}
    BY Zenon DEF Threads, Procs, Locals
  <2>2. Step(p, "removeOpen", "note", Leaves(NoOne, at[p].x, at[p].then))
    BY <1>19, Zenon DEF RemoveOpenStmt, Goto
  <2>3. Leaves(NoOne, at[p].x, at[p].then) \in Locals
    BY <2>1, Zenon DEF Leaves, Locals, NoEntry, Thens
  <2>4. At(p, "note", Leaves(NoOne, at[p].x, at[p].then))
    BY <2>1, <2>2, StmtAssumption, Zenon DEF At, UserAt, TxAt, Leaving, Finals, Ending,
       UserPlaces, TxPlaces, TxPhase, Leaves, Threads, Step, Procs
  <2>5. QED
    BY <2>1, <2>2, <2>3, <2>4, OneMoves, Zenon
<1>20. ASSUME NEW p \in Procs, FinalUnlock(p)
       PROVE  Threads'
  <2>1. /\ p \in Procs /\ at[p] \in Locals
        /\ at[p].conn \in Conns \cup {NoOne} /\ at[p].x \in Procs \cup {Self, NoOne}
    BY Zenon DEF Threads, Procs, Locals
  <2>2. Step(p, "note", After(p), at[p])
    BY <1>20, Zenon DEF FinalUnlock, Goto
  <2>3. At(p, After(p), at[p])
    BY <2>1, <2>2, StmtAssumption, Zenon DEF At, UserAt, TxAt, Leaving, Finals, Ending,
       UserPlaces, TxPlaces, TxPhase, After, Threads, Step, Procs
  <2>4. QED
    BY <2>1, <2>2, <2>3, OneMoves, Zenon
<1>21. ASSUME NEW t \in Txers, StmtContext(t)
       PROVE  Threads'
  <2>1. t \in Procs /\ at[t] \in Locals
    BY Zenon DEF Threads, Procs
  <2>2. ASSUME NEW to \in {"own", "prepare"}, Step(t, "idle", to, at[t])
        PROVE  Threads'
    <3>1. At(t, to, at[t])
      BY StmtAssumption, Zenon DEF At, TxAt, Leaving, Finals, Ending, UserPlaces, TxPlaces,
         TxPhase
    <3>2. QED
      BY <2>1, <2>2, <3>1, OneMoves, Zenon
  <2>3. ASSUME NEW e \in css, Step(t, "idle", "dep", Uses(NoOne, e[2]))
        PROVE  Threads'
    <3>1. Uses(NoOne, e[2]) \in Locals
      BY Zenon DEF Uses, Locals, NoEntry, Thens, Typed, StmtTyped
    <3>2. At(t, "dep", Uses(NoOne, e[2]))
      BY StmtAssumption, Zenon DEF At, TxAt, Leaving, Finals, Ending, UserPlaces, TxPlaces,
         TxPhase
    <3>3. QED
      BY <2>1, <2>3, <3>1, <3>2, OneMoves, Zenon
  <2>4. QED
    BY <1>21, <2>2, <2>3, Zenon DEF StmtContext, Goto, On
<1>22. ASSUME NEW t \in Txers, CloseTxStmt(t)
       PROVE  Threads'
  <2>1. /\ t \in Procs /\ at[t] \in Locals
        /\ at[t].conn \in Conns \cup {NoOne} /\ at[t].x \in Procs \cup {Self, NoOne}
    BY Zenon DEF Threads, Procs, Locals
  <2>2. PICK s \in txs : 
          Step(t, "end", (IF s.own THEN "end" ELSE "removeDep"),
               Leaves(NoOne, IF s.own THEN NoOne ELSE s.by, "end"))
    BY <1>22, Zenon DEF CloseTxStmt, Goto
  <2>3. Leaves(NoOne, IF s.own THEN NoOne ELSE s.by, "end") \in Locals
    BY <2>1, Zenon DEF Leaves, Locals, NoEntry, Typed, TxTyped, TxStmts, Procs, Thens
  <2>4. At(t, (IF s.own THEN "end" ELSE "removeDep"),
           Leaves(NoOne, IF s.own THEN NoOne ELSE s.by, "end"))
    BY StmtAssumption, Zenon DEF At, UserAt, TxAt, Leaving, Finals, Ending, UserPlaces, TxPlaces,
       TxPhase, Leaves, Typed, TxTyped, TxStmts
  <2>5. QED
    BY <2>1, <2>2, <2>3, <2>4, OneMoves, Zenon
<1>23. ASSUME NEW t \in Txers, AbandonTx(t)
       PROVE  Threads'
  <2>1. /\ t \in Procs /\ at[t] \in Locals
        /\ at[t].conn \in Conns \cup {NoOne} /\ at[t].x \in Procs \cup {Self, NoOne}
    BY Zenon DEF Threads, Procs, Locals
  <2>2. Step(t, "idle", "mark", Uses(txConn, 0))
    BY <1>23, Zenon DEF AbandonTx, Goto
  <2>3. Uses(txConn, 0) \in Locals
    BY <2>1, Zenon DEF Uses, Locals, NoEntry, Typed, StmtTyped, ConnTyped, DriverTyped, TxTyped,
       Thens
  <2>4. At(t, "mark", Uses(txConn, 0))
    BY StmtAssumption, Zenon DEF At, UserAt, TxAt, Leaving, Finals, Ending, UserPlaces, TxPlaces,
       TxPhase, Uses
  <2>5. QED
    BY <2>1, <2>2, <2>3, <2>4, OneMoves, Zenon
<1>24. ASSUME NEW t \in Txers, ReleaseTx(t)
       PROVE  Threads'
  <2>1. /\ t \in Procs /\ at[t] \in Locals
        /\ at[t].conn \in Conns \cup {NoOne} /\ at[t].x \in Procs \cup {Self, NoOne}
    BY Zenon DEF Threads, Procs, Locals
  <2>2. Step(t, "end", "put", Uses(txConn, 0))
    BY <1>24, Zenon DEF ReleaseTx, Goto
  <2>3. Uses(txConn, 0) \in Locals
    BY <2>1, Zenon DEF Uses, Locals, NoEntry, Typed, StmtTyped, ConnTyped, DriverTyped, TxTyped,
       Thens
  <2>4. At(t, "put", Uses(txConn, 0))
    BY StmtAssumption, Zenon DEF At, UserAt, TxAt, Leaving, Finals, Ending, UserPlaces, TxPlaces,
       TxPhase, Uses
  <2>5. QED
    BY <2>1, <2>2, <2>3, <2>4, OneMoves, Zenon
<1>25. ASSUME NEW p \in Procs, Shared(p)
       PROVE  Threads'
  BY <1>10, <1>11, <1>12, <1>13, <1>14, <1>15, <1>16, <1>17, <1>18, <1>19, <1>20, <1>25,
     Zenon DEF Shared, Fails, Puts
<1>26. ASSUME NEW u \in Users, Exec(u) \/ RowsClose(u) \/ CloseLock(u) \/ UserStep(u)
       PROVE  Threads'
  BY <1>2, <1>4, <1>5, <1>6, <1>7, <1>8, <1>9, <1>26, Zenon DEF UserStep, Ran
<1>27. ASSUME NEW t \in Txers, Begin(t) \/ StmtContext(t) \/ EndTx(t) \/ AbandonTx(t)
                                  \/ TxStep(t)
       PROVE  Threads'
  BY <1>1, <1>3, <1>21, <1>22, <1>23, <1>24, <1>27, Zenon DEF TxStep
<1>28. QED
  BY <1>25, <1>26, <1>27, Zenon DEF Next

-----------------------------------------------------------------------------
(* Connections: each is free, in use by one goroutine or by the             *)
(* transaction, being closed by one goroutine, or closed.                  *)

HoldPlaces == {"lookup", "prepare", "append", "use", "rows", "put"}
Holds(p) == pc[p] = "put" \/ (p \in Users /\ pc[p] \in HoldPlaces)
Closes(p) == pc[p] \in {"mark", "close"}

Held ==
    /\ txConn \in inUse \cup {NoOne}
    /\ \A p \in Procs : Holds(p) => at[p].conn \in inUse /\ at[p].conn # txConn
HeldOnce ==
    \A p, q \in Procs : Holds(p) /\ Holds(q) /\ at[p].conn = at[q].conn => p = q
HasHolder ==
    \A c \in inUse : c = txConn \/ \E p \in Procs : Holds(p) /\ at[p].conn = c
Closing ==
    \A p \in Procs : Closes(p) =>
        /\ at[p].conn \in Conns \ (free \cup inUse \cup finalClosed)
        /\ at[p].conn \in dbmuClosed <=> pc[p] = "close"
ClosedOnce ==
    \A p, q \in Procs : Closes(p) /\ Closes(q) /\ at[p].conn = at[q].conn => p = q
HasCloser ==
    \A c \in dbmuClosed : c \in finalClosed \/ \E p \in Procs : Closes(p) /\ at[p].conn = c
Apart ==
    /\ free \cap inUse = {} /\ (free \cup inUse) \cap dbmuClosed = {}
    /\ finalClosed \subseteq dbmuClosed
Counted == numClosed = Cardinality(finalClosed)

Owned ==
    /\ Held /\ HeldOnce /\ HasHolder /\ Closing /\ ClosedOnce /\ HasCloser
    /\ Apart /\ Counted

owned == <<free, inUse, dbmuClosed, finalClosed, numClosed, txConn>>

\* What a goroutine holds, and what it closes, stays the same.
Sits(p) ==
    /\ Holds(p)' = Holds(p) /\ Closes(p)' = Closes(p)
    /\ Holds(p) \/ Closes(p) => at'[p].conn = at[p].conn
    /\ Closes(p) => pc'[p] = pc[p]

\* Where a goroutine has no connection of its own.
AwayPlaces ==
    {"idle", "check", "conn", "return", "locked", "unlock", "own", "dep", "end"} \cup Ending
Away(p) == IF p \in Users THEN AwayPlaces ELSE AwayPlaces \cup {"prepare", "append"}

\* Where removeDep and finalClose return to.
LEMMA AfterPlaces ==
    ASSUME Threads, NEW p \in Procs, pc[p] \in Ending
    PROVE  After(p) \in {"idle", "unlock", "end"}
BY Zenon DEF Threads, At, UserAt, TxAt, After, Procs

\* A step of one goroutine.
LEMMA Moved ==
    ASSUME Threads, NEW p \in Procs, NEW from, NEW to, NEW l, Step(p, from, to, l)
    PROVE  /\ pc[p] = from /\ pc'[p] = to /\ (to # "idle" => at'[p] = l)
           /\ \A q \in Procs \ {p} : pc'[q] = pc[q] /\ at'[q] = at[q]
BY Zenon DEF Threads, Step, Set

\* The other goroutines keep what they have.
LEMMA OthersSit ==
    ASSUME Threads, NEW p \in Procs, NEW from, NEW to, NEW l, Step(p, from, to, l)
    PROVE  \A q \in Procs \ {p} : Sits(q)
BY Moved, Zenon DEF Sits, Holds, Closes

\* A goroutine that has no connection, and gets none, changes nothing.
LEMMA SitsAway ==
    ASSUME Threads, NEW p \in Procs, NEW from, NEW to, NEW l, Step(p, from, to, l),
           from \in Away(p), to \in Away(p)
    PROVE  \A q \in Procs : Sits(q)
<1>1. Sits(p)
  BY Moved DEF Sits, Holds, Closes, Away, AwayPlaces, Ending, Finals, HoldPlaces
<1>2. QED
  BY <1>1, OthersSit, Zenon

\* Neither does a user that keeps its connection.
LEMMA SitsOn ==
    ASSUME Threads, NEW u \in Users, NEW from \in HoldPlaces, NEW to \in HoldPlaces, NEW l,
           Step(u, from, to, l), l.conn = at[u].conn
    PROVE  \A q \in Procs : Sits(q)
<1>1. u \in Procs
  BY Zenon DEF Procs
<1>2. Sits(u)
  BY <1>1, Moved DEF Sits, Holds, Closes, HoldPlaces
<1>3. QED
  BY <1>1, <1>2, OthersSit, Zenon

\* Nothing changes for the connections when everybody keeps what it has.
LEMMA Unowned ==
    ASSUME Owned, UNCHANGED owned, \A p \in Procs : Sits(p)
    PROVE  Owned'
<1>1. Held' /\ HeldOnce' /\ HasHolder'
  BY Zenon DEF Owned, Held, HeldOnce, HasHolder, Sits, owned
<1>2. Closing' /\ ClosedOnce' /\ HasCloser'
  BY Zenon DEF Owned, Closing, ClosedOnce, HasCloser, Sits, owned
<1>3. Apart' /\ Counted'
  BY Zenon DEF Owned, Apart, Counted, owned
<1>4. QED
  BY <1>1, <1>2, <1>3, Zenon DEF Owned

\* A transaction has its connection while a goroutine is in an operation of it,
\* and only one goroutine at a time ends it.
EndPhase == {"end"} \cup Ending
Phases ==
    /\ \A t \in Txers : pc[t] \in TxPhase =>
         txConn # NoOne /\ \A p \in Txers : pc[p] \in TxPhase \cup {"idle"}
    /\ \A t \in Txers : pc[t] \in EndPhase =>
         txConn # NoOne /\ \A p \in Txers \ {t} : pc[p] = "idle"
    /\ txs # {} => txConn # NoOne

\* Every step keeps each connection with one owner.
LEMMA OwnedStep ==
    ASSUME Threads, Typed, Owned, Phases, Next
    PROVE  Owned'
<1>1. ASSUME NEW u \in Users, \/ Exec(u) \/ ConnFails(u) \/ Return(u) \/ CloseLock(u)
                              \/ CloseUnlock(u)
      PROVE  Owned'
  <2>1. UNCHANGED owned /\ u \in Procs
    BY <1>1, Zenon DEF Exec, ConnFails, Return, CloseLock, CloseUnlock, owned, connVars,
       txVars, Procs
  <2>2. \E from, to \in AwayPlaces : Step(u, from, to, at[u])
    BY <1>1, Zenon DEF Exec, ConnFails, Return, CloseLock, CloseUnlock, Goto, AwayPlaces
  <2>3. QED
    BY <2>1, <2>2, SitsAway, Unowned, Zenon DEF Away
<1>2. ASSUME NEW u \in Users, ConnStmt(u) \/ Close(u)
      PROVE  Owned'
  <2>1. UNCHANGED owned /\ u \in Procs
    BY <1>2, Zenon DEF ConnStmt, removeClosedStmtLocked, Close, owned, connVars, txVars,
       Procs
  <2>2. \E from, to \in AwayPlaces : \E l : Step(u, from, to, l)
    BY <1>2, Zenon DEF ConnStmt, removeClosedStmtLocked, Close, AwayPlaces, Ending
  <2>3. QED
    BY <2>1, <2>2, SitsAway, Unowned, Zenon DEF Away
<1>3. ASSUME NEW p \in Procs, \/ RemoveDep(p) \/ FinalLock(p) \/ NoteUnused(p)
                              \/ RemoveOpenStmt(p) \/ FinalUnlock(p)
      PROVE  Owned'
  <2>1. UNCHANGED owned /\ p \in Procs
    BY <1>3, Zenon DEF RemoveDep, FinalLock, NoteUnused, RemoveOpenStmt, FinalUnlock, owned,
       connVars, txVars, Procs
  <2>2. pc[p] \in Ending
    BY <1>3, Zenon DEF RemoveDep, FinalLock, NoteUnused, RemoveOpenStmt, FinalUnlock, Goto, Step,
       Ending, Finals
  <2>3. Ending \subseteq AwayPlaces /\ After(p) \in AwayPlaces
    BY <2>2, AfterPlaces, Zenon DEF AwayPlaces
  <2>4. \E to \in AwayPlaces : \E l : Step(p, pc[p], to, l)
    BY <1>3, <2>3, Zenon DEF RemoveDep, FinalLock, NoteUnused, RemoveOpenStmt, FinalUnlock, Goto,
       Step, Ending, Finals
  <2>5. QED
    BY <2>1, <2>2, <2>3, <2>4, SitsAway, Unowned, Zenon DEF Away
<1>4. ASSUME NEW t \in Txers, \/ StmtContext(t) \/ PrepareOwn(t) \/ PrepareOwnFails(t)
                              \/ AddDep(t) \/ EndTx(t) \/ CloseTxStmt(t)
      PROVE  Owned'
  <2>1. UNCHANGED owned /\ t \in Procs
    BY <1>4, Zenon DEF StmtContext, removeClosedStmtLocked, PrepareOwn, PrepareOwnFails,
       AddDep, EndTx, CloseTxStmt, owned, connVars, txVars, Procs
  <2>2. \E from, to \in AwayPlaces \cup {"prepare"} : \E l : Step(t, from, to, l)
    BY <1>4, Zenon DEF StmtContext, removeClosedStmtLocked, PrepareOwn, PrepareOwnFails, AddDep,
       EndTx, CloseTxStmt, Goto, AwayPlaces, Ending
  <2>3. t \notin Users
    BY StmtAssumption, Zenon
  <2>4. QED
    BY <2>1, <2>2, <2>3, SitsAway, Unowned, Zenon DEF Away
<1>5. ASSUME NEW u \in Users, Lookup(u) \/ Ran(u) \/ Queried(u) \/ RowsClose(u)
      PROVE  Owned'
  <2>1. UNCHANGED owned /\ u \in Procs
    BY <1>5, Zenon DEF Lookup, Ran, Executed, Queried, RowsClose, owned, connVars, txVars,
       Procs
  <2>2. /\ \A d : Uses(at[u].conn, d).conn = at[u].conn
        /\ \A x, then : Leaves(at[u].conn, x, then).conn = at[u].conn
    BY Zenon DEF Uses, Leaves
  <2>3. \E from, to \in HoldPlaces : \E l : Step(u, from, to, l) /\ l.conn = at[u].conn
    <3>1. CASE Lookup(u)
      BY <2>2, <3>1, Zenon DEF Lookup, Executed, Goto, HoldPlaces
    <3>2. CASE Ran(u)
      BY <2>2, <3>2, Zenon DEF Ran, Executed, HoldPlaces
    <3>3. CASE Queried(u)
      BY <2>2, <3>3, Zenon DEF Executed, Queried, Goto, HoldPlaces
    <3>4. CASE RowsClose(u)
      BY <2>2, <3>4, Zenon DEF Executed, RowsClose, HoldPlaces
    <3>5. QED
      BY <1>5, <3>1, <3>2, <3>3, <3>4, Zenon
  <2>4. QED
    BY <2>1, <2>3, SitsOn, Unowned, Zenon
<1>6. ASSUME NEW p \in Procs, Prepare(p) \/ Fails(p) \/ ListStmt(p)
      PROVE  Owned'
  <2>1. UNCHANGED owned /\ p \in Procs
    BY <1>6, Zenon DEF Prepare, Fails, PrepareFails, ListStmt, owned, connVars, txVars,
       Procs
  <2>2. CASE p \in Users
    <3>1. \E from, to \in HoldPlaces : \E l : Step(p, from, to, l) /\ l.conn = at[p].conn
      BY <1>6, <2>2, StmtAssumption DEF Prepare, Fails, PrepareFails, ListStmt, Goto,
         HoldPlaces, Uses, Leaves
    <3>2. QED
      BY <2>1, <2>2, <3>1, SitsOn, Unowned, Zenon
  <2>3. CASE p \notin Users
    <3>1. \E from, to \in AwayPlaces \cup {"prepare", "append"} : \E l : Step(p, from, to, l)
      BY <1>6, <2>3, Zenon DEF Prepare, Fails, PrepareFails, ListStmt, Goto, AwayPlaces, Procs
    <3>2. QED
      BY <2>1, <2>3, <3>1, SitsAway, Unowned, Zenon DEF Away
  <2>4. QED
    BY <2>2, <2>3, Zenon
<1>7. ASSUME NEW u \in Users, Conn(u)
      PROVE  Owned'
  <2>1. PICK c \in free : /\ Step(u, "conn", "lookup", Uses(c, 0))
                          /\ free' = free \ {c} /\ inUse' = inUse \cup {c}
    BY <1>7, Zenon DEF Conn
  <2>2. UNCHANGED <<dbmuClosed, finalClosed, numClosed, txConn>> /\ u \in Procs
    BY <1>7, Zenon DEF Conn, txVars, Procs
  <2>3. Holds(u)' /\ ~Holds(u) /\ ~Closes(u)' /\ ~Closes(u) /\ at'[u].conn = c
    BY <2>1, <2>2, Moved DEF Holds, Closes, HoldPlaces, Uses
  <2>4. \A q \in Procs \ {u} : Sits(q)
    BY <2>1, <2>2, OthersSit, Zenon
  <2>5. c \in Conns
    BY Zenon DEF Typed, ConnTyped
  <2>6. Held'
    BY <2>1, <2>2, <2>3, <2>4, <2>5, StmtAssumption, Zenon DEF Owned, Held, HeldOnce, Apart, Sits
  <2>7. HeldOnce'
    BY <2>1, <2>2, <2>3, <2>4, <2>5, Zenon DEF Owned, Held, HeldOnce, Apart, Sits
  <2>8. HasHolder'
    BY <2>1, <2>2, <2>3, <2>4, <2>5, StmtAssumption, Zenon DEF Owned, Held, HasHolder, Sits,
       Typed, ConnTyped
  <2>9. Closing'
    BY <2>1, <2>2, <2>3, <2>4, <2>5, Zenon DEF Owned, Held, Closing, ClosedOnce, Apart, Sits,
       Typed, ConnTyped
  <2>10. ClosedOnce'
    BY <2>1, <2>2, <2>3, <2>4, <2>5, Zenon DEF Owned, Held, Closing, ClosedOnce, Sits
  <2>11. HasCloser'
    BY <2>1, <2>2, <2>3, <2>4, <2>5, Zenon DEF Owned, HasCloser, Sits
  <2>12. Apart' /\ Counted'
    BY <2>1, <2>2, <2>3, <2>4, <2>5, Zenon DEF Owned, Held, Closing, Apart, Counted
  <2>13. QED
    BY <2>6, <2>7, <2>8, <2>9, <2>10, <2>11, <2>12, Zenon DEF Owned
<1>8. ASSUME NEW t \in Txers, Begin(t)
      PROVE  Owned'
  <2>1. PICK c \in free : txConn' = c /\ free' = free \ {c} /\ inUse' = inUse \cup {c}
    BY <1>8, Zenon DEF Begin
  <2>2. UNCHANGED <<dbmuClosed, finalClosed, numClosed>> /\ c \in Conns /\ txConn = NoOne
    BY <1>8, Zenon DEF Begin, Typed, ConnTyped
  <2>3. \A q \in Procs : Sits(q)
    BY <1>8, Zenon DEF Begin, Sits, Holds, Closes
  <2>4. Held'
    BY <2>1, <2>2, <2>3, StmtAssumption, Zenon DEF Owned, Held, HeldOnce, Apart, Sits
  <2>5. HeldOnce'
    BY <2>1, <2>2, <2>3, Zenon DEF Owned, Held, HeldOnce, Apart, Sits
  <2>6. HasHolder'
    BY <2>1, <2>2, <2>3, StmtAssumption, Zenon DEF Owned, Held, HasHolder, Sits, Typed, ConnTyped
  <2>7. Closing'
    BY <2>1, <2>2, <2>3 DEF Owned, Held, Closing, ClosedOnce, Apart, Sits, Typed, ConnTyped
  <2>8. ClosedOnce'
    BY <2>1, <2>2, <2>3, Zenon DEF Owned, Held, Closing, ClosedOnce, Sits
  <2>9. HasCloser'
    BY <2>1, <2>2, <2>3, Zenon DEF Owned, HasCloser, Sits
  <2>10. Apart' /\ Counted'
    BY <2>1, <2>2, <2>3, Zenon DEF Owned, Held, Closing, Apart, Counted
  <2>11. QED
    BY <2>4, <2>5, <2>6, <2>7, <2>8, <2>9, <2>10, Zenon DEF Owned
<1>9. ASSUME NEW t \in Txers, ReleaseTx(t)
      PROVE  Owned'
  <2>1. Step(t, "end", "put", Uses(txConn, 0)) /\ txConn' = NoOne
    BY <1>9, Zenon DEF ReleaseTx
  <2>2. UNCHANGED <<free, inUse, dbmuClosed, finalClosed, numClosed>> /\ t \in Procs
    BY <1>9, Zenon DEF ReleaseTx, connVars, Procs
  <2>3. Holds(t)' /\ ~Holds(t) /\ ~Closes(t)' /\ ~Closes(t) /\ at'[t].conn = txConn
    BY <2>1, <2>2, Moved DEF Holds, Closes, HoldPlaces, Uses
  <2>4. \A q \in Procs \ {t} : Sits(q)
    BY <2>1, <2>2, OthersSit, Zenon
  <2>5. txConn \in inUse /\ inUse \subseteq Conns
    BY <2>1, <2>2, Moved, Zenon DEF Phases, EndPhase, Owned, Held, Typed, ConnTyped
  <2>6. Held'
    BY <2>1, <2>2, <2>3, <2>4, <2>5, StmtAssumption, Zenon DEF Owned, Held, HeldOnce, Apart, Sits
  <2>7. HeldOnce'
    BY <2>1, <2>2, <2>3, <2>4, <2>5, Zenon DEF Owned, Held, HeldOnce, Apart, Sits
  <2>8. HasHolder'
    BY <2>1, <2>2, <2>3, <2>4, <2>5, StmtAssumption, Zenon DEF Owned, Held, HasHolder, Sits,
       Typed, ConnTyped
  <2>9. Closing'
    BY <2>1, <2>2, <2>3, <2>4, <2>5, Zenon DEF Owned, Held, Closing, ClosedOnce, Apart, Sits,
       Typed, ConnTyped
  <2>10. ClosedOnce'
    BY <2>1, <2>2, <2>3, <2>4, <2>5, Zenon DEF Owned, Held, Closing, ClosedOnce, Sits
  <2>11. HasCloser'
    BY <2>1, <2>2, <2>3, <2>4, <2>5, Zenon DEF Owned, HasCloser, Sits
  <2>12. Apart' /\ Counted'
    BY <2>1, <2>2, <2>3, <2>4, <2>5, Zenon DEF Owned, Held, Closing, Apart, Counted
  <2>13. QED
    BY <2>6, <2>7, <2>8, <2>9, <2>10, <2>11, <2>12, Zenon DEF Owned
<1>10. ASSUME NEW t \in Txers, AbandonTx(t)
       PROVE  Owned'
  <2>1. /\ Step(t, "idle", "mark", Uses(txConn, 0))
        /\ txConn' = NoOne /\ inUse' = inUse \ {txConn}
    BY <1>10, Zenon DEF AbandonTx
  <2>2. UNCHANGED <<free, dbmuClosed, finalClosed, numClosed>> /\ t \in Procs
    BY <1>10, Zenon DEF AbandonTx, connVars, Procs
  <2>3. /\ ~Holds(t)' /\ ~Holds(t) /\ Closes(t)' /\ ~Closes(t)
        /\ pc'[t] = "mark" /\ at'[t].conn = txConn
    BY <2>1, <2>2, Moved, StmtAssumption DEF Holds, Closes, HoldPlaces, Uses
  <2>4. \A q \in Procs \ {t} : Sits(q)
    BY <2>1, <2>2, OthersSit, Zenon
  <2>5. txConn \in inUse /\ inUse \subseteq Conns
    BY <1>10, Zenon DEF AbandonTx, Owned, Held, Typed, ConnTyped
  <2>6. Held'
    BY <2>1, <2>2, <2>3, <2>4, <2>5, StmtAssumption, Zenon DEF Owned, Held, HeldOnce, Apart, Sits
  <2>7. HeldOnce'
    BY <2>1, <2>2, <2>3, <2>4, <2>5, Zenon DEF Owned, Held, HeldOnce, Apart, Sits
  <2>8. HasHolder'
    BY <2>1, <2>2, <2>3, <2>4, <2>5, StmtAssumption DEF Owned, Held, HasHolder, Sits, Typed,
       ConnTyped
  <2>9. Closing'
    BY <2>1, <2>2, <2>3, <2>4, <2>5, Zenon DEF Owned, Held, Closing, ClosedOnce, Apart, Sits,
       Typed, ConnTyped
  <2>10. ClosedOnce'
    BY <2>1, <2>2, <2>3, <2>4, <2>5, Zenon DEF Owned, Held, Closing, ClosedOnce, Sits
  <2>11. HasCloser'
    BY <2>1, <2>2, <2>3, <2>4, <2>5, Zenon DEF Owned, HasCloser, Sits
  <2>12. Apart' /\ Counted'
    BY <2>1, <2>2, <2>3, <2>4, <2>5, Zenon DEF Owned, Held, Closing, Apart, Counted
  <2>13. QED
    BY <2>6, <2>7, <2>8, <2>9, <2>10, <2>11, <2>12, Zenon DEF Owned
<1>11. ASSUME NEW p \in Procs, Puts(p)
       PROVE  Owned'
  <2>1. PICK bad \in BOOLEAN : PutConn(p, bad)
    BY <1>11, Zenon DEF Puts
  <2>2. DEFINE c == at[p].conn
  <2>3. /\ Step(p, "put", IF bad THEN "mark" ELSE at[p].then, at[p])
        /\ inUse' = inUse \ {c} /\ free' = IF bad THEN free ELSE free \cup {c}
        /\ UNCHANGED <<dbmuClosed, finalClosed, numClosed, txConn>>
    BY <2>1, Zenon DEF PutConn, Goto, txVars
  <2>4. Holds(p) /\ ~Closes(p) /\ at[p].then \notin {"put", "mark", "close"} \cup HoldPlaces
    BY <2>3, Moved DEF Holds, Closes, Threads, At, UserAt, TxAt, Leaving, Procs, HoldPlaces
  <2>5. ~Holds(p)' /\ (Closes(p)' = bad) /\ (bad => pc'[p] = "mark" /\ at'[p].conn = c)
    BY <2>3, <2>4, Moved DEF Holds, Closes, HoldPlaces
  <2>6. \A q \in Procs \ {p} : Sits(q)
    BY <2>3, OthersSit, Zenon
  <2>7. c \in inUse /\ c # txConn /\ c \in Conns
    BY <2>4, Zenon DEF Owned, Held, Typed, ConnTyped
  <2>8. /\ ~Holds(p)' /\ (Closes(p)' = bad) /\ Holds(p) /\ ~Closes(p)
        /\ bad => pc'[p] = "mark" /\ at'[p].conn = c
    BY <2>4, <2>5, Zenon
  <2>9. HIDE DEF c
  <2>10. Held'
    <3>1. \A q \in Procs \ {p} : Holds(q) => at[q].conn # c
      BY <2>8, Zenon DEF c, Owned, HeldOnce
    <3>2. QED
      BY <2>3, <2>6, <2>7, <2>8, <3>1, StmtAssumption, Zenon DEF Owned, Held, Sits
  <2>11. HeldOnce'
    BY <2>3, <2>8, <2>6, <2>7, Zenon DEF Owned, Held, HeldOnce, Apart, Sits
  <2>12. HasHolder'
    <3>1. SUFFICES ASSUME NEW d \in inUse, d # c, d # txConn
                   PROVE  \E q \in Procs : (Holds(q) /\ at[q].conn = d)'
      BY <2>3, Zenon DEF HasHolder
    <3>2. PICK q \in Procs : Holds(q) /\ at[q].conn = d
      BY <3>1, Zenon DEF Owned, HasHolder
    <3>3. q # p
      BY <3>1, <3>2, Zenon DEF c
    <3>4. QED
      BY <2>6, <3>2, <3>3, Zenon DEF Sits
  <2>13. Closing'
    BY <2>3, <2>8, <2>6, <2>7 DEF Owned, Held, Closing, ClosedOnce, Apart, Sits, Typed,
       ConnTyped
  <2>14. ClosedOnce'
    BY <2>3, <2>8, <2>6, <2>7 DEF Owned, Held, Closing, ClosedOnce, Sits
  <2>15. HasCloser'
    BY <2>3, <2>8, <2>6, <2>7, Zenon DEF Owned, HasCloser, Sits
  <2>16. Apart' /\ Counted'
    BY <2>3, <2>8, <2>6, <2>7, Zenon DEF Owned, Held, Closing, Apart, Counted
  <2>17. QED
    BY <2>10, <2>11, <2>12, <2>13, <2>14, <2>15, <2>16, Zenon DEF Owned
<1>12. ASSUME NEW p \in Procs, CloseMark(p)
       PROVE  Owned'
  <2>1. Step(p, "mark", "close", at[p]) /\ dbmuClosed' = dbmuClosed \cup {at[p].conn}
    BY <1>12, Zenon DEF CloseMark, Goto
  <2>2. UNCHANGED <<free, inUse, finalClosed, numClosed, txConn>>
    BY <1>12, Zenon DEF CloseMark, txVars
  <2>3. /\ ~Holds(p)' /\ ~Holds(p) /\ Closes(p)' /\ Closes(p)
        /\ pc[p] = "mark" /\ pc'[p] = "close" /\ at'[p].conn = at[p].conn
    BY <2>1, Moved DEF Holds, Closes, HoldPlaces
  <2>4. \A q \in Procs \ {p} : Sits(q)
    BY <2>1, OthersSit, Zenon
  <2>5. Held'
    BY <2>1, <2>2, <2>3, <2>4, StmtAssumption, Zenon DEF Owned, Held, HeldOnce, Apart, Sits
  <2>6. HeldOnce'
    BY <2>1, <2>2, <2>3, <2>4, Zenon DEF Owned, Held, HeldOnce, Apart, Sits
  <2>7. HasHolder'
    BY <2>1, <2>2, <2>3, <2>4, StmtAssumption DEF Owned, Held, HasHolder, Sits, Typed,
       ConnTyped
  <2>8. Closing'
    BY <2>1, <2>2, <2>3, <2>4, Zenon DEF Owned, Held, Closing, ClosedOnce, Apart, Sits, Typed,
       ConnTyped
  <2>9. ClosedOnce'
    BY <2>1, <2>2, <2>3, <2>4 DEF Owned, Held, Closing, ClosedOnce, Sits
  <2>10. HasCloser'
    BY <2>1, <2>2, <2>3, <2>4, Zenon DEF Owned, HasCloser, Sits
  <2>11. Apart' /\ Counted'
    BY <2>1, <2>2, <2>3, <2>4, Zenon DEF Owned, Held, Closing, Apart, Counted
  <2>12. QED
    BY <2>5, <2>6, <2>7, <2>8, <2>9, <2>10, <2>11, Zenon DEF Owned
<1>13. ASSUME NEW p \in Procs, CloseConn(p)
       PROVE  Owned'
  <2>1. /\ Step(p, "close", at[p].then, at[p]) /\ finalClosed' = finalClosed \cup {at[p].conn}
        /\ numClosed' = numClosed + 1
    BY <1>13, Zenon DEF CloseConn, Goto
  <2>2. UNCHANGED <<free, inUse, dbmuClosed, txConn>>
    BY <1>13, Zenon DEF CloseConn, txVars
  <2>3. pc[p] = "close" /\ at[p].then \notin {"mark", "close"} \cup HoldPlaces
    BY <2>1, Moved DEF Threads, At, UserAt, TxAt, Leaving, Procs, HoldPlaces
  <2>4. ~Holds(p)' /\ ~Holds(p) /\ ~Closes(p)' /\ Closes(p)
    BY <2>1, <2>3, Moved, Zenon DEF Holds, Closes, HoldPlaces
  <2>5. \A q \in Procs \ {p} : Sits(q)
    BY <2>1, OthersSit, Zenon
  <2>6. IsFiniteSet(finalClosed)
    BY FS_Subset, StmtAssumption, Zenon DEF Typed, ConnTyped
  <2>7. Cardinality(finalClosed') = Cardinality(finalClosed) + 1
    BY <2>1, <2>3, <2>4, <2>6, FS_AddElement, Zenon DEF Owned, Closing
  <2>8. Held'
    BY <2>1, <2>2, <2>3, <2>4, <2>5, <2>7, StmtAssumption, Zenon DEF Owned, Held, HeldOnce, Apart,
       Sits
  <2>9. HeldOnce'
    BY <2>1, <2>2, <2>3, <2>4, <2>5, <2>7, Zenon DEF Owned, Held, HeldOnce, Apart, Sits
  <2>10. HasHolder'
    BY <2>1, <2>2, <2>3, <2>4, <2>5, <2>7, StmtAssumption, Zenon DEF Owned, Held, HasHolder, Sits,
       Typed, ConnTyped
  <2>11. Closing'
    BY <2>1, <2>2, <2>3, <2>4, <2>5, <2>7, Zenon DEF Owned, Held, Closing, ClosedOnce, Apart,
       Sits, Typed, ConnTyped
  <2>12. ClosedOnce'
    BY <2>1, <2>2, <2>3, <2>4, <2>5, <2>7, Zenon DEF Owned, Held, Closing, ClosedOnce, Sits
  <2>13. HasCloser'
    BY <2>1, <2>2, <2>3, <2>4, <2>5, <2>7 DEF Owned, HasCloser, Sits
  <2>14. Apart' /\ Counted'
    BY <2>1, <2>2, <2>3, <2>4, <2>5, <2>7, Zenon DEF Owned, Held, Closing, Apart, Counted
  <2>15. QED
    BY <2>8, <2>9, <2>10, <2>11, <2>12, <2>13, <2>14, Zenon DEF Owned
<1>14. ASSUME NEW p \in Procs, Shared(p)
       PROVE  Owned'
  BY <1>3, <1>6, <1>11, <1>12, <1>13, <1>14, Zenon DEF Shared, Fails, Puts
<1>15. ASSUME NEW u \in Users, Exec(u) \/ RowsClose(u) \/ CloseLock(u) \/ UserStep(u)
       PROVE  Owned'
  BY <1>1, <1>2, <1>5, <1>7, <1>15, Zenon DEF UserStep, Ran
<1>16. ASSUME NEW t \in Txers, Begin(t) \/ StmtContext(t) \/ EndTx(t) \/ AbandonTx(t)
                                  \/ TxStep(t)
       PROVE  Owned'
  BY <1>4, <1>8, <1>9, <1>10, <1>16, Zenon DEF TxStep
<1>17. QED
  BY <1>14, <1>15, <1>16, Zenon DEF Next

-----------------------------------------------------------------------------
(* The phases of a transaction, and the types *)

\* A goroutine that stays in its part of a transaction disturbs nobody.
LEMMA PhasesKept ==
    ASSUME Threads, Phases, NEW p \in Procs, NEW from, NEW to, NEW l, Step(p, from, to, l),
           UNCHANGED txConn, txs' # {} => txConn # NoOne,
           p \in Txers => \/ from \in TxPhase /\ to \in TxPhase \cup {"idle"}
                          \/ from \in EndPhase /\ to \in EndPhase
                          \/ from \in Leaving /\ to \in Leaving \cup {"idle"}
    PROVE  Phases'
<1>1. /\ pc[p] = from /\ pc'[p] = to
      /\ \A t \in Txers : t # p => pc'[t] = pc[t]
  BY Moved, Zenon DEF Procs
<1>2. CASE p \notin Txers
  BY <1>1, <1>2, Zenon DEF Phases
<1>3. CASE p \in Txers /\ from \in TxPhase
  BY <1>1, <1>3, Zenon DEF Phases, TxPhase, EndPhase, Ending, Finals, Leaving
<1>4. CASE p \in Txers /\ from \in EndPhase
  BY <1>1, <1>4, Zenon DEF Phases, TxPhase, EndPhase, Ending, Finals, Leaving
<1>5. CASE p \in Txers /\ from \in Leaving
  BY <1>1, <1>5, Zenon DEF Phases, TxPhase, EndPhase, Ending, Finals, Leaving
<1>6. QED
  BY <1>2, <1>3, <1>4, <1>5, Zenon

\* Every step keeps the phases of the transaction apart.
LEMMA PhasesStep ==
    ASSUME Threads, Typed, Phases, Next
    PROVE  Phases'
<1>1. ASSUME NEW u \in Users, \/ Exec(u) \/ ConnStmt(u) \/ Conn(u) \/ ConnFails(u)
                              \/ Lookup(u) \/ Ran(u) \/ Queried(u) \/ Return(u)
                              \/ RowsClose(u) \/ CloseLock(u) \/ Close(u) \/ CloseUnlock(u)
      PROVE  Phases'
  <2>1. u \in Procs /\ u \notin Txers /\ UNCHANGED <<txConn, txs>>
    BY <1>1, StmtAssumption, Zenon DEF Exec, ConnStmt, removeClosedStmtLocked, Conn,
       ConnFails, Lookup, Ran, Executed, Queried, Return, RowsClose, CloseLock, Close,
       CloseUnlock, txVars, Procs
  <2>2. \E from, to, l : Step(u, from, to, l)
    BY <1>1, Zenon DEF Exec, ConnStmt, removeClosedStmtLocked, Conn, ConnFails, Lookup, Ran,
       Executed, Queried, Return, RowsClose, CloseLock, Close, CloseUnlock, Goto
  <2>3. QED
    BY <2>1, <2>2, PhasesKept, Zenon DEF Phases
<1>2. ASSUME NEW p \in Procs, Prepare(p) \/ Fails(p) \/ ListStmt(p)
      PROVE  Phases'
  <2>1. UNCHANGED <<txConn, txs>>
    BY <1>2, Zenon DEF Prepare, Fails, PrepareFails, ListStmt, txVars
  <2>2. \E to, l : /\ Step(p, pc[p], to, l) /\ pc[p] \in TxPhase
                   /\ p \in Txers => to \in TxPhase \cup {"idle"}
    BY <1>2, Zenon DEF Prepare, Fails, PrepareFails, ListStmt, Goto, Step, TxPhase
  <2>3. QED
    BY <2>1, <2>2, PhasesKept, Zenon DEF Phases
<1>3. ASSUME NEW p \in Procs, Puts(p) \/ CloseMark(p) \/ CloseConn(p)
      PROVE  Phases'
  <2>1. UNCHANGED <<txConn, txs>>
    BY <1>3, Zenon DEF Puts, PutConn, CloseMark, CloseConn, txVars
  <2>2. pc[p] \in Leaving /\ (p \in Txers => at[p].then = "idle")
    BY <1>3, Zenon DEF Puts, PutConn, CloseMark, CloseConn, Goto, Step, Leaving, Threads, At, TxAt
  <2>3. \E to : /\ \E l : Step(p, pc[p], to, l)
                /\ p \in Txers => to \in Leaving \cup {"idle"}
    BY <1>3, <2>2, Zenon DEF Puts, PutConn, CloseMark, CloseConn, Goto, Step, Leaving
  <2>4. QED
    BY <2>1, <2>2, <2>3, PhasesKept, Zenon DEF Phases
<1>4. ASSUME NEW p \in Procs, \/ RemoveDep(p) \/ FinalLock(p) \/ NoteUnused(p)
                              \/ RemoveOpenStmt(p) \/ FinalUnlock(p)
      PROVE  Phases'
  <2>1. UNCHANGED <<txConn, txs>>
    BY <1>4, Zenon DEF RemoveDep, FinalLock, NoteUnused, RemoveOpenStmt, FinalUnlock, txVars
  <2>2. pc[p] \in EndPhase /\ (p \in Txers => After(p) = "end")
    BY <1>4, Zenon DEF RemoveDep, FinalLock, NoteUnused, RemoveOpenStmt, FinalUnlock, Goto, Step,
       After, EndPhase, Ending, Finals, Threads, At, TxAt
  <2>3. \E to : /\ \E l : Step(p, pc[p], to, l)
                /\ p \in Txers => to \in EndPhase
    BY <1>4, <2>2, Zenon DEF RemoveDep, FinalLock, NoteUnused, RemoveOpenStmt, FinalUnlock, Goto,
       Step, EndPhase, Ending, Finals
  <2>4. QED
    BY <2>1, <2>2, <2>3, PhasesKept, Zenon DEF Phases
<1>5. ASSUME NEW t \in Txers, \/ PrepareOwn(t) \/ PrepareOwnFails(t) \/ AddDep(t)
                              \/ CloseTxStmt(t)
      PROVE  Phases'
  <2>1. UNCHANGED txConn /\ t \in Procs
    BY <1>5, Zenon DEF PrepareOwn, PrepareOwnFails, AddDep, CloseTxStmt, txVars, Procs
  <2>2. \E to, l : /\ Step(t, pc[t], to, l)
                   /\ \/ pc[t] \in TxPhase /\ to = "idle"
                      \/ pc[t] \in EndPhase /\ to \in EndPhase
    BY <1>5, Zenon DEF PrepareOwn, PrepareOwnFails, AddDep, CloseTxStmt, Goto, Step, TxPhase,
       EndPhase, Ending
  <2>3. txConn # NoOne
    BY <2>2, Zenon DEF Phases
  <2>4. QED
    BY <2>1, <2>2, <2>3, PhasesKept, Zenon
<1>6. ASSUME NEW t \in Txers, Begin(t)
      PROVE  Phases'
  <2>1. txConn' # NoOne /\ UNCHANGED pc /\ txConn = NoOne
    BY <1>6, StmtAssumption, Zenon DEF Begin, Typed, ConnTyped
  <2>2. QED
    BY <2>1, Zenon DEF Phases
<1>7. ASSUME NEW t \in Txers, StmtContext(t)
      PROVE  Phases'
  <2>1. /\ txConn # NoOne /\ UNCHANGED <<txConn, txs>> /\ t \in Procs
        /\ \A p \in Txers : pc[p] \in TxPhase \cup {"idle"}
    BY <1>7, Zenon DEF StmtContext, removeClosedStmtLocked, txVars, Procs, TxPhase
  <2>2. \E to \in TxPhase : \E from, l : Step(t, from, to, l)
    BY <1>7, Zenon DEF StmtContext, removeClosedStmtLocked, Goto, TxPhase
  <2>3. \A p \in Txers : pc'[p] \in TxPhase \cup {"idle"}
    BY <2>1, <2>2, Moved DEF Procs
  <2>4. QED
    BY <2>1, <2>3, Zenon DEF Phases, TxPhase, EndPhase, Ending, Finals
<1>8. ASSUME NEW t \in Txers, EndTx(t)
      PROVE  Phases'
  <2>1. /\ txConn # NoOne /\ UNCHANGED <<txConn, txs>> /\ t \in Procs
        /\ \A p \in Txers : pc[p] = "idle"
    BY <1>8, Zenon DEF EndTx, txVars, Procs
  <2>2. pc'[t] = "end" /\ \A p \in Txers \ {t} : pc'[p] = "idle"
    BY <1>8, <2>1, Moved, Zenon DEF EndTx, Goto, Procs
  <2>3. QED
    BY <2>1, <2>2, Zenon DEF Phases, TxPhase, EndPhase, Ending, Finals
<1>9. ASSUME NEW t \in Txers, AbandonTx(t) \/ ReleaseTx(t)
      PROVE  Phases'
  <2>1. t \in Procs /\ txs' = {}
    BY <1>9, Zenon DEF AbandonTx, ReleaseTx, Procs
  <2>2. \A p \in Txers \ {t} : pc[p] = "idle"
    BY <1>9, Zenon DEF AbandonTx, ReleaseTx, Step, Phases, EndPhase
  <2>3. pc'[t] \in Leaving /\ \A p \in Txers \ {t} : pc'[p] = "idle"
    BY <1>9, <2>1, <2>2, Moved DEF AbandonTx, ReleaseTx, Procs, Leaving
  <2>4. QED
    BY <2>1, <2>3 DEF Phases, TxPhase, EndPhase, Ending, Finals, Leaving
<1>10. ASSUME NEW p \in Procs, Shared(p)
       PROVE  Phases'
  BY <1>2, <1>3, <1>4, <1>10, Zenon DEF Shared, Fails, Puts
<1>11. ASSUME NEW u \in Users, Exec(u) \/ RowsClose(u) \/ CloseLock(u) \/ UserStep(u)
       PROVE  Phases'
  BY <1>1, <1>11, Zenon DEF UserStep, Ran
<1>12. ASSUME NEW t \in Txers, Begin(t) \/ StmtContext(t) \/ EndTx(t) \/ AbandonTx(t)
                                  \/ TxStep(t)
       PROVE  Phases'
  BY <1>5, <1>6, <1>7, <1>8, <1>9, <1>12, Zenon DEF TxStep
<1>13. QED
  BY <1>10, <1>11, <1>12, Zenon DEF Next

\* Who prepares, runs or reads a driver statement is on a connection in use.
LEMMA ConnOfInUse ==
    ASSUME Threads, Owned, Phases, NEW p \in Procs,
           pc[p] \in {"prepare", "append", "use", "rows", "own", "dep"}
    PROVE  ConnOf(p) \in inUse
<1>1. CASE p \in Users
  BY <1>1, StmtAssumption, Zenon DEF Threads, At, UserAt, UserPlaces, Leaving, Ending, Finals,
     Owned, Held, Holds, HoldPlaces, ConnOf
<1>2. CASE p \in Txers
  BY <1>2, StmtAssumption, Zenon DEF Threads, At, TxAt, TxPlaces, TxPhase, Leaving, Ending,
     Finals, Owned, Held, Phases, ConnOf
<1>3. QED
  BY <1>1, <1>2, Zenon DEF Procs

\* Every step keeps the types.
LEMMA TypedStep ==
    ASSUME Threads, Typed, Owned, Phases, Next
    PROVE  Typed'
<1>1. ASSUME NEW u \in Users, Conn(u)
      PROVE  Typed'
  <2>1. ConnTyped'
    BY <1>1, Zenon DEF Conn, Typed, ConnTyped
  <2>2. TxTyped'
    BY <1>1, Zenon DEF Conn, Typed, TxTyped, ConnTyped, txVars
  <2>3. StmtTyped' /\ DriverTyped'
    BY <1>1, Zenon DEF Conn, Typed, StmtTyped, DriverTyped, stmtVars, connVars, txVars
  <2>4. QED
    BY <2>1, <2>2, <2>3, Zenon DEF Typed
<1>2. ASSUME NEW t \in Txers, Begin(t)
      PROVE  Typed'
  <2>1. ConnTyped'
    BY <1>2, Zenon DEF Begin, Typed, ConnTyped
  <2>2. TxTyped'
    BY <1>2, Zenon DEF Begin, Typed, TxTyped, ConnTyped, txVars
  <2>3. StmtTyped' /\ DriverTyped'
    BY <1>2, Zenon DEF Begin, Typed, StmtTyped, DriverTyped, stmtVars, connVars, txVars
  <2>4. QED
    BY <2>1, <2>2, <2>3, Zenon DEF Typed
<1>3. ASSUME NEW u \in Users, ConnStmt(u)
      PROVE  Typed'
  <2>1. UNCHANGED <<connVars, txVars, mu, closed, unpaired>>
    BY <1>3, Zenon DEF ConnStmt, removeClosedStmtLocked, txVars, connVars
  <2>2. css' \subseteq css /\ lastNumClosed' \in {lastNumClosed, numClosed}
    BY <1>3, Zenon DEF ConnStmt, removeClosedStmtLocked
  <2>3. StmtTyped'
    BY <2>1, <2>2, Zenon DEF Typed, StmtTyped, ConnTyped
  <2>4. QED
    BY <2>1, <2>3, Zenon DEF Typed, ConnTyped, DriverTyped, TxTyped, connVars, txVars
<1>4. ASSUME NEW t \in Txers, StmtContext(t)
      PROVE  Typed'
  <2>1. UNCHANGED <<connVars, txVars, mu, closed, unpaired>>
    BY <1>4, Zenon DEF StmtContext, removeClosedStmtLocked, txVars, connVars
  <2>2. css' \subseteq css /\ lastNumClosed' \in {lastNumClosed, numClosed}
    BY <1>4, Zenon DEF StmtContext, removeClosedStmtLocked
  <2>3. StmtTyped'
    BY <2>1, <2>2, Zenon DEF Typed, StmtTyped, ConnTyped
  <2>4. QED
    BY <2>1, <2>3, Zenon DEF Typed, ConnTyped, DriverTyped, TxTyped, connVars, txVars
<1>5. ASSUME NEW p \in Procs, ListStmt(p)
      PROVE  Typed'
  <2>1. ConnOf(p) \in Conns /\ at[p].ds \in Nat
    BY <1>5, ConnOfInUse, Zenon DEF ListStmt, Goto, Step, Typed, ConnTyped, Threads, Locals
  <2>2. StmtTyped'
    BY <1>5, <2>1 DEF ListStmt, Typed, StmtTyped
  <2>3. ConnTyped'
    BY <1>5, <2>1, Zenon DEF ListStmt, Typed, ConnTyped, Set
  <2>4. DriverTyped' /\ TxTyped'
    BY <1>5, Zenon DEF ListStmt, Typed, DriverTyped, TxTyped, stmtVars, connVars, txVars
  <2>5. QED
    BY <2>2, <2>3, <2>4, Zenon DEF Typed
<1>6. ASSUME NEW p \in Procs, Prepare(p)
      PROVE  Typed'
  <2>1. ConnOf(p) \in Conns
    BY <1>6, ConnOfInUse, Zenon DEF Prepare, Step, Typed, ConnTyped
  <2>2. ConnTyped'
    BY <1>6, <2>1, Zenon DEF Prepare, Typed, ConnTyped, Set
  <2>3. DriverTyped'
    BY <1>6, <2>1 DEF Prepare, Typed, DriverTyped
  <2>4. StmtTyped' /\ TxTyped'
    BY <1>6, Zenon DEF Prepare, Typed, StmtTyped, TxTyped, stmtVars, connVars, txVars
  <2>5. QED
    BY <2>2, <2>3, <2>4, Zenon DEF Typed
<1>7. ASSUME NEW t \in Txers, PrepareOwn(t)
      PROVE  Typed'
  <2>1. txConn \in Conns /\ [by |-> t, ds |-> Len(made) + 1, own |-> TRUE] \in TxStmts
    BY <1>7, ConnOfInUse, StmtAssumption DEF PrepareOwn, Goto, Step, Typed, ConnTyped,
       DriverTyped, ConnOf, Procs, TxStmts
  <2>2. DriverTyped'
    BY <1>7, <2>1 DEF PrepareOwn, Typed, DriverTyped
  <2>3. TxTyped'
    BY <1>7, <2>1, Zenon DEF PrepareOwn, Typed, TxTyped, DriverTyped
  <2>4. StmtTyped' /\ ConnTyped'
    BY <1>7, Zenon DEF PrepareOwn, Typed, StmtTyped, ConnTyped, stmtVars, connVars, txVars
  <2>5. QED
    BY <2>2, <2>3, <2>4, Zenon DEF Typed
<1>8. ASSUME NEW p \in Procs, Puts(p)
      PROVE  Typed'
  <2>1. at[p].conn \in Conns
    BY <1>8, Zenon DEF Puts, PutConn, Goto, Step, Typed, ConnTyped, Owned, Held, Holds
  <2>2. ConnTyped'
    BY <1>8, <2>1, Zenon DEF Puts, PutConn, Typed, ConnTyped
  <2>3. DriverTyped'
    BY <1>8, <2>1, Zenon DEF Puts, PutConn, Typed, DriverTyped, Set
  <2>4. StmtTyped' /\ TxTyped'
    BY <1>8, Zenon DEF Puts, PutConn, Typed, StmtTyped, TxTyped, stmtVars, connVars, txVars
  <2>5. QED
    BY <2>2, <2>3, <2>4, Zenon DEF Typed
<1>9. ASSUME NEW p \in Procs, CloseMark(p)
      PROVE  Typed'
  <2>1. at[p].conn \in Conns
    BY <1>9, Zenon DEF CloseMark, Goto, Step, Owned, Closing, Closes
  <2>2. ConnTyped'
    BY <1>9, <2>1, Zenon DEF CloseMark, Typed, ConnTyped
  <2>3. StmtTyped' /\ DriverTyped' /\ TxTyped'
    BY <1>9, Zenon DEF CloseMark, Typed, StmtTyped, DriverTyped, TxTyped, stmtVars,
       connVars, txVars
  <2>4. QED
    BY <2>2, <2>3, Zenon DEF Typed
<1>10. ASSUME NEW p \in Procs, CloseConn(p)
       PROVE  Typed'
  <2>1. at[p].conn \in Conns
    BY <1>10, Zenon DEF CloseConn, Goto, Step, Owned, Closing, Closes
  <2>2. ConnTyped'
    BY <1>10, <2>1 DEF CloseConn, Typed, ConnTyped
  <2>3. DriverTyped'
    BY <1>10, <2>1, Zenon DEF CloseConn, Typed, DriverTyped, Set
  <2>4. StmtTyped' /\ TxTyped'
    BY <1>10, Zenon DEF CloseConn, Typed, StmtTyped, TxTyped, stmtVars, connVars, txVars
  <2>5. QED
    BY <2>2, <2>3, <2>4, Zenon DEF Typed
<1>11. ASSUME NEW p \in Procs, RemoveOpenStmt(p)
       PROVE  Typed'
  <2>1. DriverTyped'
    BY <1>11, Zenon DEF RemoveOpenStmt, Typed, DriverTyped
  <2>2. StmtTyped' /\ ConnTyped' /\ TxTyped'
    BY <1>11, Zenon DEF RemoveOpenStmt, Typed, StmtTyped, ConnTyped, TxTyped, stmtVars,
       connVars, txVars
  <2>3. QED
    BY <2>1, <2>2, Zenon DEF Typed
<1>12. ASSUME NEW t \in Txers, AbandonTx(t)
       PROVE  Typed'
  <2>1. txConn \in Conns
    BY <1>12, Zenon DEF AbandonTx, Typed, TxTyped
  <2>2. ConnTyped'
    BY <1>12, <2>1, Zenon DEF AbandonTx, Typed, ConnTyped
  <2>3. DriverTyped'
    BY <1>12, <2>1, Zenon DEF AbandonTx, Typed, DriverTyped, Set
  <2>4. TxTyped'
    BY <1>12, <2>1, Zenon DEF AbandonTx, Typed, TxTyped, TxStmts
  <2>5. StmtTyped'
    BY <1>12, Zenon DEF AbandonTx, Typed, StmtTyped, stmtVars, connVars, txVars
  <2>6. QED
    BY <2>2, <2>3, <2>4, <2>5, Zenon DEF Typed
<1>13. ASSUME NEW t \in Txers, CloseTxStmt(t)
       PROVE  Typed'
  <2>1. DriverTyped'
    BY <1>13, Zenon DEF CloseTxStmt, Typed, DriverTyped, TxTyped, TxStmts
  <2>2. TxTyped'
    BY <1>13, Zenon DEF CloseTxStmt, Typed, TxTyped
  <2>3. StmtTyped' /\ ConnTyped'
    BY <1>13, Zenon DEF CloseTxStmt, Typed, StmtTyped, ConnTyped, stmtVars, connVars, txVars
  <2>4. QED
    BY <2>1, <2>2, <2>3, Zenon DEF Typed
<1>14. ASSUME NEW t \in Txers, ReleaseTx(t)
       PROVE  Typed'
  <2>1. TxTyped'
    BY <1>14, Zenon DEF ReleaseTx, Typed, TxTyped
  <2>2. StmtTyped' /\ ConnTyped' /\ DriverTyped'
    BY <1>14, Zenon DEF ReleaseTx, Typed, StmtTyped, ConnTyped, DriverTyped, stmtVars,
       connVars, txVars
  <2>3. QED
    BY <2>1, <2>2, Zenon DEF Typed
<1>15. ASSUME NEW p \in Procs, NoteUnused(p)
       PROVE  Typed'
  <2>1. StmtTyped'
    BY <1>15, Zenon DEF NoteUnused, Typed, StmtTyped
  <2>2. ConnTyped' /\ TxTyped'
    BY <1>15, Zenon DEF NoteUnused, Typed, ConnTyped, TxTyped, stmtVars, connVars, txVars
  <2>3. UNCHANGED <<made, openStmt>>
    BY <1>15, Zenon DEF NoteUnused
  <2>4. PICK e \in css :
          \/ onPut' = [onPut EXCEPT ![e[1]] = onPut[e[1]] \cup {e[2]}] /\ shut' = shut
          \/ onPut' = onPut /\ shut' \in {shut, shut \cup {e[2]}}
    BY <1>15, Zenon DEF NoteUnused
  <2>5. e[1] \in Conns /\ e[2] \in Nat
    BY Zenon DEF Typed, StmtTyped
  <2>6. onPut' \in [Conns -> SUBSET Nat] /\ shut' \subseteq Nat
    <3>1. onPut \in [Conns -> SUBSET Nat] /\ shut \subseteq Nat
      BY Zenon DEF Typed, DriverTyped
    <3>2. CASE onPut' = [onPut EXCEPT ![e[1]] = onPut[e[1]] \cup {e[2]}] /\ shut' = shut
      BY <2>5, <3>1, <3>2, Zenon
    <3>3. CASE onPut' = onPut /\ shut' \in {shut, shut \cup {e[2]}}
      BY <2>5, <3>1, <3>3, Zenon
    <3>4. QED
      BY <2>4, <3>2, <3>3, Zenon
  <2>7. DriverTyped'
    BY <2>3, <2>6, Zenon DEF Typed, DriverTyped
  <2>8. QED
    BY <2>7, <2>1, <2>2, Zenon DEF Typed
<1>16. ASSUME NEW t \in Txers, AddDep(t)
       PROVE  Typed'
  <2>1. [by |-> t, ds |-> at[t].ds, own |-> FALSE] \in TxStmts
    BY Zenon DEF Threads, Locals, Procs, TxStmts
  <2>2. TxTyped'
    BY <1>16, <2>1, Zenon DEF AddDep, Typed, TxTyped
  <2>3. StmtTyped' /\ ConnTyped' /\ DriverTyped'
    BY <1>16, Zenon DEF AddDep, Typed, StmtTyped, ConnTyped, DriverTyped, stmtVars,
       connVars, txVars
  <2>4. QED
    BY <2>2, <2>3, Zenon DEF Typed
<1>17. ASSUME NEW p \in Procs, RemoveDep(p) \/ FinalLock(p) \/ FinalUnlock(p)
       PROVE  Typed'
  <2>1. StmtTyped'
    BY <1>17, Zenon DEF RemoveDep, FinalLock, FinalUnlock, Typed, StmtTyped
  <2>2. ConnTyped' /\ DriverTyped' /\ TxTyped'
    BY <1>17, Zenon DEF RemoveDep, FinalLock, FinalUnlock, Typed, ConnTyped, DriverTyped,
       TxTyped, stmtVars, connVars, txVars
  <2>3. QED
    BY <2>1, <2>2, Zenon DEF Typed
<1>18. ASSUME NEW u \in Users, Close(u)
       PROVE  Typed'
  <2>1. StmtTyped'
    BY <1>18, Zenon DEF Close, Typed, StmtTyped
  <2>2. ConnTyped' /\ DriverTyped' /\ TxTyped'
    BY <1>18, Zenon DEF Close, Typed, ConnTyped, DriverTyped, TxTyped, stmtVars, connVars,
       txVars
  <2>3. QED
    BY <2>1, <2>2, Zenon DEF Typed
<1>19. ASSUME NEW p \in Procs, Fails(p)
       PROVE  Typed'
  BY <1>19, Zenon DEF Fails, PrepareFails, Typed, StmtTyped, ConnTyped, DriverTyped,
     TxTyped, stmtVars, connVars, txVars
<1>20. ASSUME NEW u \in Users, \/ Exec(u) \/ ConnFails(u) \/ Lookup(u) \/ Ran(u)
                               \/ Queried(u) \/ Return(u) \/ RowsClose(u) \/ CloseLock(u)
                               \/ CloseUnlock(u)
       PROVE  Typed'
  BY <1>20, Zenon DEF Exec, ConnFails, Lookup, Ran, Executed, Queried, Return, RowsClose,
     CloseLock, CloseUnlock, Typed, StmtTyped, ConnTyped, DriverTyped, TxTyped, stmtVars,
     connVars, txVars
<1>21. ASSUME NEW t \in Txers, PrepareOwnFails(t) \/ EndTx(t)
       PROVE  Typed'
  BY <1>21, Zenon DEF PrepareOwnFails, EndTx, Typed, StmtTyped, ConnTyped, DriverTyped,
     TxTyped, stmtVars, connVars, txVars
<1>22. ASSUME NEW p \in Procs, Shared(p)
       PROVE  Typed'
  BY <1>5, <1>6, <1>8, <1>9, <1>10, <1>11, <1>15, <1>17, <1>19, <1>22, Zenon DEF Shared,
     Fails, Puts
<1>23. ASSUME NEW u \in Users, Exec(u) \/ RowsClose(u) \/ CloseLock(u) \/ UserStep(u)
       PROVE  Typed'
  BY <1>1, <1>3, <1>18, <1>20, <1>23, Zenon DEF UserStep, Ran
<1>24. ASSUME NEW t \in Txers, Begin(t) \/ StmtContext(t) \/ EndTx(t) \/ AbandonTx(t)
                                  \/ TxStep(t)
       PROVE  Typed'
  BY <1>2, <1>4, <1>7, <1>12, <1>13, <1>14, <1>16, <1>21, <1>24, Zenon DEF TxStep
<1>25. QED
  BY <1>22, <1>23, <1>24, Zenon DEF Next

-----------------------------------------------------------------------------
(* Driver statements, and the connections they were prepared on *)

IsOf(d, c) == d \in DOMAIN made /\ made[d] = c
Working == {"append", "use", "rows", "dep"}

CssMade == \A e \in css : IsOf(e[2], e[1])
WorkMade == \A p \in Procs : pc[p] \in Working => IsOf(at[p].ds, ConnOf(p))
TxsMade == \A s \in txs : IsOf(s.ds, txConn)
OpenMade == \A c \in Conns : \A d \in openStmt[c] : IsOf(d, c)
PutMade == \A c \in Conns : \A d \in onPut[c] : IsOf(d, c) /\ c \in inUse

Drivers == CssMade /\ WorkMade /\ TxsMade /\ OpenMade /\ PutMade /\ shut \subseteq DOMAIN made

\* How a goroutine comes to work with a driver statement: it has just been
\* prepared, it was found in css, or it had it before.
Comes(p) ==
    \/ pc'[p] = "append" /\ Prepare(p)
    \/ pc'[p] \in {"use", "dep"} /\ <<ConnOf(p), at'[p].ds>> \in css
    \/ pc'[p] \in {"use", "dep"} /\ ListStmt(p) /\ pc[p] = "append" /\ at'[p].ds = at[p].ds
    \/ pc'[p] = "rows" /\ pc[p] = "use" /\ at'[p].ds = at[p].ds
    \/ pc'[p] = pc[p] /\ at'[p].ds = at[p].ds

\* The connection of a transaction stays the same while it is worked with.
LEMMA TxConnKept ==
    ASSUME Threads, Typed, Phases, Next, NEW p \in Txers, pc'[p] \in TxPhase
    PROVE  txConn' = txConn
<1>1. ASSUME NEW t \in Txers, Begin(t)
      PROVE  txConn' = txConn
  BY <1>1, Zenon DEF Begin, Phases
<1>2. ASSUME NEW t \in Txers, AbandonTx(t) \/ ReleaseTx(t)
      PROVE  txConn' = txConn
  <2>1. \A q \in Txers \ {t} : pc[q] = "idle"
    BY <1>2, Zenon DEF AbandonTx, ReleaseTx, Step, Phases, EndPhase
  <2>2. pc'[t] \in Leaving /\ \A q \in Txers \ {t} : pc'[q] = "idle"
    BY <1>2, <2>1, Moved DEF AbandonTx, ReleaseTx, Procs, Leaving
  <2>3. QED
    BY <2>2, Zenon DEF TxPhase, Leaving
<1>3. ASSUME NEW q \in Procs, \/ Prepare(q) \/ Fails(q) \/ ListStmt(q) \/ Puts(q)
                              \/ CloseMark(q) \/ CloseConn(q) \/ RemoveDep(q)
                              \/ FinalLock(q) \/ NoteUnused(q) \/ RemoveOpenStmt(q)
                              \/ FinalUnlock(q)
      PROVE  txConn' = txConn
  BY <1>3, Zenon DEF Prepare, Fails, PrepareFails, ListStmt, Puts, PutConn, CloseMark,
     CloseConn, RemoveDep, FinalLock, NoteUnused, RemoveOpenStmt, FinalUnlock, txVars
<1>4. ASSUME NEW u \in Users, \/ Exec(u) \/ ConnStmt(u) \/ Conn(u) \/ ConnFails(u)
                              \/ Lookup(u) \/ Ran(u) \/ Queried(u) \/ Return(u)
                              \/ RowsClose(u) \/ CloseLock(u) \/ Close(u) \/ CloseUnlock(u)
      PROVE  txConn' = txConn
  BY <1>4, Zenon DEF Exec, ConnStmt, removeClosedStmtLocked, Conn, ConnFails, Lookup, Ran,
     Executed, Queried, Return, RowsClose, CloseLock, Close, CloseUnlock, txVars
<1>5. ASSUME NEW t \in Txers, \/ StmtContext(t) \/ PrepareOwn(t) \/ PrepareOwnFails(t)
                              \/ AddDep(t) \/ EndTx(t) \/ CloseTxStmt(t)
      PROVE  txConn' = txConn
  BY <1>5, Zenon DEF StmtContext, removeClosedStmtLocked, PrepareOwn, PrepareOwnFails,
     AddDep, EndTx, CloseTxStmt, txVars
<1>6. ASSUME NEW q \in Procs, Shared(q)
      PROVE  txConn' = txConn
  BY <1>3, <1>6, Zenon DEF Shared, Fails, Puts
<1>7. ASSUME NEW u \in Users, Exec(u) \/ RowsClose(u) \/ CloseLock(u) \/ UserStep(u)
      PROVE  txConn' = txConn
  BY <1>4, <1>7, Zenon DEF UserStep, Ran
<1>8. ASSUME NEW t \in Txers, Begin(t) \/ StmtContext(t) \/ EndTx(t) \/ AbandonTx(t)
                                 \/ TxStep(t)
      PROVE  txConn' = txConn
  BY <1>1, <1>2, <1>5, <1>8, Zenon DEF TxStep
<1>9. QED
  BY <1>6, <1>7, <1>8, Zenon DEF Next

\* The places at which a goroutine has no driver statement.
LEMMA NotWorking ==
  /\ "idle" \notin Working /\ "check" \notin Working /\ "return" \notin Working
  /\ "conn" \notin Working /\ "lookup" \notin Working /\ "put" \notin Working
  /\ "mark" \notin Working /\ "close" \notin Working /\ "locked" \notin Working
  /\ "unlock" \notin Working /\ "removeDep" \notin Working /\ "lockFinal" \notin Working
  /\ "note" \notin Working /\ "removeOpen" \notin Working /\ "end" \notin Working
BY DEF Working

\* Who works with a driver statement stays on its connection.
LEMMA WorkingMoves ==
    ASSUME Threads, Typed, Phases, Next, NEW p \in Procs, pc'[p] \in Working
    PROVE  Comes(p) /\ ConnOf(p)' = ConnOf(p)
<1>0. SUFFICES Comes(p) /\ (p \in Users => at'[p].conn = at[p].conn)
  <2>1. p \in Txers => pc'[p] \in TxPhase
    BY ThreadsStep, Zenon DEF Threads, At, TxAt, TxPlaces, TxPhase, Leaving, Ending, Finals,
       Working
  <2>2. QED
    BY <2>1, TxConnKept, Zenon DEF ConnOf, Procs
<1>1. ASSUME NEW t \in Txers, Begin(t)
      PROVE  Comes(p) /\ (p \in Users => at'[p].conn = at[p].conn)
  BY <1>1, Zenon DEF Begin, Comes
<1>2. ASSUME NEW u \in Users, \/ Exec(u) \/ ConnStmt(u) \/ Conn(u) \/ ConnFails(u) \/ Ran(u)
                              \/ Return(u) \/ RowsClose(u) \/ CloseLock(u) \/ Close(u)
                              \/ CloseUnlock(u)
      PROVE  Comes(p) /\ (p \in Users => at'[p].conn = at[p].conn)
  <2>1. u \in Procs
    BY Zenon DEF Procs
  <2>2. PICK from, to, l : Step(u, from, to, l) /\ to \notin Working
    <3>1. CASE Exec(u)
      BY <3>1, NotWorking, Zenon DEF Exec, Executed, Goto
    <3>2. CASE ConnStmt(u)
      BY <3>2, NotWorking, Zenon DEF ConnStmt, removeClosedStmtLocked, Executed
    <3>3. CASE Conn(u)
      BY <3>3, NotWorking, Zenon DEF Conn, Executed
    <3>4. CASE ConnFails(u)
      BY <3>4, NotWorking, Zenon DEF ConnFails, Executed, Goto
    <3>5. CASE Ran(u)
      BY <3>5, NotWorking, Zenon DEF Ran, Executed
    <3>6. CASE Return(u)
      BY <3>6, NotWorking, Zenon DEF Executed, Return, Goto
    <3>7. CASE RowsClose(u)
      BY <3>7, NotWorking, Zenon DEF Executed, RowsClose
    <3>8. CASE CloseLock(u)
      BY <3>8, NotWorking, Zenon DEF Executed, CloseLock, Goto
    <3>9. CASE Close(u)
      BY <3>9, NotWorking, Zenon DEF Executed, Close
    <3>10. CASE CloseUnlock(u)
      BY <3>10, NotWorking, Zenon DEF Executed, CloseUnlock, Goto
    <3>11. QED
      BY <1>2, <3>1, <3>2, <3>3, <3>4, <3>5, <3>6, <3>7, <3>8, <3>9, <3>10, Zenon
  <2>3. p # u => Comes(p) /\ at'[p].conn = at[p].conn
    BY <2>1, <2>2, Moved, Zenon DEF Comes
  <2>4. pc'[u] \notin Working
    BY <2>1, <2>2, Moved
  <2>5. QED
    BY <2>3, <2>4, Zenon
<1>3. ASSUME NEW t \in Txers, \/ PrepareOwn(t) \/ PrepareOwnFails(t) \/ AddDep(t)
                              \/ EndTx(t) \/ CloseTxStmt(t) \/ AbandonTx(t) \/ ReleaseTx(t)
      PROVE  Comes(p) /\ (p \in Users => at'[p].conn = at[p].conn)
  <2>1. t \in Procs
    BY Zenon DEF Procs
  <2>2. PICK from, to, l : Step(t, from, to, l) /\ to \notin Working
    <3>1. CASE PrepareOwn(t)
      BY <3>1, NotWorking, Zenon DEF PrepareOwn, Goto
    <3>2. CASE PrepareOwnFails(t)
      BY <3>2, NotWorking, Zenon DEF PrepareOwnFails, Goto
    <3>3. CASE AddDep(t)
      BY <3>3, NotWorking, Zenon DEF AddDep, Goto
    <3>4. CASE EndTx(t)
      BY <3>4, NotWorking, Zenon DEF EndTx, Goto
    <3>5. CASE CloseTxStmt(t)
      BY <3>5, NotWorking, Zenon DEF CloseTxStmt
    <3>6. CASE AbandonTx(t)
      BY <3>6, NotWorking, Zenon DEF AbandonTx
    <3>7. CASE ReleaseTx(t)
      BY <3>7, NotWorking, Zenon DEF ReleaseTx
    <3>8. QED
      BY <1>3, <3>1, <3>2, <3>3, <3>4, <3>5, <3>6, <3>7, Zenon
  <2>3. p # t => Comes(p) /\ at'[p].conn = at[p].conn
    BY <2>1, <2>2, Moved, Zenon DEF Comes
  <2>4. pc'[t] \notin Working
    BY <2>1, <2>2, Moved
  <2>5. QED
    BY <2>3, <2>4, Zenon
<1>4. ASSUME NEW q \in Procs, Fails(q) \/ Puts(q) \/ CloseMark(q) \/ CloseConn(q)
      PROVE  Comes(p) /\ (p \in Users => at'[p].conn = at[p].conn)
  <2>1. Fails(q) \/ at[q].then \notin Working
    BY <1>4, Zenon DEF Fails, PrepareFails, Puts, PutConn, CloseMark, CloseConn, Goto, Step,
       Leaving, Threads, At, UserAt, TxAt, Procs, Working
  <2>2. PICK from, to, l : Step(q, from, to, l) /\ to \notin Working
    <3>1. CASE Fails(q)
      BY <3>1, NotWorking, Zenon DEF Fails, PrepareFails
    <3>2. CASE Puts(q)
      BY <2>1, <3>1, <3>2, NotWorking, Zenon DEF Puts, PutConn, Goto
    <3>3. CASE CloseMark(q)
      BY <3>3, NotWorking, Zenon DEF CloseMark, Goto
    <3>4. CASE CloseConn(q)
      BY <2>1, <3>1, <3>4, NotWorking, Zenon DEF CloseConn, Goto
    <3>5. QED
      BY <1>4, <3>1, <3>2, <3>3, <3>4, Zenon
  <2>3. p # q => Comes(p) /\ at'[p].conn = at[p].conn
    BY <2>1, <2>2, Moved, Zenon DEF Comes
  <2>4. pc'[q] \notin Working
    BY <2>1, <2>2, Moved
  <2>5. QED
    BY <2>3, <2>4, Zenon
<1>5. ASSUME NEW q \in Procs, \/ RemoveDep(q) \/ FinalLock(q) \/ NoteUnused(q)
                              \/ RemoveOpenStmt(q) \/ FinalUnlock(q)
      PROVE  Comes(p) /\ (p \in Users => at'[p].conn = at[p].conn)
  <2>1. After(q) \notin Working
    BY <1>5, AfterPlaces, Zenon DEF RemoveDep, FinalLock, NoteUnused, RemoveOpenStmt, FinalUnlock,
       Goto, Step, Ending, Finals, Working
  <2>2. PICK from, to, l : Step(q, from, to, l) /\ to \notin Working
    <3>1. CASE RemoveDep(q)
      BY <2>1, <3>1, NotWorking, Zenon DEF RemoveDep, Goto
    <3>2. CASE FinalLock(q)
      BY <2>1, <3>2, NotWorking, Zenon DEF FinalLock, Goto
    <3>3. CASE NoteUnused(q)
      BY <2>1, <3>3, NotWorking, Zenon DEF NoteUnused
    <3>4. CASE RemoveOpenStmt(q)
      BY <2>1, <3>4, NotWorking, Zenon DEF RemoveOpenStmt
    <3>5. CASE FinalUnlock(q)
      BY <2>1, <3>5, NotWorking, Zenon DEF FinalUnlock, Goto
    <3>6. QED
      BY <1>5, <3>1, <3>2, <3>3, <3>4, <3>5, Zenon
  <2>3. p # q => Comes(p) /\ at'[p].conn = at[p].conn
    BY <2>1, <2>2, Moved, Zenon DEF Comes
  <2>4. pc'[q] \notin Working
    BY <2>1, <2>2, Moved
  <2>5. QED
    BY <2>3, <2>4, Zenon
<1>6. ASSUME NEW q \in Procs, Prepare(q)
      PROVE  Comes(p) /\ (p \in Users => at'[p].conn = at[p].conn)
  <2>1. Step(q, "prepare", "append", Uses(at[q].conn, Len(made) + 1))
    BY <1>6, Zenon DEF Prepare
  <2>2. p # q => Comes(p) /\ at'[p].conn = at[p].conn
    BY <2>1, Moved, Zenon DEF Comes
  <2>3. pc'[q] = "append" /\ at'[q].conn = at[q].conn
    BY <2>1, Moved DEF Uses
  <2>4. QED
    BY <1>6, <2>2, <2>3, Zenon DEF Comes
<1>7. ASSUME NEW q \in Procs, ListStmt(q)
      PROVE  Comes(p) /\ (p \in Users => at'[p].conn = at[p].conn)
  <2>1. Step(q, "append", IF q \in Txers THEN "dep" ELSE "use", at[q])
    BY <1>7, Zenon DEF ListStmt, Goto
  <2>2. p # q => Comes(p) /\ at'[p].conn = at[p].conn
    BY <2>1, Moved, Zenon DEF Comes
  <2>3. pc'[q] \in {"use", "dep"} /\ pc[q] = "append" /\ at'[q] = at[q]
    BY <2>1, Moved
  <2>4. QED
    BY <1>7, <2>2, <2>3, Zenon DEF Comes
<1>8. ASSUME NEW u \in Users, Queried(u)
      PROVE  Comes(p) /\ (p \in Users => at'[p].conn = at[p].conn)
  <2>1. Step(u, "use", "rows", at[u]) /\ u \in Procs
    BY <1>8, Zenon DEF Queried, Goto, Procs
  <2>2. QED
    BY <2>1, Moved DEF Comes
<1>9. ASSUME NEW u \in Users, Lookup(u)
      PROVE  Comes(p) /\ (p \in Users => at'[p].conn = at[p].conn)
  <2>1. CASE Step(u, "lookup", "prepare", at[u])
    BY <2>1, Moved, StmtAssumption DEF Comes, Working, Procs
  <2>2. ASSUME NEW e \in css, e[1] = at[u].conn,
               Step(u, "lookup", "use", Uses(at[u].conn, e[2]))
        PROVE  Comes(p) /\ (p \in Users => at'[p].conn = at[p].conn)
    <3>1. /\ u \in Procs /\ pc'[u] = "use" /\ at'[u].ds = e[2] /\ at'[u].conn = at[u].conn
          /\ ConnOf(u) = e[1] /\ e = <<e[1], e[2]>>
      BY <2>2, Moved, StmtAssumption DEF Uses, Procs, ConnOf, Typed, StmtTyped
    <3>2. p # u => Comes(p) /\ at'[p].conn = at[p].conn
      BY <2>2, <3>1, Moved DEF Comes
    <3>3. QED
      BY <3>1, <3>2, Zenon DEF Comes
  <2>3. QED
    BY <1>9, <2>1, <2>2, Zenon DEF Lookup, Goto, On
<1>10. ASSUME NEW t \in Txers, StmtContext(t)
       PROVE  Comes(p) /\ (p \in Users => at'[p].conn = at[p].conn)
  <2>1. t \in Procs /\ t \notin Users /\ ConnOf(t) = txConn
    BY StmtAssumption, Zenon DEF Procs, ConnOf
  <2>2. ASSUME NEW to \in {"own", "prepare"}, Step(t, "idle", to, at[t])
        PROVE  Comes(p) /\ (p \in Users => at'[p].conn = at[p].conn)
    BY <2>1, <2>2, Moved DEF Comes, Working
  <2>3. ASSUME NEW e \in css, e[1] = txConn, Step(t, "idle", "dep", Uses(NoOne, e[2]))
        PROVE  Comes(p) /\ (p \in Users => at'[p].conn = at[p].conn)
    <3>1. pc'[t] = "dep" /\ at'[t].ds = e[2] /\ e = <<e[1], e[2]>>
      <4>1. pc'[t] = "dep" /\ at'[t] = Uses(NoOne, e[2])
        BY <2>1, <2>3, Moved
      <4>2. at'[t].ds = e[2]
        BY <4>1 DEF Uses
      <4>3. e \in Conns \X Nat
        BY Zenon DEF Typed, StmtTyped
      <4>4. QED
        BY <4>1, <4>2, <4>3
    <3>2. p # t => Comes(p) /\ at'[p].conn = at[p].conn
      BY <2>1, <2>3, Moved, Zenon DEF Comes
    <3>3. QED
      BY <2>1, <2>3, <3>1, <3>2, Zenon DEF Comes
  <2>4. QED
    BY <1>10, <2>2, <2>3, Zenon DEF StmtContext, Goto, On
<1>11. ASSUME NEW q \in Procs, Shared(q)
       PROVE  Comes(p) /\ (p \in Users => at'[p].conn = at[p].conn)
  BY <1>4, <1>5, <1>6, <1>7, <1>11, Zenon DEF Shared, Fails, Puts
<1>12. ASSUME NEW u \in Users, Exec(u) \/ RowsClose(u) \/ CloseLock(u) \/ UserStep(u)
       PROVE  Comes(p) /\ (p \in Users => at'[p].conn = at[p].conn)
  BY <1>2, <1>8, <1>9, <1>12, Zenon DEF UserStep, Ran
<1>13. ASSUME NEW t \in Txers, Begin(t) \/ StmtContext(t) \/ EndTx(t) \/ AbandonTx(t)
                                  \/ TxStep(t)
       PROVE  Comes(p) /\ (p \in Users => at'[p].conn = at[p].conn)
  BY <1>1, <1>3, <1>10, <1>13, Zenon DEF TxStep
<1>14. QED
  BY <1>11, <1>12, <1>13, Zenon DEF Next

\* Which steps change what is known of the driver statements.
Changes ==
    /\ \/ UNCHANGED made
       \/ (\E p \in Procs : Prepare(p)) \/ (\E t \in Txers : PrepareOwn(t))
    /\ css' \subseteq css \/ \E p \in Procs : ListStmt(p)
    /\ \/ txs' \subseteq txs
       \/ (\E t \in Txers : PrepareOwn(t)) \/ (\E t \in Txers : AddDep(t))
    /\ \/ UNCHANGED openStmt
       \/ \E p \in Procs : Prepare(p) \/ CloseConn(p) \/ RemoveOpenStmt(p)
    /\ \/ UNCHANGED onPut
       \/ (\E p \in Procs : Puts(p) \/ NoteUnused(p)) \/ (\E t \in Txers : AbandonTx(t))
    /\ \/ UNCHANGED shut
       \/ \E p \in Procs : Puts(p) \/ CloseConn(p) \/ NoteUnused(p)
       \/ \E t \in Txers : CloseTxStmt(t) \/ AbandonTx(t)
    /\ inUse \subseteq inUse' \/ (\E p \in Procs : Puts(p)) \/ (\E t \in Txers : AbandonTx(t))
    /\ UNCHANGED finalClosed \/ \E p \in Procs : CloseConn(p)
    /\ UNCHANGED txConn \/ txs = {} \/ txs' = {}

\* Nothing else changes it.
LEMMA ChangesStep ==
    ASSUME Phases, Next
    PROVE  Changes
<1>1. ASSUME NEW p \in Procs, Prepare(p)
      PROVE  Changes
  <2>1. UNCHANGED <<css, txs, onPut, shut, inUse, finalClosed, txConn>>
    BY <1>1, Zenon DEF Prepare, stmtVars, connVars, txVars
  <2>2. QED
    BY <1>1, <2>1, Zenon DEF Changes
<1>2. ASSUME NEW p \in Procs, ListStmt(p)
      PROVE  Changes
  <2>1. UNCHANGED <<made, txs, openStmt, onPut, shut, inUse, finalClosed, txConn>>
    BY <1>2, Zenon DEF ListStmt, stmtVars, connVars, txVars
  <2>2. QED
    BY <1>2, <2>1, Zenon DEF Changes
<1>3. ASSUME NEW p \in Procs, Puts(p)
      PROVE  Changes
  <2>1. UNCHANGED <<made, css, txs, openStmt, finalClosed, txConn>>
    BY <1>3, Zenon DEF Puts, PutConn, stmtVars, connVars, txVars
  <2>2. QED
    BY <1>3, <2>1, Zenon DEF Changes
<1>4. ASSUME NEW p \in Procs, CloseConn(p)
      PROVE  Changes
  <2>1. UNCHANGED <<made, css, txs, onPut, inUse, txConn>>
    BY <1>4, Zenon DEF CloseConn, stmtVars, connVars, txVars
  <2>2. QED
    BY <1>4, <2>1, Zenon DEF Changes
<1>5. ASSUME NEW p \in Procs, NoteUnused(p)
      PROVE  Changes
  <2>1. UNCHANGED <<made, txs, openStmt, inUse, finalClosed, txConn>>
    BY <1>5, Zenon DEF NoteUnused, stmtVars, connVars, txVars
  <2>2. css' \subseteq css
    BY <1>5, Zenon DEF NoteUnused
  <2>3. QED
    BY <1>5, <2>1, <2>2, Zenon DEF Changes
<1>6. ASSUME NEW p \in Procs, RemoveOpenStmt(p)
      PROVE  Changes
  <2>1. UNCHANGED <<made, css, txs, onPut, shut, inUse, finalClosed, txConn>>
    BY <1>6, Zenon DEF RemoveOpenStmt, stmtVars, connVars, txVars
  <2>2. QED
    BY <1>6, <2>1, Zenon DEF Changes
<1>7. ASSUME NEW p \in Procs, \/ Fails(p) \/ CloseMark(p) \/ RemoveDep(p) \/ FinalLock(p)
                              \/ FinalUnlock(p)
      PROVE  Changes
  <2>1. UNCHANGED <<made, css, txs, openStmt, onPut, shut, inUse, finalClosed, txConn>>
    BY <1>7, Zenon DEF Fails, PrepareFails, CloseMark, RemoveDep, FinalLock, FinalUnlock,
       stmtVars, connVars, txVars
  <2>2. QED
    BY <1>7, <2>1, Zenon DEF Changes
<1>8. ASSUME NEW u \in Users, ConnStmt(u)
      PROVE  Changes
  <2>1. UNCHANGED <<made, txs, openStmt, onPut, shut, inUse, finalClosed, txConn>>
    BY <1>8, Zenon DEF ConnStmt, removeClosedStmtLocked, stmtVars, connVars, txVars
  <2>2. css' \subseteq css
    BY <1>8, Zenon DEF ConnStmt, removeClosedStmtLocked
  <2>3. QED
    BY <1>8, <2>1, <2>2, Zenon DEF Changes
<1>9. ASSUME NEW u \in Users, Conn(u)
      PROVE  Changes
  <2>1. UNCHANGED <<made, css, txs, openStmt, onPut, shut, finalClosed, txConn>>
    BY <1>9, Zenon DEF Conn, stmtVars, connVars, txVars
  <2>2. inUse \subseteq inUse'
    BY <1>9, Zenon DEF Conn
  <2>3. QED
    BY <1>9, <2>1, <2>2, Zenon DEF Changes
<1>10. ASSUME NEW u \in Users, \/ Exec(u) \/ ConnFails(u) \/ Lookup(u) \/ Ran(u)
                               \/ Queried(u) \/ Return(u) \/ RowsClose(u) \/ CloseLock(u)
                               \/ Close(u) \/ CloseUnlock(u)
       PROVE  Changes
  <2>1. UNCHANGED <<made, css, txs, openStmt, onPut, shut, inUse, finalClosed, txConn>>
    BY <1>10, Zenon DEF Exec, ConnFails, Lookup, Ran, Executed, Queried, Return, RowsClose,
       CloseLock, Close, CloseUnlock, stmtVars, connVars, txVars
  <2>2. QED
    BY <1>10, <2>1, Zenon DEF Changes
<1>11. ASSUME NEW t \in Txers, Begin(t)
       PROVE  Changes
  <2>1. UNCHANGED <<made, css, txs, openStmt, onPut, shut, finalClosed>>
    BY <1>11, Zenon DEF Begin, stmtVars, connVars, txVars
  <2>2. inUse \subseteq inUse' /\ txs = {}
    BY <1>11, Zenon DEF Begin, Phases
  <2>3. QED
    BY <1>11, <2>1, <2>2, Zenon DEF Changes
<1>12. ASSUME NEW t \in Txers, StmtContext(t)
       PROVE  Changes
  <2>1. UNCHANGED <<made, txs, openStmt, onPut, shut, inUse, finalClosed, txConn>>
    BY <1>12, Zenon DEF StmtContext, removeClosedStmtLocked, stmtVars, connVars, txVars
  <2>2. css' \subseteq css
    BY <1>12, Zenon DEF StmtContext, removeClosedStmtLocked
  <2>3. QED
    BY <1>12, <2>1, <2>2, Zenon DEF Changes
<1>13. ASSUME NEW t \in Txers, PrepareOwn(t)
       PROVE  Changes
  <2>1. UNCHANGED <<css, openStmt, onPut, shut, inUse, finalClosed, txConn>>
    BY <1>13, Zenon DEF PrepareOwn, stmtVars, connVars, txVars
  <2>2. QED
    BY <1>13, <2>1, Zenon DEF Changes
<1>14. ASSUME NEW t \in Txers, AddDep(t)
       PROVE  Changes
  <2>1. UNCHANGED <<made, css, openStmt, onPut, shut, inUse, finalClosed, txConn>>
    BY <1>14, Zenon DEF AddDep, stmtVars, connVars, txVars
  <2>2. QED
    BY <1>14, <2>1, Zenon DEF Changes
<1>15. ASSUME NEW t \in Txers, PrepareOwnFails(t) \/ EndTx(t)
       PROVE  Changes
  <2>1. UNCHANGED <<made, css, txs, openStmt, onPut, shut, inUse, finalClosed, txConn>>
    BY <1>15, Zenon DEF PrepareOwnFails, EndTx, stmtVars, connVars, txVars
  <2>2. QED
    BY <1>15, <2>1, Zenon DEF Changes
<1>16. ASSUME NEW t \in Txers, CloseTxStmt(t)
       PROVE  Changes
  <2>1. UNCHANGED <<made, css, openStmt, onPut, inUse, finalClosed, txConn>>
    BY <1>16, Zenon DEF CloseTxStmt, stmtVars, connVars, txVars
  <2>2. txs' \subseteq txs
    BY <1>16, Zenon DEF CloseTxStmt
  <2>3. QED
    BY <1>16, <2>1, <2>2, Zenon DEF Changes
<1>17. ASSUME NEW t \in Txers, AbandonTx(t)
       PROVE  Changes
  <2>1. UNCHANGED <<made, css, openStmt, finalClosed>>
    BY <1>17, Zenon DEF AbandonTx, stmtVars, connVars, txVars
  <2>2. txs' = {}
    BY <1>17, Zenon DEF AbandonTx
  <2>3. QED
    BY <1>17, <2>1, <2>2, Zenon DEF Changes
<1>18. ASSUME NEW t \in Txers, ReleaseTx(t)
       PROVE  Changes
  <2>1. UNCHANGED <<made, css, txs, openStmt, onPut, shut, inUse, finalClosed>>
    BY <1>18, Zenon DEF ReleaseTx, stmtVars, connVars, txVars
  <2>2. txs = {}
    BY <1>18, Zenon DEF ReleaseTx
  <2>3. QED
    BY <1>18, <2>1, <2>2, Zenon DEF Changes
<1>19. ASSUME NEW p \in Procs, Shared(p)
       PROVE  Changes
  BY <1>1, <1>2, <1>3, <1>4, <1>5, <1>6, <1>7, <1>19, Zenon DEF Shared, Fails, Puts
<1>20. ASSUME NEW u \in Users, Exec(u) \/ RowsClose(u) \/ CloseLock(u) \/ UserStep(u)
       PROVE  Changes
  BY <1>8, <1>9, <1>10, <1>20, Zenon DEF UserStep, Ran
<1>21. ASSUME NEW t \in Txers, Begin(t) \/ StmtContext(t) \/ EndTx(t) \/ AbandonTx(t)
                                  \/ TxStep(t)
       PROVE  Changes
  BY <1>11, <1>12, <1>13, <1>14, <1>15, <1>16, <1>17, <1>18, <1>21, Zenon DEF TxStep
<1>22. QED
  BY <1>19, <1>20, <1>21, Zenon DEF Next

\* A driver statement stays with its connection.
LEMMA MadeGrows ==
    ASSUME Typed, Changes, Threads, Owned, Phases
    PROVE  \A d, c : IsOf(d, c) => IsOf(d, c)'
<1>1. CASE UNCHANGED made
  BY <1>1, Zenon DEF IsOf
<1>2. ASSUME NEW c \in Conns, made' = Append(made, c)
      PROVE  \A d, x : IsOf(d, x) => IsOf(d, x)'
  BY <1>2 DEF IsOf, Typed, DriverTyped
<1>3. ASSUME NEW p \in Procs, Prepare(p)
      PROVE  \A d, x : IsOf(d, x) => IsOf(d, x)'
  <2>1. ConnOf(p) \in Conns /\ made' = Append(made, ConnOf(p))
    BY <1>3, ConnOfInUse, Zenon DEF Prepare, Step, Typed, ConnTyped
  <2>2. QED
    BY <1>2, <2>1, Zenon
<1>4. ASSUME NEW t \in Txers, PrepareOwn(t)
      PROVE  \A d, x : IsOf(d, x) => IsOf(d, x)'
  <2>1. txConn \in Conns /\ made' = Append(made, txConn)
    BY <1>4, StmtAssumption, Zenon DEF PrepareOwn, Goto, Step, Typed, TxTyped, Phases, TxPhase
  <2>2. QED
    BY <1>2, <2>1, Zenon
<1>5. QED
  BY <1>1, <1>3, <1>4, Zenon DEF Changes

\* A driver statement that is closed was noted in onPut of a connection that
\* is put back, was open on a connection that is closed, was in css, or was
\* the transaction's own.
ShutBy(d) ==
    \/ \E c \in Conns : d \in onPut[c] /\ c \notin inUse'
    \/ \E c \in Conns : d \in openStmt[c] /\ c \in finalClosed' /\ c \notin inUse'
    \/ \E e \in css : e[2] = d /\ css' = css \ {e} /\ e[1] \notin inUse'
    \/ /\ \E s \in txs : s.own /\ s.ds = d /\ txs' = txs \ {s}
       /\ txConn' = txConn /\ \A t \in Txers : pc'[t] \notin TxPhase

\* A step of the code that closes a driver statement closes one of those four
\* kinds: putConn, finalClose, noteUnusedDriverStatement, or the transaction's
\* closePrepared.
LEMMA ShutStep ==
    ASSUME Threads, Typed, Owned, Phases, Changes, NEW d \in shut', d \notin shut
    PROVE  ShutBy(d)
<1>1. ASSUME NEW p \in Procs, Puts(p) PROVE ShutBy(d)
  <2>1. /\ pc[p] = "put" /\ shut' = shut \cup onPut[at[p].conn]
        /\ inUse' = inUse \ {at[p].conn}
    BY <1>1, Zenon DEF Puts, PutConn, Goto, Step
  <2>2. at[p].conn \in Conns
    BY <2>1, Zenon DEF Owned, Held, Holds, Typed, ConnTyped
  <2>3. QED
    BY <2>1, <2>2, Zenon DEF ShutBy
<1>2. ASSUME NEW p \in Procs, CloseConn(p) PROVE ShutBy(d)
  <2>1. /\ pc[p] = "close" /\ shut' = shut \cup openStmt[at[p].conn]
        /\ finalClosed' = finalClosed \cup {at[p].conn} /\ inUse' = inUse
    BY <1>2, Zenon DEF CloseConn, Goto, Step
  <2>2. at[p].conn \in Conns \ inUse
    BY <2>1, Zenon DEF Owned, Closing, Closes
  <2>3. QED
    BY <2>1, <2>2, Zenon DEF ShutBy
<1>3. ASSUME NEW p \in Procs, NoteUnused(p) PROVE ShutBy(d)
  <2>1. PICK e \in css : /\ css' = css \ {e} /\ inUse' = inUse
                         /\ e[1] \in inUse => shut' = shut
                         /\ shut' \subseteq shut \cup {e[2]}
    BY <1>3, Zenon DEF NoteUnused
  <2>2. QED
    BY <2>1, Zenon DEF ShutBy
<1>4. ASSUME NEW t \in Txers, CloseTxStmt(t) PROVE ShutBy(d)
  <2>1. PICK s \in txs : /\ txs' = txs \ {s}
                         /\ shut' = IF s.own THEN shut \cup {s.ds} ELSE shut
    BY <1>4, Zenon DEF CloseTxStmt
  <2>2. PICK to, l : Step(t, "end", to, l) /\ to \in {"end", "removeDep"}
    BY <1>4, Zenon DEF CloseTxStmt
  <2>3. \A q \in Txers : pc'[q] \in {"end", "removeDep", "idle"}
    BY <2>2, Moved DEF Procs, Phases, EndPhase
  <2>4. txConn' = txConn
    BY <1>4, Zenon DEF CloseTxStmt
  <2>5. QED
    BY <2>1, <2>3, <2>4, Zenon DEF ShutBy, TxPhase
<1>5. ASSUME NEW t \in Txers, AbandonTx(t) PROVE ShutBy(d)
  <2>1. /\ txConn # NoOne /\ shut' = shut \cup onPut[txConn]
        /\ inUse' = inUse \ {txConn}
    BY <1>5, Zenon DEF AbandonTx
  <2>2. txConn \in Conns
    BY <2>1, Zenon DEF Typed, TxTyped
  <2>3. QED
    BY <2>1, <2>2, Zenon DEF ShutBy
<1>6. QED
  BY <1>1, <1>2, <1>3, <1>4, <1>5, Zenon DEF Changes

\* What is prepared is a driver statement that was not there.
LEMMA PreparesNew ==
    ASSUME Threads, Typed, Owned, Phases, NEW p \in Procs,
           Prepare(p) \/ (p \in Txers /\ PrepareOwn(p))
    PROVE  /\ Len(made) + 1 \in DOMAIN made' /\ made'[Len(made) + 1] = ConnOf(p)
           /\ Len(made) + 1 \notin DOMAIN made
           /\ ConnOf(p)' = ConnOf(p)
<1>1. pc[p] \in {"prepare", "own"} /\ made' = Append(made, ConnOf(p))
  BY Zenon DEF Prepare, PrepareOwn, Goto, Step, ConnOf
<1>2. ConnOf(p) \in Conns
  BY <1>1, ConnOfInUse, Zenon DEF Typed, ConnTyped
<1>3. ConnOf(p)' = ConnOf(p)
  <2>1. CASE Prepare(p)
    <3>1. Step(p, "prepare", "append", Uses(at[p].conn, Len(made) + 1)) /\ txConn' = txConn
      BY <2>1, Zenon DEF Prepare, txVars
    <3>2. at'[p] = Uses(at[p].conn, Len(made) + 1)
      BY <3>1, Moved
    <3>3. at'[p].conn = at[p].conn
      BY <3>2 DEF Uses
    <3>4. QED
      BY <3>1, <3>3, Zenon DEF ConnOf
  <2>2. CASE p \in Txers /\ PrepareOwn(p)
    BY <2>2, Zenon DEF PrepareOwn, ConnOf
  <2>3. QED
    BY <2>1, <2>2, Zenon
<1>4. made'[Len(made) + 1] = ConnOf(p) /\ Len(made) + 1 \in DOMAIN made'
  BY <1>1, <1>2 DEF Typed, DriverTyped
<1>5. Len(made) + 1 \notin DOMAIN made
  BY DEF Typed, DriverTyped
<1>6. QED
  BY <1>3, <1>4, <1>5, Zenon

\* Every step keeps the driver statements with their connections.
LEMMA DriversStep ==
    ASSUME Threads, Typed, Owned, Phases, Drivers, Next
    PROVE  Drivers'
<1>1. Changes /\ \A d, c : IsOf(d, c) => IsOf(d, c)'
  BY ChangesStep, MadeGrows, Zenon
<1>2. CssMade'
  <2>1. ASSUME NEW p \in Procs, ListStmt(p) PROVE CssMade'
    <3>1. pc[p] = "append" /\ css' = css \cup {<<ConnOf(p), at[p].ds>>}
      BY <2>1, Zenon DEF ListStmt, Goto, Step
    <3>2. IsOf(at[p].ds, ConnOf(p))
      BY <3>1, Zenon DEF Drivers, WorkMade, Working
    <3>3. QED
      BY <1>1, <3>1, <3>2 DEF Drivers, CssMade
  <2>2. CASE css' \subseteq css
    BY <1>1, <2>2, Zenon DEF Drivers, CssMade
  <2>3. QED
    BY <1>1, <2>1, <2>2, Zenon DEF Changes
<1>3. WorkMade'
  <2>1. SUFFICES ASSUME NEW p \in Procs, pc'[p] \in Working
                 PROVE  IsOf(at[p].ds, ConnOf(p))'
    BY Zenon DEF WorkMade
  <2>2. Comes(p) /\ ConnOf(p)' = ConnOf(p)
    BY <2>1, WorkingMoves, Zenon
  <2>3. CASE Prepare(p)
    <3>1. at'[p].ds = Len(made) + 1
      BY <2>3, Moved DEF Prepare, Uses
    <3>2. QED
      BY <2>3, <3>1, PreparesNew, Zenon DEF IsOf
  <2>4. CASE <<ConnOf(p), at'[p].ds>> \in css
    BY <1>1, <2>2, <2>4 DEF Drivers, CssMade, IsOf
  <2>5. CASE pc[p] \in Working /\ at'[p].ds = at[p].ds
    BY <1>1, <2>2, <2>5 DEF Drivers, WorkMade, IsOf
  <2>6. QED
    BY <2>1, <2>2, <2>3, <2>4, <2>5, Zenon DEF Comes, Working
<1>4. TxsMade'
  <2>1. \A s \in txs \cap txs' : IsOf(s.ds, txConn)'
    BY <1>1, Zenon DEF Changes, Drivers, TxsMade, IsOf
  <2>2. ASSUME NEW t \in Txers, PrepareOwn(t) PROVE TxsMade'
    <3>1. /\ txs' = txs \cup {[by |-> t, ds |-> Len(made) + 1, own |-> TRUE]}
          /\ UNCHANGED txConn
      BY <2>2, Zenon DEF PrepareOwn
    <3>2. Len(made) + 1 \in DOMAIN made' /\ made'[Len(made) + 1] = txConn
      BY <2>2, PreparesNew, Zenon DEF Procs, ConnOf
    <3>3. QED
      BY <2>1, <3>1, <3>2 DEF TxsMade, IsOf
  <2>3. ASSUME NEW t \in Txers, AddDep(t) PROVE TxsMade'
    <3>1. /\ txs' = txs \cup {[by |-> t, ds |-> at[t].ds, own |-> FALSE]}
          /\ UNCHANGED txConn /\ pc[t] = "dep"
      BY <2>3, Zenon DEF AddDep, Goto, Step
    <3>2. IsOf(at[t].ds, txConn)
      BY <3>1, Zenon DEF Drivers, WorkMade, Working, Procs, ConnOf
    <3>3. QED
      BY <1>1, <2>1, <3>1, <3>2 DEF TxsMade, IsOf
  <2>4. QED
    BY <1>1, <2>1, <2>2, <2>3, Zenon DEF Changes, TxsMade
<1>5. OpenMade'
  <2>1. CASE UNCHANGED openStmt
    BY <1>1, <2>1, Zenon DEF Drivers, OpenMade
  <2>2. ASSUME NEW p \in Procs, Prepare(p) PROVE OpenMade'
    <3>1. openStmt' = [openStmt EXCEPT ![ConnOf(p)] = openStmt[ConnOf(p)] \cup {Len(made) + 1}]
      BY <2>2, Zenon DEF Prepare
    <3>2. Len(made) + 1 \in DOMAIN made' /\ made'[Len(made) + 1] = ConnOf(p)
      BY <2>2, PreparesNew, Zenon
    <3>3. \A c \in Conns : \/ openStmt'[c] = openStmt[c]
                           \/ c = ConnOf(p) /\ openStmt'[c] = openStmt[c] \cup {Len(made) + 1}
      BY <3>1, Zenon DEF Typed, DriverTyped
    <3>4. \A c \in Conns, d \in Nat : d \in openStmt[c] => d \in DOMAIN made' /\ made'[d] = c
      BY <1>1, Zenon DEF Drivers, OpenMade, IsOf
    <3>5. openStmt \in [Conns -> SUBSET Nat]
      BY Zenon DEF Typed, DriverTyped
    <3>6. QED
      BY <3>2, <3>3, <3>4, <3>5 DEF OpenMade, IsOf
  <2>3. ASSUME NEW p \in Procs, CloseConn(p) \/ RemoveOpenStmt(p) PROVE OpenMade'
    <3>1. \A c \in Conns : openStmt'[c] \subseteq openStmt[c]
      BY <2>3, Zenon DEF CloseConn, RemoveOpenStmt, Set, Typed, DriverTyped
    <3>2. QED
      BY <1>1, <3>1, Zenon DEF Drivers, OpenMade
  <2>4. QED
    BY <1>1, <2>1, <2>2, <2>3, Zenon DEF Changes
<1>6. PutMade'
  <2>1. ASSUME NEW x, inUse' = inUse \ {x}, onPut' = Set(onPut, x, {}) PROVE PutMade'
    BY <1>1, <2>1, Zenon DEF Drivers, PutMade, Set, Typed, DriverTyped
  <2>2. ASSUME NEW p \in Procs, Puts(p) PROVE PutMade'
    BY <2>1, <2>2, Zenon DEF Puts, PutConn
  <2>3. ASSUME NEW t \in Txers, AbandonTx(t) PROVE PutMade'
    BY <2>1, <2>3, Zenon DEF AbandonTx
  <2>4. ASSUME NEW p \in Procs, NoteUnused(p) PROVE PutMade'
    <3>1. PICK e \in css :
            /\ inUse' = inUse
            /\ onPut' = onPut \/ ( /\ e[1] \in inUse
                                   /\ onPut' = [onPut EXCEPT ![e[1]] = onPut[e[1]] \cup {e[2]}])
      BY <2>4, Zenon DEF NoteUnused
    <3>2. IsOf(e[2], e[1])
      BY Zenon DEF Drivers, CssMade
    <3>3. QED
      BY <1>1, <3>1, <3>2 DEF Drivers, PutMade, Typed, DriverTyped
  <2>5. CASE UNCHANGED onPut /\ inUse \subseteq inUse'
    BY <1>1, <2>5, Zenon DEF Drivers, PutMade
  <2>6. QED
    BY <1>1, <2>2, <2>3, <2>4, <2>5, Zenon DEF Changes
<1>7. shut' \subseteq DOMAIN made'
  <2>1. \A d : d \in shut' /\ d \notin shut => ShutBy(d)
    BY <1>1, ShutStep, Zenon
  <2>2. \A d : ShutBy(d) => \E c : IsOf(d, c)
    BY Zenon DEF ShutBy, Drivers, CssMade, TxsMade, OpenMade, PutMade
  <2>3. \A d \in shut : \E c : IsOf(d, c)
    BY Zenon DEF Drivers, IsOf
  <2>4. QED
    BY <1>1, <2>1, <2>2, <2>3, Zenon DEF IsOf
<1>8. QED
  BY <1>2, <1>3, <1>4, <1>5, <1>6, <1>7, Zenon DEF Drivers

-----------------------------------------------------------------------------
(* A driver statement is in one place: with who prepared it, in css, in     *)
(* onPut of its connection or with the transaction that owns it.           *)

Lists(d) == \E e \in css : e[2] = d
OnPut(d) == \E c \in Conns : d \in onPut[c]
Owns(d) == \E s \in txs : s.own /\ s.ds = d

NewApart ==
    \A p \in Procs : pc[p] = "append" =>
        /\ ~Lists(at[p].ds) /\ ~OnPut(at[p].ds) /\ ~Owns(at[p].ds)
        /\ at[p].ds \notin shut
NewOnce ==
    \A p, q \in Procs :
        pc[p] = "append" /\ pc[q] = "append" /\ at[p].ds = at[q].ds => p = q
OwnApart == \A s \in txs : s.own => ~Lists(s.ds) /\ ~OnPut(s.ds)
OwnOnce == \A s, q \in txs : s.own /\ q.ds = s.ds => q = s
OwnUnbound == \A s \in txs, t \in Txers : s.own /\ pc[t] = "dep" => at[t].ds # s.ds
CssApart == \A e \in css : ~OnPut(e[2]) /\ (e[1] \notin finalClosed => e[2] \notin shut)
NeededOpen ==
    /\ \A p \in Procs : pc[p] \in {"use", "rows", "dep"} => at[p].ds \notin shut
    /\ \A s \in txs : s.ds \notin shut

OnePlace ==
    NewApart /\ NewOnce /\ OwnApart /\ OwnOnce /\ OwnUnbound /\ CssApart /\ NeededOpen

\* What gets into css, into onPut and to a transaction.
LEMMA ListsStep ==
    ASSUME Changes, NEW d, Lists(d)'
    PROVE  Lists(d) \/ \E q \in Procs : ListStmt(q) /\ at[q].ds = d
<1>1. ASSUME NEW q \in Procs, ListStmt(q)
      PROVE  Lists(d) \/ at[q].ds = d
  BY <1>1 DEF ListStmt, Lists
<1>2. CASE css' \subseteq css
  BY <1>2, Zenon DEF Lists
<1>3. QED
  BY <1>1, <1>2, Zenon DEF Changes

\* A step leaves a driver statement to onPut only if it was there already or
\* if noteUnusedDriverStatement has just taken it from css.
LEMMA OnPutStep ==
    ASSUME Typed, Changes, NEW d, OnPut(d)'
    PROVE  OnPut(d) \/ \E e \in css : e[2] = d /\ css' = css \ {e}
<1>1. ASSUME NEW x, onPut' = Set(onPut, x, {})
      PROVE  OnPut(d)
  BY <1>1, Zenon DEF OnPut, Set, Typed, DriverTyped
<1>2. ASSUME NEW p \in Procs, Puts(p) PROVE OnPut(d)
  BY <1>1, <1>2, Zenon DEF Puts, PutConn
<1>3. ASSUME NEW t \in Txers, AbandonTx(t) PROVE OnPut(d)
  BY <1>1, <1>3, Zenon DEF AbandonTx
<1>4. ASSUME NEW p \in Procs, NoteUnused(p)
      PROVE  OnPut(d) \/ \E e \in css : e[2] = d /\ css' = css \ {e}
  <2>1. PICK e \in css :
          /\ css' = css \ {e}
          /\ onPut' = onPut \/ onPut' = [onPut EXCEPT ![e[1]] = onPut[e[1]] \cup {e[2]}]
    BY <1>4, Zenon DEF NoteUnused
  <2>2. QED
    BY <2>1 DEF OnPut, Typed, DriverTyped
<1>5. CASE UNCHANGED onPut
  BY <1>5, Zenon DEF OnPut
<1>6. QED
  BY <1>2, <1>3, <1>4, <1>5, Zenon DEF Changes

\* A connection that is closed stays closed.
LEMMA FinalGrows ==
    ASSUME Changes
    PROVE  finalClosed \subseteq finalClosed'
BY Zenon DEF Changes, CloseConn

\* Who works with a driver statement has its connection in use, and so does a
\* transaction with statements.
WorkInUse ==
    /\ \A p \in Procs : pc[p] \in Working => ConnOf(p) \in inUse
    /\ \A p \in Users : pc[p] \in Working => ConnOf(p) # txConn
    /\ txs # {} => txConn \in inUse

\* Those facts follow from who owns which connection, and from the places.
LEMMA WorksInUse == Threads /\ Owned /\ Phases => WorkInUse
<1>. SUFFICES ASSUME Threads, Owned, Phases PROVE WorkInUse
  BY Zenon
<1>1. \A p \in Procs : pc[p] \in Working => ConnOf(p) \in inUse
  BY ConnOfInUse, Zenon DEF Working
<1>2. \A p \in Users : pc[p] \in Working => ConnOf(p) # txConn
  BY StmtAssumption, Zenon DEF Owned, Held, Holds, HoldPlaces, Working, ConnOf, Procs, Threads,
     At, UserAt, UserPlaces, Leaving, Ending, Finals
<1>3. txs # {} => txConn \in inUse
  BY Zenon DEF Phases, Owned, Held
<1>4. QED
  BY <1>1, <1>2, <1>3, Zenon DEF WorkInUse

NowOf(d, c) == d \in DOMAIN made' /\ made'[d] = c

\* Every step keeps each driver statement in one place, and open where it is
\* needed.
LEMMA OnePlaceStep ==
    ASSUME Threads, Typed, Owned, Phases, Drivers, OnePlace, Next,
           Threads', Owned', Phases', Drivers'
    PROVE  OnePlace'
<1>1. Changes /\ \A d, c : IsOf(d, c) => NowOf(d, c)
  BY ChangesStep, MadeGrows, Zenon DEF NowOf, IsOf
<1>2. WorkInUse'
  BY WorksInUse, PTL
<1>3. \A d : d \in shut' /\ d \notin shut => ShutBy(d)
  BY <1>1, ShutStep, Zenon
<1>4. finalClosed \subseteq finalClosed' /\ inUse' \cap finalClosed' = {}
  BY <1>1, FinalGrows, Zenon DEF Owned, Apart
<1>5. \A d : ShutBy(d) =>
         \/ (OnPut(d) \/ Lists(d) \/ \E c : NowOf(d, c) /\ c \in finalClosed')
            /\ \E c : NowOf(d, c) /\ c \notin inUse'
         \/ Owns(d) /\ NowOf(d, txConn) /\ txConn' = txConn
            /\ \A t \in Txers : pc'[t] \notin TxPhase
  <2>. TAKE d
  <2>. HAVE ShutBy(d)
  <2>1. CASE \E c \in Conns : d \in onPut[c] /\ c \notin inUse'
    BY <1>1, <2>1, Zenon DEF Drivers, PutMade, OnPut
  <2>2. CASE \E c \in Conns : d \in openStmt[c] /\ c \in finalClosed' /\ c \notin inUse'
    BY <1>1, <2>2, Zenon DEF Drivers, OpenMade
  <2>3. CASE \E e \in css : e[2] = d /\ css' = css \ {e} /\ e[1] \notin inUse'
    BY <1>1, <2>3, Zenon DEF Drivers, CssMade, Lists
  <2>4. CASE /\ \E s \in txs : s.own /\ s.ds = d /\ txs' = txs \ {s}
             /\ txConn' = txConn /\ \A t \in Txers : pc'[t] \notin TxPhase
    <3>1. IsOf(d, txConn)
      BY <2>4, Zenon DEF Drivers, TxsMade
    <3>2. QED
      BY <1>1, <2>4, <3>1, Zenon DEF Owns
  <2>5. QED
    BY <2>1, <2>2, <2>3, <2>4, Zenon DEF ShutBy
<1>6. \A p \in Procs : pc'[p] \in Working => Comes(p) /\ ConnOf(p)' = ConnOf(p)
  BY WorkingMoves, Zenon
<1>7. \A p \in Procs : pc'[p] \in Working => NowOf(at'[p].ds, ConnOf(p)')
  BY Zenon DEF Drivers, WorkMade, IsOf, NowOf
<1>8. \A d, b, c : NowOf(d, b) /\ NowOf(d, c) => b = c
  BY Zenon DEF NowOf
<1>9. \A s \in txs' : NowOf(s.ds, txConn')
  BY Zenon DEF Drivers, TxsMade, IsOf, NowOf
<1>10. \A p \in Procs : pc'[p] \in {"use", "rows", "dep"} => at'[p].ds \notin shut'
  <2>. SUFFICES ASSUME NEW p \in Procs, pc'[p] \in {"use", "rows", "dep"}
                PROVE  at'[p].ds \notin shut'
    BY Zenon
  <2>1. pc'[p] \in Working
    BY Zenon DEF Working
  <2>2. ConnOf(p)' \in inUse' /\ NowOf(at'[p].ds, ConnOf(p)')
    BY <1>2, <1>7, <2>1, Zenon DEF WorkInUse
  <2>3. at'[p].ds \notin shut
    <3>1. CASE <<ConnOf(p), at'[p].ds>> \in css
      <4>1. ConnOf(p) \notin finalClosed
        BY <1>4, <1>6, <2>1, <2>2, Zenon
      <4>2. QED
        BY <3>1, <4>1, Zenon DEF OnePlace, CssApart
    <3>2. CASE pc[p] \in Working /\ at'[p].ds = at[p].ds
      BY <3>2, Zenon DEF OnePlace, NewApart, NeededOpen, Working
    <3>3. QED
      BY <1>6, <2>1, <3>1, <3>2, Zenon DEF Comes, Working
  <2>4. ~ShutBy(at'[p].ds)
    <3>1. CASE \E c : NowOf(at'[p].ds, c) /\ c \notin inUse'
      BY <1>8, <2>2, <3>1, Zenon
    <3>2. CASE /\ Owns(at'[p].ds) /\ NowOf(at'[p].ds, txConn) /\ txConn' = txConn
               /\ \A t \in Txers : pc'[t] \notin TxPhase
      <4>1. p \in Users
        BY <3>2, Zenon DEF Procs, TxPhase, Threads, At, TxAt, TxPlaces, Leaving, Ending, Finals
      <4>2. ConnOf(p)' # txConn'
        BY <1>2, <2>1, <4>1, Zenon DEF WorkInUse
      <4>3. QED
        BY <1>8, <2>2, <3>2, <4>2, Zenon
    <3>3. QED
      BY <1>5, <3>1, <3>2, Zenon
  <2>5. QED
    BY <1>3, <2>3, <2>4, Zenon
<1>11. \A s \in txs' : s.ds \notin shut'
  <2>. SUFFICES ASSUME NEW s \in txs' PROVE s.ds \notin shut'
    BY Zenon
  <2>1. s.ds \notin shut
    <3>1. ASSUME NEW t \in Txers, PrepareOwn(t), s \notin txs PROVE s.ds \notin shut
      <4>1. s.ds = Len(made) + 1 /\ Len(made) + 1 \notin DOMAIN made
        BY <3>1, PreparesNew DEF PrepareOwn, Procs
      <4>2. QED
        BY <4>1, Zenon DEF Drivers
    <3>2. ASSUME NEW t \in Txers, AddDep(t), s \notin txs PROVE s.ds \notin shut
      <4>1. s.ds = at[t].ds /\ pc[t] = "dep"
        BY <3>2 DEF AddDep, Goto, Step
      <4>2. QED
        BY <4>1, Zenon DEF OnePlace, NeededOpen, Procs
    <3>3. CASE s \in txs
      BY <3>3, Zenon DEF OnePlace, NeededOpen
    <3>4. QED
      BY <1>1, <3>1, <3>2, <3>3, Zenon DEF Changes
  <2>2. ~ShutBy(s.ds)
    <3>1. txConn' \in inUse' /\ NowOf(s.ds, txConn')
      BY <1>2, <1>9, Zenon DEF WorkInUse
    <3>2. CASE \E c : NowOf(s.ds, c) /\ c \notin inUse'
      BY <1>8, <3>1, <3>2, Zenon
    <3>3. ASSUME NEW q \in txs, q.own, q.ds = s.ds, txs' = txs \ {q} PROVE FALSE
      BY <3>3, Zenon DEF OnePlace, OwnOnce
    <3>4. CASE \A q \in txs : ~(q.own /\ q.ds = s.ds /\ txs' = txs \ {q})
      <4>1. ShutBy(s.ds) => \/ \E c \in Conns : s.ds \in onPut[c] /\ c \notin inUse'
                            \/ \E c \in Conns : s.ds \in openStmt[c] /\ c \notin inUse'
                            \/ \E e \in css : e[2] = s.ds /\ e[1] \notin inUse'
        BY <3>4, Zenon DEF ShutBy
      <4>2. ShutBy(s.ds) => \E c : IsOf(s.ds, c) /\ c \notin inUse'
        BY <4>1, Zenon DEF Drivers, PutMade, OpenMade, CssMade
      <4>3. QED
        BY <1>1, <1>8, <3>1, <4>2, Zenon
    <3>5. QED
      BY <3>3, <3>4, Zenon
  <2>3. QED
    BY <1>3, <2>1, <2>2, Zenon
<1>12. ASSUME NEW p \in Procs, Prepare(p) \/ (p \in Txers /\ PrepareOwn(p)), NEW d,
              d = Len(made) + 1
       PROVE  /\ d \notin DOMAIN made /\ ~Lists(d) /\ ~OnPut(d) /\ ~Owns(d) /\ d \notin shut
              /\ UNCHANGED <<css, onPut, shut>>
              /\ Prepare(p) => UNCHANGED txs
  <2>1. d \notin DOMAIN made
    BY <1>12, PreparesNew, Zenon
  <2>2. ~Lists(d) /\ ~OnPut(d) /\ ~Owns(d) /\ d \notin shut
    BY <2>1 DEF Drivers, CssMade, PutMade, TxsMade, IsOf, Lists, OnPut, Owns
  <2>3. UNCHANGED <<css, onPut, shut>> /\ (Prepare(p) => UNCHANGED txs)
    BY <1>12, Zenon DEF Prepare, PrepareOwn, stmtVars, txVars
  <2>4. QED
    BY <2>1, <2>2, <2>3, Zenon
<1>13. \A p \in Procs : pc'[p] = "append" =>
         \/ Prepare(p) /\ at'[p].ds = Len(made) + 1
         \/ pc[p] = "append" /\ at'[p].ds = at[p].ds
  <2>. SUFFICES ASSUME NEW p \in Procs, pc'[p] = "append"
                PROVE  \/ Prepare(p) /\ at'[p].ds = Len(made) + 1
                       \/ pc[p] = "append" /\ at'[p].ds = at[p].ds
    BY Zenon
  <2>1. Comes(p)
    BY <1>6, Zenon DEF Working
  <2>2. Prepare(p) => at'[p].ds = Len(made) + 1
    <3>1. Prepare(p) => Step(p, "prepare", "append", Uses(at[p].conn, Len(made) + 1))
      BY Zenon DEF Prepare
    <3>2. QED
      BY <3>1, Moved DEF Uses
  <2>3. QED
    BY <2>1, <2>2, Zenon DEF Comes
<1>14. NewApart'
  <2>. SUFFICES ASSUME NEW p \in Procs, pc'[p] = "append"
                PROVE  /\ ~Lists(at[p].ds)' /\ ~OnPut(at[p].ds)' /\ ~Owns(at[p].ds)'
                       /\ at'[p].ds \notin shut'
    BY Zenon DEF NewApart
  <2>1. CASE Prepare(p) /\ at'[p].ds = Len(made) + 1
    BY <1>12, <2>1, Zenon DEF Lists, OnPut, Owns
  <2>2. CASE pc[p] = "append" /\ at'[p].ds = at[p].ds
    <3>1. PICK d : d = at[p].ds
      BY Zenon
    <3>2. ~Lists(d) /\ ~OnPut(d) /\ ~Owns(d) /\ d \notin shut
      BY <2>2, <3>1, Zenon DEF OnePlace, NewApart
    <3>3. ~Lists(d)'
      <4>1. ASSUME NEW q \in Procs, ListStmt(q), at[q].ds = d PROVE FALSE
        <5>1. Step(q, "append", IF q \in Txers THEN "dep" ELSE "use", at[q])
          BY <4>1, Zenon DEF ListStmt, Goto
        <5>2. pc[q] = "append" /\ pc'[q] # "append"
          BY <5>1, Moved
        <5>3. QED
          BY <2>2, <3>1, <4>1, <5>2, Zenon DEF OnePlace, NewOnce
      <4>2. QED
        BY <1>1, <3>2, <4>1, ListsStep, Zenon
    <3>4. ~OnPut(d)'
      BY <1>1, <3>2, OnPutStep, Zenon DEF Lists
    <3>5. ~Owns(d)'
      <4>1. d \in DOMAIN made
        BY <2>2, <3>1, Zenon DEF Drivers, WorkMade, Working, IsOf
      <4>2. ASSUME NEW t \in Txers, PrepareOwn(t) PROVE ~Owns(d)'
        <5>1. txs' = txs \cup {[by |-> t, ds |-> Len(made) + 1, own |-> TRUE]}
          BY <4>2, Zenon DEF PrepareOwn
        <5>2. Len(made) + 1 # d
          BY <4>1, <4>2, PreparesNew, Zenon DEF Procs
        <5>3. QED
          BY <3>2, <5>1, <5>2 DEF Owns
      <4>3. ASSUME NEW t \in Txers, AddDep(t) PROVE ~Owns(d)'
        BY <3>2, <4>3 DEF AddDep, Owns
      <4>4. CASE txs' \subseteq txs
        BY <3>2, <4>4, Zenon DEF Owns
      <4>5. QED
        BY <1>1, <4>2, <4>3, <4>4, Zenon DEF Changes
    <3>6. ~ShutBy(d)
      <4>1. ConnOf(p)' \in inUse' /\ NowOf(d, ConnOf(p)')
        BY <1>2, <1>7, <2>2, <3>1, Zenon DEF WorkInUse, Working
      <4>2. QED
        BY <1>5, <1>8, <3>2, <4>1, Zenon
    <3>7. d \notin shut'
      BY <1>3, <3>2, <3>6, Zenon
    <3>8. QED
      BY <2>2, <3>1, <3>3, <3>4, <3>5, <3>7, Zenon DEF Lists, OnPut, Owns
  <2>3. QED
    BY <1>13, <2>1, <2>2, Zenon
<1>15. NewOnce'
  <2>. SUFFICES ASSUME NEW p \in Procs, NEW q \in Procs, pc'[p] = "append", pc'[q] = "append",
                       at'[p].ds = at'[q].ds, p # q
                PROVE  FALSE
    BY Zenon DEF NewOnce
  <2>1. ASSUME NEW x \in Procs, NEW y \in Procs, x # y, Prepare(x), pc'[y] = "append",
               at'[y].ds = Len(made) + 1
        PROVE  FALSE
    <3>1. Step(x, "prepare", "append", Uses(at[x].conn, Len(made) + 1))
      BY <2>1, Zenon DEF Prepare
    <3>2. pc[y] = "append" /\ at[y].ds = Len(made) + 1
      BY <2>1, <3>1, Moved
    <3>3. Len(made) + 1 \notin DOMAIN made
      BY <2>1, PreparesNew, Zenon
    <3>4. QED
      BY <3>2, <3>3, Zenon DEF Drivers, WorkMade, Working, IsOf
  <2>2. QED
    BY <1>13, <2>1, Zenon DEF OnePlace, NewOnce
<1>16. OwnApart'
  <2>. SUFFICES ASSUME NEW s \in txs', s.own, NEW d, d = s.ds PROVE ~Lists(d)' /\ ~OnPut(d)'
    BY Zenon DEF OwnApart, Lists, OnPut
  <2>1. ASSUME NEW t \in Txers, PrepareOwn(t), s \notin txs PROVE ~Lists(d)' /\ ~OnPut(d)'
    <3>1. d = Len(made) + 1
      BY <2>1 DEF PrepareOwn
    <3>2. ~Lists(d) /\ ~OnPut(d) /\ css' = css /\ onPut' = onPut
      BY <1>12, <2>1, <3>1, Zenon DEF Procs
    <3>3. QED
      BY <3>2, Zenon DEF Lists, OnPut
  <2>2. ASSUME NEW t \in Txers, AddDep(t), s \notin txs PROVE FALSE
    BY <2>2 DEF AddDep
  <2>3. CASE s \in txs
    <3>1. ~Lists(d) /\ ~OnPut(d) /\ Owns(d)
      BY <2>3, Zenon DEF OnePlace, OwnApart, Owns
    <3>2. ASSUME NEW q \in Procs, ListStmt(q), at[q].ds = d PROVE FALSE
      BY <3>1, <3>2, Zenon DEF ListStmt, Goto, Step, OnePlace, NewApart
    <3>3. QED
      BY <1>1, <3>1, <3>2, ListsStep, OnPutStep, Zenon DEF Lists
  <2>4. QED
    BY <1>1, <2>1, <2>2, <2>3, Zenon DEF Changes
<1>17. OwnOnce'
  <2>1. ASSUME NEW t \in Txers, PrepareOwn(t) PROVE OwnOnce'
    <3>0. PICK n : n = [by |-> t, ds |-> Len(made) + 1, own |-> TRUE]
      BY Zenon
    <3>1. txs' = txs \cup {n} /\ n.ds = Len(made) + 1
      BY <2>1, <3>0, Zenon DEF PrepareOwn
    <3>2. \A s \in txs : s.ds # n.ds
      BY <2>1, <3>1, PreparesNew, Zenon DEF Drivers, TxsMade, IsOf, Procs
    <3>3. QED
      BY <3>1, <3>2, Zenon DEF OnePlace, OwnOnce
  <2>2. ASSUME NEW t \in Txers, AddDep(t) PROVE OwnOnce'
    <3>1. txs' = txs \cup {[by |-> t, ds |-> at[t].ds, own |-> FALSE]} /\ pc[t] = "dep"
      BY <2>2, Zenon DEF AddDep, Goto, Step
    <3>2. \A s \in txs : s.own => s.ds # at[t].ds
      BY <3>1, Zenon DEF OnePlace, OwnUnbound
    <3>3. QED
      BY <3>1, <3>2 DEF OnePlace, OwnOnce
  <2>3. CASE txs' \subseteq txs
    BY <2>3, Zenon DEF OnePlace, OwnOnce
  <2>4. QED
    BY <1>1, <2>1, <2>2, <2>3, Zenon DEF Changes
<1>18. OwnUnbound'
  <2>. SUFFICES ASSUME NEW s \in txs', NEW t \in Txers, s.own, pc'[t] = "dep", at'[t].ds = s.ds
                PROVE  FALSE
    BY Zenon DEF OwnUnbound
  <2>1. t \in Procs
    BY Zenon DEF Procs
  <2>2. \/ Lists(at'[t].ds)
        \/ pc[t] = "append" /\ at'[t].ds = at[t].ds
        \/ pc[t] = "dep" /\ at'[t].ds = at[t].ds
    BY <1>6, <2>1, Zenon DEF Comes, Working, Lists
  <2>3. CASE s \in txs
    BY <2>1, <2>2, <2>3, Zenon DEF OnePlace, OwnApart, NewApart, OwnUnbound, Owns
  <2>4. ASSUME NEW q \in Txers, PrepareOwn(q), s \notin txs PROVE FALSE
    <3>1. s.ds = Len(made) + 1 /\ q \in Procs
      BY <2>4 DEF PrepareOwn, Procs
    <3>2. s.ds \notin DOMAIN made /\ ~Lists(s.ds)
      BY <1>12, <2>4, <3>1, Zenon
    <3>3. QED
      BY <2>1, <2>2, <3>2, Zenon DEF Drivers, WorkMade, Working, IsOf
  <2>5. ASSUME NEW q \in Txers, AddDep(q), s \notin txs PROVE FALSE
    BY <2>5 DEF AddDep
  <2>6. QED
    BY <1>1, <2>3, <2>4, <2>5, Zenon DEF Changes
<1>19. CssApart'
  <2>. SUFFICES ASSUME NEW e \in css', NEW d, d = e[2]
                PROVE  ~OnPut(d)' /\ (e[1] \notin finalClosed' => d \notin shut')
    BY Zenon DEF CssApart, OnPut
  <2>1. CASE e \in css
    <3>1. ~OnPut(d) /\ (e[1] \notin finalClosed => d \notin shut) /\ ~Owns(d) /\ IsOf(d, e[1])
      BY <2>1, Zenon DEF OnePlace, CssApart, OwnApart, Owns, Lists, Drivers, CssMade
    <3>2. \A q \in css : q[2] = d => q = e
      BY <2>1 DEF Drivers, CssMade, IsOf, Typed, StmtTyped
    <3>3. ~OnPut(d)'
      BY <1>1, <3>1, <3>2, OnPutStep, Zenon
    <3>4. ShutBy(d) => e[1] \in finalClosed'
      <4>1. ASSUME NEW c \in Conns, d \in openStmt[c] PROVE c = e[1]
        BY <3>1, <4>1, Zenon DEF Drivers, OpenMade, IsOf
      <4>2. QED
        BY <3>1, <3>2, <4>1, Zenon DEF ShutBy, OnPut, Owns
    <3>5. QED
      BY <1>3, <1>4, <3>1, <3>3, <3>4, Zenon
  <2>2. ASSUME NEW p \in Procs, ListStmt(p), e \notin css
        PROVE  ~OnPut(d)' /\ d \notin shut'
    <3>1. d = at[p].ds /\ pc[p] = "append"
      BY <2>2 DEF ListStmt, Goto, Step
    <3>2. UNCHANGED <<onPut, shut>>
      BY <2>2, Zenon DEF ListStmt
    <3>3. QED
      BY <3>1, <3>2, Zenon DEF OnePlace, NewApart, OnPut
  <2>3. QED
    BY <1>1, <2>1, <2>2, Zenon DEF Changes
<1>20. QED
  BY <1>10, <1>11, <1>14, <1>15, <1>16, <1>17, <1>18, <1>19, Zenon DEF OnePlace, NeededOpen

-----------------------------------------------------------------------------
(* closemu: its readers are in a call, and its writer in Close *)

Running == {"conn", "lookup", "prepare", "append", "use"}
InCall(place, l) ==
    \/ place \in Running \cup {"check", "return"}
    \/ place \in Leaving /\ l.then \in {"check", "return"}
InClose(place, l) == place \in {"locked", "unlock"} \/ (place \in Ending /\ l.then = "unlock")

Calls ==
    /\ readers \subseteq Users /\ (writer = {} \/ \E u \in Users : writer = {u})
    /\ \A u \in Users : InCall(pc[u], at[u]) => u \in readers
    /\ \A u \in Users : pc[u] \in Running => ~closed
    /\ \A u \in Users : InClose(pc[u], at[u]) => writer = {u}

\* A step of somebody who does not get closemu by it.
LEMMA CallsKept ==
    ASSUME Threads, Calls, NEW p \in Procs, NEW from, NEW to, NEW l, Step(p, from, to, l),
           UNCHANGED <<readers, writer, closed>>,
           p \in Users => /\ InCall(to, l) => InCall(from, at[p])
                          /\ to \in Running => from \in Running
                          /\ InClose(to, l) => InClose(from, at[p])
    PROVE  Calls'
<1>1. \A u \in Users : u \in Procs
  BY Zenon DEF Procs
<1>0. /\ pc[p] = from /\ pc'[p] = to /\ (to # "idle" => at'[p] = l)
      /\ \A u \in Users \ {p} : pc'[u] = pc[u] /\ at'[u] = at[u]
  BY <1>1, Moved, Zenon
<1>2. \A u \in Users : InCall(pc'[u], at'[u]) => InCall(pc[u], at[u])
  <2>1. ~InCall("idle", at'[p])
    BY Zenon DEF InCall, Running, Leaving
  <2>2. ASSUME p \in Users, InCall(to, at'[p]) PROVE InCall(from, at[p])
    BY <1>0, <2>1, <2>2, Zenon
  <2>3. QED
    BY <1>0, <2>2, Zenon
<1>3. \A u \in Users : pc'[u] \in Running => pc[u] \in Running
  BY <1>0, Zenon
<1>4. \A u \in Users : InClose(pc'[u], at'[u]) => InClose(pc[u], at[u])
  <2>1. ~InClose("idle", at'[p])
    BY Zenon DEF InClose, Ending, Finals
  <2>2. ASSUME p \in Users, InClose(to, at'[p]) PROVE InClose(from, at[p])
    BY <1>0, <2>1, <2>2, Zenon
  <2>3. QED
    BY <1>0, <2>2, Zenon
<1>5. QED
  BY <1>2, <1>3, <1>4, Zenon DEF Calls

\* Every step keeps closemu with those who are in a call or in Close.
LEMMA CallsStep ==
    ASSUME Threads, Calls, Next
    PROVE  Calls'
<1>1. ASSUME NEW p \in Procs, Prepare(p) \/ Fails(p) \/ ListStmt(p)
      PROVE  Calls'
  <2>1. UNCHANGED <<readers, writer, closed>>
    BY <1>1, Zenon DEF Prepare, Fails, PrepareFails, ListStmt, stmtVars
  <2>2. \E from, to, l : /\ Step(p, from, to, l) /\ from \in Running
                         /\ p \in Users => to \in Running \cup {"put"}
    BY <1>1, StmtAssumption, Zenon DEF Prepare, Fails, PrepareFails, ListStmt, Goto, Running,
       Procs
  <2>3. QED
    BY <2>1, <2>2, CallsKept, Zenon DEF InCall, InClose, Running, Ending, Finals
<1>2. ASSUME NEW p \in Procs, Puts(p) \/ CloseMark(p) \/ CloseConn(p)
      PROVE  Calls'
  <2>1. UNCHANGED <<readers, writer, closed>>
    BY <1>2, Zenon DEF Puts, PutConn, CloseMark, CloseConn, stmtVars
  <2>2. PICK from, to : /\ Step(p, from, to, at[p]) /\ from \in Leaving
                        /\ to \in Leaving \cup {at[p].then}
    BY <1>2, Zenon DEF Puts, PutConn, CloseMark, CloseConn, Goto, Leaving
  <2>3. p \in Users => at[p].then \in {"return", "check", "removeDep"}
    BY <2>2, Zenon DEF Threads, At, UserAt, Step
  <2>4. QED
    BY <2>1, <2>2, <2>3, CallsKept, Zenon DEF InCall, InClose, Running, Leaving, Ending, Finals
<1>3. ASSUME NEW p \in Procs, \/ RemoveDep(p) \/ FinalLock(p) \/ NoteUnused(p)
                              \/ RemoveOpenStmt(p) \/ FinalUnlock(p)
      PROVE  Calls'
  <2>1. UNCHANGED <<readers, writer, closed>>
    BY <1>3, Zenon DEF RemoveDep, FinalLock, NoteUnused, RemoveOpenStmt, FinalUnlock,
       stmtVars
  <2>2. PICK from, to, l : /\ Step(p, from, to, l) /\ from \in Ending /\ l.then = at[p].then
                           /\ to \in Ending \cup {After(p)}
    BY <1>3, Zenon DEF RemoveDep, FinalLock, NoteUnused, RemoveOpenStmt, FinalUnlock, Goto,
       Ending, Finals, Visits, Leaves
  <2>3. p \in Users => at[p].then \in {"removeDep", "unlock"}
    BY <2>2, Zenon DEF Threads, At, UserAt, Step
  <2>4. QED
    BY <2>1, <2>2, <2>3, CallsKept, Zenon DEF InCall, InClose, Running, Leaving, Ending, Finals,
       After
<1>4. ASSUME NEW u \in Users, Conn(u) \/ ConnFails(u) \/ Lookup(u) \/ Ran(u)
      PROVE  Calls'
  <2>1. UNCHANGED <<readers, writer, closed>> /\ u \in Procs
    BY <1>4, Zenon DEF Conn, ConnFails, Lookup, Ran, Executed, stmtVars, Procs
  <2>2. PICK from, to, l : /\ Step(u, from, to, l) /\ from \in Running
                           /\ to \in Running \cup {"put", "return"}
    BY <1>4, Zenon DEF Conn, ConnFails, Lookup, Ran, Executed, Goto, Running
  <2>3. QED
    BY <2>1, <2>2, CallsKept, Zenon DEF InCall, InClose, Running, Ending, Finals
<1>5. ASSUME NEW u \in Users, RowsClose(u)
      PROVE  Calls'
  <2>1. UNCHANGED <<readers, writer, closed>> /\ u \in Procs
    BY <1>5, Zenon DEF RowsClose, stmtVars, Procs
  <2>2. Step(u, "rows", "put", Leaves(at[u].conn, u, "removeDep"))
    BY <1>5, Zenon DEF RowsClose
  <2>3. QED
    BY <2>1, <2>2, CallsKept, Zenon DEF InCall, InClose, Running, Leaving, Ending, Finals, Leaves
<1>6. ASSUME NEW t \in Txers, \/ StmtContext(t) \/ PrepareOwn(t) \/ PrepareOwnFails(t)
                              \/ AddDep(t) \/ EndTx(t) \/ CloseTxStmt(t) \/ AbandonTx(t)
                              \/ ReleaseTx(t)
      PROVE  Calls'
  <2>1. UNCHANGED <<readers, writer, closed>> /\ t \in Procs /\ t \notin Users
    BY <1>6, StmtAssumption, Zenon DEF StmtContext, PrepareOwn, PrepareOwnFails, AddDep,
       EndTx, CloseTxStmt, AbandonTx, ReleaseTx, stmtVars, Procs
  <2>2. PICK from, to, l : Step(t, from, to, l)
    BY <1>6, Zenon DEF StmtContext, PrepareOwn, PrepareOwnFails, AddDep, EndTx, CloseTxStmt,
       AbandonTx, ReleaseTx, Goto
  <2>3. QED
    BY <2>1, <2>2, CallsKept, Zenon
<1>7. ASSUME NEW t \in Txers, Begin(t)
      PROVE  Calls'
  <2>1. UNCHANGED <<readers, writer, closed, pc, at>>
    BY <1>7, Zenon DEF Begin, stmtVars
  <2>2. QED
    BY <2>1, Zenon DEF Calls
<1>8. ASSUME NEW u \in Users, ConnStmt(u)
      PROVE  Calls'
  <2>1. UNCHANGED <<readers, writer, closed>> /\ u \in Procs
    BY <1>8, Zenon DEF ConnStmt, stmtVars, Procs
  <2>2. PICK to : Step(u, "check", to, Nothing) /\ to = IF closed THEN "return" ELSE "conn"
    BY <1>8, Zenon DEF ConnStmt
  <2>3. /\ pc[u] = "check" /\ pc'[u] = to
        /\ \A q \in Users \ {u} : pc'[q] = pc[q] /\ at'[q] = at[q]
    BY <2>1, <2>2, Moved, Zenon DEF Procs
  <2>4. \A q \in Users : InCall(pc'[q], at'[q]) => q \in readers
    BY <2>3, Zenon DEF Calls, InCall
  <2>5. \A q \in Users : pc'[q] \in Running => ~closed
    BY <2>2, <2>3, Zenon DEF Calls, Running
  <2>6. \A q \in Users : InClose(pc'[q], at'[q]) => writer = {q}
    BY <2>2, <2>3, Zenon DEF Calls, InClose, Ending, Finals
  <2>7. QED
    BY <2>1, <2>4, <2>5, <2>6, Zenon DEF Calls
<1>9. ASSUME NEW u \in Users, Exec(u)
      PROVE  Calls'
  <2>1. UNCHANGED <<writer, closed>> /\ u \in Procs /\ readers' = readers \cup {u}
    BY <1>9, Zenon DEF Exec, Procs
  <2>2. pc'[u] = "check" /\ \A q \in Users \ {u} : pc'[q] = pc[q] /\ at'[q] = at[q]
    BY <1>9, <2>1, Moved, Zenon DEF Exec, Goto, Procs
  <2>3. \A q \in Users : InCall(pc'[q], at'[q]) => q \in readers'
    BY <2>1, <2>2, Zenon DEF Calls
  <2>4. \A q \in Users : pc'[q] \in Running => ~closed
    BY <2>2, Zenon DEF Calls, Running
  <2>5. \A q \in Users : InClose(pc'[q], at'[q]) => writer = {q}
    BY <2>2, Zenon DEF Calls, InClose, Ending, Finals
  <2>6. QED
    BY <2>1, <2>3, <2>4, <2>5, Zenon DEF Calls
<1>10. ASSUME NEW u \in Users, Queried(u) \/ Return(u)
       PROVE  Calls'
  <2>1. UNCHANGED <<writer, closed>> /\ u \in Procs /\ readers' = readers \ {u}
    BY <1>10, Zenon DEF Queried, Return, Procs
  <2>2. /\ pc'[u] \in {"rows", "idle"}
        /\ \A q \in Users \ {u} : pc'[q] = pc[q] /\ at'[q] = at[q]
    BY <1>10, <2>1, Moved DEF Queried, Return, Goto, Procs
  <2>3. \A q \in Users : InCall(pc'[q], at'[q]) => q \in readers'
    BY <2>1, <2>2, Zenon DEF Calls, InCall, Running, Leaving
  <2>4. \A q \in Users : pc'[q] \in Running => ~closed
    BY <2>2, Zenon DEF Calls, Running
  <2>5. \A q \in Users : InClose(pc'[q], at'[q]) => writer = {q}
    BY <2>2, Zenon DEF Calls, InClose, Ending, Finals
  <2>6. QED
    BY <2>1, <2>3, <2>4, <2>5, Zenon DEF Calls
<1>11. ASSUME NEW u \in Users, CloseLock(u) \/ CloseUnlock(u)
       PROVE  Calls'
  <2>1. UNCHANGED <<readers, closed>> /\ u \in Procs
    BY <1>11, Zenon DEF CloseLock, CloseUnlock, Procs
  <2>2. PICK to : pc'[u] = to /\ \/ writer = {} /\ writer' = {u} /\ to = "locked"
                                 \/ pc[u] = "unlock" /\ writer' = {} /\ to = "idle"
    BY <1>11, <2>1, Moved, Zenon DEF CloseLock, CloseUnlock, Goto
  <2>3. \A q \in Users \ {u} : pc'[q] = pc[q] /\ at'[q] = at[q]
    BY <1>11, <2>1, Moved, Zenon DEF CloseLock, CloseUnlock, Goto, Procs
  <2>4. \A q \in Users : InCall(pc'[q], at'[q]) => q \in readers
    BY <2>2, <2>3, Zenon DEF Calls, InCall, Running, Leaving
  <2>5. \A q \in Users : pc'[q] \in Running => ~closed
    BY <2>2, <2>3, Zenon DEF Calls, Running
  <2>6. pc[u] = "unlock" => writer = {u}
    BY Zenon DEF Calls, InClose
  <2>7. \A q \in Users \ {u} : ~InClose(pc[q], at[q])
    BY <2>2, <2>6, Zenon DEF Calls
  <2>8. \A q \in Users : InClose(pc'[q], at'[q]) => writer' = {q}
    BY <2>2, <2>3, <2>7, Zenon DEF InClose, Ending, Finals
  <2>9. QED
    BY <2>1, <2>2, <2>4, <2>5, <2>8, Zenon DEF Calls
<1>12. ASSUME NEW u \in Users, Close(u)
       PROVE  Calls'
  <2>1. UNCHANGED <<readers, writer>> /\ u \in Procs /\ readers = {}
    BY <1>12, Zenon DEF Close, Procs
  <2>2. pc[u] = "locked" /\ pc'[u] \in {"unlock", "removeDep"}
    BY <1>12, <2>1, Moved, Zenon DEF Close
  <2>3. \A q \in Users \ {u} : pc'[q] = pc[q] /\ at'[q] = at[q]
    BY <1>12, <2>1, Moved, Zenon DEF Close, Procs
  <2>4. \A q \in Users : ~InCall(pc'[q], at'[q])
    BY <2>1, <2>2, <2>3, Zenon DEF Calls, InCall, Running, Leaving
  <2>5. \A q \in Users : pc'[q] \notin Running
    BY <2>4, Zenon DEF InCall
  <2>6. \A q \in Users : InClose(pc'[q], at'[q]) => writer = {q}
    BY <2>2, <2>3, Zenon DEF Calls, InClose
  <2>7. QED
    BY <2>1, <2>4, <2>5, <2>6, Zenon DEF Calls
<1>13. ASSUME NEW p \in Procs, Shared(p)
       PROVE  Calls'
  BY <1>1, <1>2, <1>3, <1>13, Zenon DEF Shared, Fails, Puts
<1>14. ASSUME NEW u \in Users, Exec(u) \/ RowsClose(u) \/ CloseLock(u) \/ UserStep(u)
       PROVE  Calls'
  BY <1>4, <1>5, <1>8, <1>9, <1>10, <1>11, <1>12, <1>14, Zenon DEF UserStep, Ran
<1>15. ASSUME NEW t \in Txers, Begin(t) \/ StmtContext(t) \/ EndTx(t) \/ AbandonTx(t)
                                  \/ TxStep(t)
       PROVE  Calls'
  BY <1>6, <1>7, <1>15, Zenon DEF TxStep
<1>16. QED
  BY <1>13, <1>14, <1>15, Zenon DEF Next

-----------------------------------------------------------------------------
(* Dependencies: of the statement on itself until Close, of a user while its *)
(* Rows are open, and of who has bound the statement to a transaction.      *)

\* Rows are open, or being closed.
HasRows(place, l) ==
    place = "rows" \/ (place \in Leaving \cup {"removeDep"} /\ l.then = "removeDep")
Removes(p, x) == pc[p] = "removeDep" /\ at[p].x = x
Binds(t) == t \in lost \/ \E s \in txs : s.by = t /\ ~s.own

SelfDep ==
    /\ Self \in dep <=> ~closed \/ \E u \in Users : Removes(u, Self)
    /\ \A u \in Users : Removes(u, Self) => closed
UserDep == \A u \in Users : u \in dep <=> HasRows(pc[u], at[u])
TxDep == \A t \in Txers : t \in dep <=> Binds(t) \/ \E q \in Txers : Removes(q, t)
\* Nobody is bound twice to the transaction.
Bound ==
    /\ \A s, q \in txs : s.by = q.by => s = q
    /\ \A s \in txs : s.by \notin lost
    /\ \A t \in Txers : pc[t] \in TxPhase => t \notin lost /\ \A s \in txs : s.by # t
    /\ \A t, q \in Txers : Removes(q, t) => t \notin lost /\ \A s \in txs : s.by # t

Depends ==
    /\ SelfDep /\ UserDep /\ TxDep /\ Bound
    /\ dep \subseteq Procs \cup {Self} /\ unpaired = FALSE

\* A step that leaves alone the transaction, its goroutines and their
\* dependencies keeps what is said of them.
LEMMA TxersKeep ==
    ASSUME Depends, UNCHANGED <<lost, txs>>,
           \A q \in Txers : pc'[q] = pc[q] /\ at'[q] = at[q],
           \A q \in Txers : q \in dep' <=> q \in dep
    PROVE  TxDep' /\ Bound'
<1>1. \A q \in Txers : \A x : Removes(q, x)' <=> Removes(q, x)
  BY Zenon DEF Removes
<1>2. TxDep'
  BY <1>1, Zenon DEF Depends, TxDep, Binds
<1>3. Bound'
  <2>1. /\ \A z, q \in txs' : z.by = q.by => z = q
        /\ \A z \in txs' : z.by \notin lost'
    BY Zenon DEF Depends, Bound
  <2>2. \A t \in Txers : pc'[t] \in TxPhase => t \notin lost' /\ \A z \in txs' : z.by # t
    BY Zenon DEF Depends, Bound
  <2>3. \A t, q \in Txers : Removes(q, t)' => t \notin lost' /\ \A z \in txs' : z.by # t
    BY <1>1, Zenon DEF Depends, Bound
  <2>4. QED
    BY <2>1, <2>2, <2>3, Zenon DEF Bound
<1>4. QED
  BY <1>2, <1>3, Zenon

\* A step of a user that changes no dependency, and neither begins nor ends the
\* close of Rows or of the statement.
LEMMA DependsUser ==
    ASSUME Threads, Depends, NEW u \in Users, NEW from, NEW to, NEW l, Step(u, from, to, l),
           UNCHANGED <<dep, unpaired, closed, lost, txs>>,
           HasRows(to, l) <=> HasRows(from, at[u]), from # "removeDep",
           to = "removeDep" => l.x # Self
    PROVE  Depends'
<1>1. /\ \A q \in Procs \ {u} : pc'[q] = pc[q] /\ at'[q] = at[q]
      /\ pc[u] = from /\ pc'[u] = to /\ (to # "idle" => at'[u] = l)
      /\ u \in Procs /\ u \notin Txers /\ \A t \in Txers : t \in Procs
  BY Moved, StmtAssumption, Zenon DEF Procs
<1>2. SelfDep'
  <2>1. \A q \in Users : Removes(q, Self)' <=> Removes(q, Self)
    BY <1>1, Zenon DEF Removes, Procs
  <2>2. QED
    BY <2>1, Zenon DEF Depends, SelfDep
<1>3. UserDep'
  <2>1. \A q \in Users : HasRows(pc'[q], at'[q]) <=> HasRows(pc[q], at[q])
    BY <1>1, Zenon DEF HasRows, Procs, Leaving
  <2>2. QED
    BY <2>1, Zenon DEF Depends, UserDep
<1>4. \A q \in Txers : pc'[q] = pc[q] /\ at'[q] = at[q]
  BY <1>1, Zenon
<1>5. TxDep'
  BY <1>4 DEF Depends, TxDep, Binds, Removes
<1>6. Bound'
  BY <1>4, Zenon DEF Depends, Bound, Removes
<1>7. QED
  BY <1>2, <1>3, <1>5, <1>6, Zenon DEF Depends

\* The same for somebody in the transaction.
LEMMA DependsTx ==
    ASSUME Threads, Depends, NEW t \in Txers, NEW from, NEW to, NEW l, Step(t, from, to, l),
           UNCHANGED <<dep, unpaired, closed, lost, txs>>,
           from # "removeDep", to # "removeDep", to \in TxPhase => from \in TxPhase
    PROVE  Depends'
<1>1. /\ \A q \in Procs \ {t} : pc'[q] = pc[q] /\ at'[q] = at[q]
      /\ pc[t] = from /\ pc'[t] = to /\ (to # "idle" => at'[t] = l)
      /\ t \in Procs /\ t \notin Users /\ \A u \in Users : u \in Procs
  BY Moved, StmtAssumption, Zenon DEF Procs
<1>2. \A u \in Users : pc'[u] = pc[u] /\ at'[u] = at[u]
  BY <1>1, Zenon
<1>3. SelfDep' /\ UserDep'
  BY <1>2, Zenon DEF Depends, SelfDep, UserDep, Removes
<1>4. \A q \in Txers : \A x : Removes(q, x)' <=> Removes(q, x)
  BY <1>1, Zenon DEF Removes, Procs
<1>5. TxDep'
  BY <1>4, Zenon DEF Depends, TxDep, Binds
<1>6. Bound'
  BY <1>1, <1>4, Zenon DEF Depends, Bound, Procs
<1>7. QED
  BY <1>3, <1>5, <1>6, Zenon DEF Depends

\* Every step keeps the dependencies in step with what depends.
LEMMA DependsStep ==
    ASSUME Threads, Typed, Phases, Calls, Depends, Next
    PROVE  Depends'
<1>1. ASSUME NEW p \in Procs, Prepare(p) \/ Fails(p) \/ ListStmt(p)
      PROVE  Depends'
  <2>1. UNCHANGED <<dep, unpaired, closed, lost, txs>>
    BY <1>1, Zenon DEF Prepare, Fails, PrepareFails, ListStmt, stmtVars, txVars
  <2>2. PICK from, to, l : /\ Step(p, from, to, l) /\ from \in {"prepare", "append"}
                           /\ p \in Txers => to \in {"idle", "append", "dep"}
                           /\ p \in Users => \/ to \in {"append", "use"}
                                             \/ to = "put" /\ l.then \in {"return", "check"}
    <3>0. Users \cap Txers = {}
      BY StmtAssumption, Zenon
    <3>1. CASE Prepare(p)
      BY <3>1, Zenon DEF Prepare
    <3>2. CASE Fails(p)
      <4>1. PICK then \in {"return", "check"} : PrepareFails(p, then)
        BY <3>2, Zenon DEF Fails
      <4>2. Leaves(at[p].conn, NoOne, then).then = then
        BY Zenon DEF Leaves
      <4>3. QED
        BY <3>0, <4>1, <4>2, Zenon DEF PrepareFails
    <3>3. CASE ListStmt(p)
      BY <3>0, <3>3, Zenon DEF ListStmt, Goto
    <3>4. QED
      BY <1>1, <3>1, <3>2, <3>3, Zenon
  <2>3. CASE p \in Users
    BY <2>1, <2>2, <2>3, DependsUser, Zenon DEF HasRows, Leaving
  <2>4. CASE p \in Txers
    BY <2>1, <2>2, <2>4, DependsTx, Zenon DEF TxPhase
  <2>5. QED
    BY <2>3, <2>4, Zenon DEF Procs
<1>2. ASSUME NEW p \in Procs, Puts(p) \/ CloseMark(p) \/ CloseConn(p)
      PROVE  Depends'
  <2>1. UNCHANGED <<dep, unpaired, closed, lost, txs>>
    BY <1>2, Zenon DEF Puts, PutConn, CloseMark, CloseConn, stmtVars, txVars
  <2>2. PICK from, to : /\ Step(p, from, to, at[p]) /\ from \in Leaving
                        /\ to \in Leaving \cup {at[p].then}
    BY <1>2, Zenon DEF Puts, PutConn, CloseMark, CloseConn, Goto, Leaving
  <2>3. /\ p \in Users => \/ at[p].then \in {"return", "check"}
                          \/ at[p].then = "removeDep" /\ at[p].x = p
        /\ p \in Txers => at[p].then = "idle"
    BY <2>2, Zenon DEF Threads, At, UserAt, TxAt, Step
  <2>4. CASE p \in Users
    <3>1. HasRows(to, at[p]) <=> HasRows(from, at[p])
      BY <2>2, <2>3, <2>4, Zenon DEF HasRows, Leaving
    <3>2. p # Self /\ from # "removeDep"
      BY <2>2, <2>4, StmtAssumption, Zenon DEF Leaving
    <3>3. to = "removeDep" => at[p].x # Self
      BY <2>2, <2>3, <2>4, <3>2, Zenon DEF Leaving
    <3>4. QED
      BY <2>1, <2>2, <2>4, <3>1, <3>2, <3>3, DependsUser, Zenon
  <2>5. CASE p \in Txers
    BY <2>1, <2>2, <2>3, <2>5, DependsTx, Zenon DEF TxPhase, Leaving
  <2>6. QED
    BY <2>4, <2>5, Zenon DEF Procs
<1>3. ASSUME NEW p \in Procs, \/ FinalLock(p) \/ NoteUnused(p) \/ RemoveOpenStmt(p)
                              \/ FinalUnlock(p)
      PROVE  Depends'
  <2>1. UNCHANGED <<dep, unpaired, closed, lost, txs>>
    BY <1>3, Zenon DEF FinalLock, NoteUnused, RemoveOpenStmt, FinalUnlock, stmtVars, txVars
  <2>2. PICK from, to, l : /\ Step(p, from, to, l) /\ from \in Finals
                           /\ to \in Finals \cup {After(p)}
    BY <1>3, Zenon DEF FinalLock, NoteUnused, RemoveOpenStmt, FinalUnlock, Goto, Finals
  <2>3. p \in Procs /\ pc[p] \in Ending
    BY <2>2, Zenon DEF Step, Ending
  <2>4. After(p) \in {"idle", "unlock", "end"}
    BY <2>3, AfterPlaces, Zenon
  <2>5. CASE p \in Users
    BY <2>1, <2>2, <2>4, <2>5, DependsUser, Zenon DEF HasRows, Leaving, Finals
  <2>6. CASE p \in Txers
    BY <2>1, <2>2, <2>4, <2>6, DependsTx, Zenon DEF TxPhase, Finals
  <2>7. QED
    BY <2>5, <2>6, Zenon DEF Procs
<1>4. ASSUME NEW u \in Users, \/ Exec(u) \/ ConnStmt(u) \/ Conn(u) \/ ConnFails(u)
                              \/ Lookup(u) \/ Ran(u) \/ Return(u) \/ CloseLock(u)
                              \/ CloseUnlock(u)
      PROVE  Depends'
  <2>1. UNCHANGED <<dep, unpaired, closed, lost, txs>>
    BY <1>4, Zenon DEF Exec, ConnStmt, removeClosedStmtLocked, Conn, ConnFails, Lookup, Ran,
       Executed, Return, CloseLock, CloseUnlock, stmtVars, txVars
  <2>2. PICK from, to, l : /\ Step(u, from, to, l)
                           /\ ~HasRows(to, l) /\ to # "removeDep"
                           /\ from \notin {"rows", "removeDep"} \cup Leaving
    <3>1. CASE Exec(u)
      BY <3>1 DEF Exec, Executed, Goto, HasRows, Leaving, Leaves
    <3>2. CASE ConnStmt(u)
      BY <3>2 DEF ConnStmt, Executed, HasRows, Leaving, Leaves
    <3>3. CASE Conn(u)
      BY <3>3 DEF Conn, Executed, HasRows, Leaving, Leaves
    <3>4. CASE ConnFails(u)
      BY <3>4 DEF ConnFails, Executed, Goto, HasRows, Leaving, Leaves
    <3>5. CASE Lookup(u)
      BY <3>5 DEF Lookup, Executed, Goto, HasRows, Leaving, Leaves
    <3>6. CASE Ran(u)
      BY <3>6 DEF Ran, Executed, HasRows, Leaving, Leaves
    <3>7. CASE Return(u)
      BY <3>7 DEF Return, Executed, Goto, HasRows, Leaving, Leaves
    <3>8. CASE CloseLock(u)
      BY <3>8 DEF CloseLock, Executed, Goto, HasRows, Leaving, Leaves
    <3>9. CASE CloseUnlock(u)
      BY <3>9 DEF CloseUnlock, Executed, Goto, HasRows, Leaving, Leaves
    <3>10. QED
      BY <1>4, <3>1, <3>2, <3>3, <3>4, <3>5, <3>6, <3>7, <3>8, <3>9, Zenon
  <2>3. QED
    BY <2>1, <2>2, DependsUser, Zenon DEF HasRows
<1>5. ASSUME NEW u \in Users, RowsClose(u)
      PROVE  Depends'
  <2>1. UNCHANGED <<dep, unpaired, closed, lost, txs>>
    BY <1>5, Zenon DEF RowsClose, stmtVars, txVars
  <2>2. PICK l : Step(u, "rows", "put", l) /\ l = Leaves(at[u].conn, u, "removeDep")
    BY <1>5, Zenon DEF RowsClose
  <2>3. QED
    BY <2>1, <2>2, DependsUser, Zenon DEF HasRows, Leaving, Leaves
<1>6. ASSUME NEW t \in Txers, PrepareOwnFails(t) \/ EndTx(t) \/ ReleaseTx(t)
      PROVE  Depends'
  <2>1. UNCHANGED <<dep, unpaired, closed, lost, txs>>
    BY <1>6, Zenon DEF PrepareOwnFails, EndTx, ReleaseTx, stmtVars, txVars
  <2>2. PICK from, to, l : /\ Step(t, from, to, l) /\ from # "removeDep"
                           /\ to \in {"idle", "end", "put"}
    BY <1>6, Zenon DEF PrepareOwnFails, EndTx, ReleaseTx, Goto
  <2>3. QED
    BY <2>1, <2>2, DependsTx, Zenon DEF TxPhase
<1>7. ASSUME NEW t \in Txers, Begin(t)
      PROVE  Depends'
  <2>1. UNCHANGED <<dep, unpaired, closed, lost, txs, pc, at>>
    BY <1>7, Zenon DEF Begin, stmtVars
  <2>2. QED
    BY <2>1, Zenon DEF Depends, SelfDep, UserDep, TxDep, Bound, Removes, Binds
<1>8. ASSUME NEW p \in Procs, RemoveDep(p)
      PROVE  Depends'
  <2>1. PICK to : Step(p, "removeDep", to, at[p]) /\ to \in {"lockFinal", After(p)}
    BY <1>8, Zenon DEF RemoveDep, Goto
  <2>2. pc[p] = "removeDep" /\ to \in {"lockFinal", "idle", "unlock", "end"}
    BY <2>1, AfterPlaces, Zenon DEF Step, Ending
  <2>3. pc'[p] = to /\ \A q \in Procs \ {p} : pc'[q] = pc[q] /\ at'[q] = at[q]
    BY <2>1, Moved, Zenon
  <2>4. /\ dep' = dep \ {at[p].x} /\ UNCHANGED <<closed, lost, txs>>
        /\ unpaired' = (unpaired \/ at[p].x \notin dep)
    BY <1>8, Zenon DEF RemoveDep, txVars
  <2>5. \A q \in Procs : \A x : Removes(q, x)' <=> q # p /\ Removes(q, x)
    BY <2>2, <2>3, Zenon DEF Removes
  <2>6. CASE p \in Users /\ at[p].then = "removeDep" /\ at[p].x = p
    <3>1. p \in dep /\ p # Self /\ p \notin Txers
      BY <2>2, <2>6, StmtAssumption, Zenon DEF Depends, UserDep, HasRows
    <3>2. \A q \in Users : HasRows(pc'[q], at'[q]) <=> q # p /\ HasRows(pc[q], at[q])
      BY <2>2, <2>3, Zenon DEF HasRows, Leaving, Procs
    <3>3. UserDep'
      BY <2>4, <2>6, <3>2, Zenon DEF Depends, UserDep
    <3>4. \A q \in Users : Removes(q, Self)' <=> Removes(q, Self)
      BY <2>5, <2>6, <3>1, Zenon DEF Removes, Procs
    <3>5. SelfDep'
      BY <2>4, <2>6, <3>1, <3>4, Zenon DEF Depends, SelfDep
    <3>6. \A q \in Txers : pc'[q] = pc[q] /\ at'[q] = at[q]
      BY <2>3, <3>1, Zenon DEF Procs
    <3>7. TxDep' /\ Bound'
      BY <2>4, <2>6, <3>1, <3>6, TxersKeep, Zenon
    <3>8. QED
      BY <2>4, <2>6, <3>1, <3>3, <3>5, <3>7, Zenon DEF Depends
  <2>7. CASE p \in Users /\ at[p].then = "unlock" /\ at[p].x = Self
    <3>1. Removes(p, Self) /\ Self \in dep /\ closed /\ p \notin Txers
      BY <2>2, <2>7, StmtAssumption, Zenon DEF Depends, SelfDep, Removes
    <3>2. \A q \in Users : Removes(q, Self) => InClose(pc[q], at[q])
      BY StmtAssumption, Zenon DEF Threads, At, UserAt, Procs, Removes, InClose, Ending
    <3>3. \A q \in Users : Removes(q, Self) => q = p
      BY <2>7, <3>1, <3>2, Zenon DEF Calls
    <3>4. SelfDep'
      BY <2>4, <2>5, <2>7, <3>1, <3>3, Zenon DEF SelfDep, Procs
    <3>5. \A q \in Users : HasRows(pc'[q], at'[q]) <=> HasRows(pc[q], at[q])
      BY <2>2, <2>3, <2>7, Zenon DEF HasRows, Leaving, Procs
    <3>6. UserDep'
      BY <2>4, <2>7, <3>5, StmtAssumption, Zenon DEF Depends, UserDep
    <3>7. \A q \in Txers : pc'[q] = pc[q] /\ at'[q] = at[q]
      BY <2>3, <3>1, Zenon DEF Procs
    <3>8. \A q \in Txers : q \in dep' <=> q \in dep
      BY <2>4, <2>7, StmtAssumption, Zenon
    <3>9. TxDep' /\ Bound'
      BY <2>4, <3>7, <3>8, TxersKeep, Zenon
    <3>10. QED
      BY <2>4, <2>7, <3>1, <3>4, <3>6, <3>9, Zenon DEF Depends
  <2>8. CASE p \in Txers
    <3>1. PICK t \in Txers : t = at[p].x
      BY <2>2, <2>8, Zenon DEF Threads, At, TxAt, Ending
    <3>2. /\ Removes(p, t) /\ t \in dep /\ ~Binds(t)
          /\ t # Self /\ p \notin Users /\ t \notin Users
      BY <2>2, <2>8, <3>1, StmtAssumption DEF Depends, TxDep, Bound, Binds, Removes
    <3>3. \A q \in Txers \ {p} : \A x : ~Removes(q, x)
      BY <2>2, <2>8, Zenon DEF Phases, EndPhase, Ending, Removes
    <3>4. \A q \in Users : pc'[q] = pc[q] /\ at'[q] = at[q]
      BY <2>3, <3>2, Zenon DEF Procs
    <3>5. SelfDep' /\ UserDep'
      BY <2>4, <3>1, <3>2, <3>4, Zenon DEF Depends, SelfDep, UserDep, Removes
    <3>6. \A q \in Txers : \A x : ~Removes(q, x)'
      BY <2>5, <3>3, Zenon DEF Procs
    <3>7. \A x \in Txers : x \in dep' <=> Binds(x)
      <4>1. \A x \in Txers \ {t} : ~Removes(p, x)
        BY <3>1, Zenon DEF Removes
      <4>2. QED
        BY <2>4, <3>1, <3>2, <3>3, <4>1 DEF Depends, TxDep
    <3>8. TxDep'
      BY <2>4, <3>6, <3>7, Zenon DEF TxDep, Binds
    <3>9. \A q \in Txers : pc'[q] \in TxPhase => pc[q] \in TxPhase
      BY <2>2, <2>3, Zenon DEF Procs, TxPhase
    <3>10. Bound'
      BY <2>4, <3>6, <3>9, Zenon DEF Depends, Bound
    <3>11. QED
      BY <2>4, <3>1, <3>2, <3>5, <3>8, <3>10, Zenon DEF Depends
  <2>9. QED
    BY <2>2, <2>6, <2>7, <2>8, Zenon DEF Threads, At, UserAt, Ending, Procs
<1>9. ASSUME NEW u \in Users, Queried(u)
      PROVE  Depends'
  <2>1. u \in Procs /\ u # Self /\ u \notin Txers
    BY StmtAssumption, Zenon DEF Procs
  <2>2. /\ pc[u] = "use" /\ pc'[u] = "rows"
        /\ \A q \in Procs \ {u} : pc'[q] = pc[q] /\ at'[q] = at[q]
    BY <1>9, <2>1, Moved, Zenon DEF Queried, Goto
  <2>3. dep' = dep \cup {u} /\ UNCHANGED <<unpaired, closed, lost, txs>>
    BY <1>9, Zenon DEF Queried, txVars
  <2>4. \A q \in Users \ {u} : pc'[q] = pc[q] /\ at'[q] = at[q]
    BY <2>2, Zenon DEF Procs
  <2>5. UserDep'
    BY <2>2, <2>3, <2>4, Zenon DEF Depends, UserDep, HasRows
  <2>6. SelfDep'
    BY <2>1, <2>2, <2>3, <2>4, Zenon DEF Depends, SelfDep, Removes
  <2>7. \A q \in Txers : pc'[q] = pc[q] /\ at'[q] = at[q]
    BY <2>1, <2>2, Zenon DEF Procs
  <2>8. TxDep' /\ Bound'
    BY <2>1, <2>3, <2>7, TxersKeep, Zenon
  <2>9. QED
    BY <2>1, <2>3, <2>5, <2>6, <2>8, Zenon DEF Depends
<1>10. ASSUME NEW u \in Users, Close(u)
       PROVE  Depends'
  <2>1. u \in Procs /\ u # Self /\ u \notin Txers
    BY StmtAssumption, Zenon DEF Procs
  <2>2. PICK to, l : /\ Step(u, "locked", to, l)
                     /\ to = IF closed THEN "unlock" ELSE "removeDep"
                     /\ l = Leaves(NoOne, Self, "unlock")
    BY <1>10, Zenon DEF Close
  <2>3. closed' = TRUE /\ UNCHANGED <<dep, unpaired, lost, txs>>
    BY <1>10, Zenon DEF Close, txVars
  <2>4. /\ pc[u] = "locked" /\ pc'[u] = to /\ at'[u] = l /\ l.x = Self /\ l.then = "unlock"
        /\ \A q \in Procs \ {u} : pc'[q] = pc[q] /\ at'[q] = at[q]
    BY <2>1, <2>2, Moved DEF Leaves
  <2>5. \A q \in Users \ {u} : pc'[q] = pc[q] /\ at'[q] = at[q]
    BY <2>4, Zenon DEF Procs
  <2>6. UserDep'
    <3>1. ~HasRows(pc'[u], at'[u]) /\ ~HasRows(pc[u], at[u])
      BY <2>2, <2>4, Zenon DEF HasRows, Leaving
    <3>2. QED
      BY <2>3, <2>5, <3>1, Zenon DEF Depends, UserDep
  <2>7. SelfDep'
    <3>1. CASE closed
      BY <2>2, <2>3, <2>4, <2>5, <3>1, Zenon DEF Depends, SelfDep, Removes
    <3>2. CASE ~closed
      <4>1. Self \in dep /\ Removes(u, Self)'
        BY <2>2, <2>4, <3>2, Zenon DEF Depends, SelfDep, Removes
      <4>2. QED
        BY <2>3, <4>1, Zenon DEF SelfDep
    <3>3. QED
      BY <3>1, <3>2, Zenon
  <2>8. \A q \in Txers : pc'[q] = pc[q] /\ at'[q] = at[q]
    BY <2>1, <2>4, Zenon DEF Procs
  <2>9. TxDep' /\ Bound'
    BY <2>3, <2>8, TxersKeep, Zenon
  <2>10. QED
    BY <2>3, <2>6, <2>7, <2>9, Zenon DEF Depends
<1>11. ASSUME NEW t \in Txers, StmtContext(t)
       PROVE  Depends'
  <2>1. t \in Procs /\ t \notin Users /\ t # Self
    BY StmtAssumption, Zenon DEF Procs

  <2>2. /\ pc[t] = "idle" /\ pc'[t] \in TxPhase
        /\ \A q \in Procs \ {t} : pc'[q] = pc[q] /\ at'[q] = at[q]
    <3>1. PICK to, l : Step(t, "idle", to, l) /\ to \in TxPhase
      BY <1>11, Zenon DEF StmtContext, Goto, TxPhase
    <3>2. QED
      BY <2>1, <3>1, Moved, Zenon
  <2>3. UNCHANGED <<dep, unpaired, closed, lost, txs>>
    BY <1>11, Zenon DEF StmtContext, txVars

  <2>4. \A q \in Users : pc'[q] = pc[q] /\ at'[q] = at[q]
    BY <2>1, <2>2, Zenon DEF Procs

  <2>5. SelfDep' /\ UserDep'
    BY <2>3, <2>4, Zenon DEF Depends, SelfDep, UserDep, Removes
  <2>6. \A q \in Txers : \A x : Removes(q, x)' <=> Removes(q, x)
    BY <2>2, Zenon DEF Removes, TxPhase, Procs
  <2>7. TxDep'
    BY <2>3, <2>6, Zenon DEF Depends, TxDep, Binds
  <2>8. t \notin lost /\ \A s \in txs : s.by # t
    BY <1>11, Zenon DEF StmtContext
  <2>9. Bound'
    BY <2>2, <2>3, <2>6, <2>8, Zenon DEF Depends, Bound, Procs
  <2>10. QED
    BY <2>3, <2>5, <2>7, <2>9, Zenon DEF Depends
<1>12. ASSUME NEW t \in Txers, PrepareOwn(t) \/ AddDep(t)
       PROVE  Depends'
  <2>1. t \in Procs /\ t \notin Users /\ t # Self
    BY StmtAssumption, Zenon DEF Procs

  <2>2. /\ pc[t] \in TxPhase /\ pc'[t] = "idle"
        /\ \A q \in Procs \ {t} : pc'[q] = pc[q] /\ at'[q] = at[q]
    BY <1>12, <2>1, Moved, Zenon DEF PrepareOwn, AddDep, Goto, TxPhase
  <2>3. UNCHANGED <<unpaired, closed, lost>>
    BY <1>12, Zenon DEF PrepareOwn, AddDep, stmtVars

  <2>4. \A q \in Users : pc'[q] = pc[q] /\ at'[q] = at[q]
    BY <2>1, <2>2, Zenon DEF Procs

  <2>5. PICK s : /\ txs' = txs \cup {s} /\ s.by = t
                 /\ \/ s.own = TRUE /\ dep' = dep
                    \/ s.own = FALSE /\ dep' = dep \cup {t}
    <3>1. PICK s : /\ txs' = txs \cup {s}
                   /\ \/ s = [by |-> t, ds |-> Len(made) + 1, own |-> TRUE] /\ dep' = dep
                      \/ s = [by |-> t, ds |-> at[t].ds, own |-> FALSE] /\ dep' = dep \cup {t}
      BY <1>12, Zenon DEF PrepareOwn, AddDep, stmtVars
    <3>2. ASSUME NEW d, NEW o PROVE LET z == [by |-> t, ds |-> d, own |-> o]
                                  IN  z.by = t /\ z.own = o
      OBVIOUS
    <3>3. QED
      BY <3>1, <3>2, Zenon
  <2>6. SelfDep' /\ UserDep'
    BY <2>1, <2>3, <2>4, <2>5, Zenon DEF Depends, SelfDep, UserDep, Removes
  <2>7. \A q \in Txers : \A x : ~Removes(q, x) /\ ~Removes(q, x)'
    <3>1. \A q \in Txers : pc[q] # "removeDep"
      BY <2>2, Zenon DEF Phases, TxPhase
    <3>2. QED
      BY <2>2, <3>1, Zenon DEF Removes, Procs
  <2>8. t \notin lost /\ \A q \in txs : q.by # t
    BY <2>2, Zenon DEF Depends, Bound
  <2>9. TxDep'
    <3>1. \A q \in Txers : q \in dep <=> Binds(q)
      BY <2>7, Zenon DEF Depends, TxDep
    <3>2. \A q \in Txers : q \in dep' <=> Binds(q)'
      BY <2>3, <2>5, <2>8, <3>1, Zenon DEF Binds
    <3>3. QED
      BY <2>7, <3>2, Zenon DEF TxDep
  <2>10. Bound'
    <3>1. \A q \in Txers : pc'[q] \in TxPhase => q # t /\ pc[q] \in TxPhase
      BY <2>2, Zenon DEF Procs, TxPhase
    <3>2. QED
      BY <2>3, <2>5, <2>7, <2>8, <3>1, Zenon DEF Depends, Bound
  <2>11. QED
    BY <2>1, <2>3, <2>5, <2>6, <2>9, <2>10, Zenon DEF Depends
<1>13. ASSUME NEW t \in Txers, CloseTxStmt(t)
       PROVE  Depends'
  <2>1. t \in Procs /\ t \notin Users /\ t # Self
    BY StmtAssumption, Zenon DEF Procs

  <2>2. PICK s \in txs :
          /\ txs' = txs \ {s}
          /\ Step(t, "end", IF s.own THEN "end" ELSE "removeDep",
                  Leaves(NoOne, IF s.own THEN NoOne ELSE s.by, "end"))
    BY <1>13, Zenon DEF CloseTxStmt
  <2>3. UNCHANGED <<dep, unpaired, closed, lost>>
    BY <1>13, Zenon DEF CloseTxStmt, stmtVars
  <2>4. /\ pc[t] = "end" /\ pc'[t] = IF s.own THEN "end" ELSE "removeDep"
        /\ at'[t].x = IF s.own THEN NoOne ELSE s.by
        /\ \A q \in Procs \ {t} : pc'[q] = pc[q] /\ at'[q] = at[q]
    BY <2>1, <2>2, Moved DEF Leaves
  <2>5. \A q \in Users : pc'[q] = pc[q] /\ at'[q] = at[q]
    BY <2>1, <2>4, Zenon DEF Procs
  <2>6. SelfDep' /\ UserDep'
    BY <2>3, <2>5, Zenon DEF Depends, SelfDep, UserDep, Removes
  <2>7. \A q \in Txers : /\ \A x : ~Removes(q, x) /\ (Removes(q, x)' => ~s.own /\ x = s.by)
                         /\ pc'[q] \notin TxPhase
    <3>1. \A q \in Txers \ {t} : pc[q] = "idle" /\ pc'[q] = "idle"
      BY <2>4, Zenon DEF Phases, EndPhase, Procs
    <3>2. QED
      BY <2>4, <3>1, Zenon DEF Removes, TxPhase
  <2>8. /\ \A q \in txs' : q.by # s.by /\ q \in txs
        /\ s.by \notin lost /\ s.by \in Txers
    BY <2>2, Zenon DEF Depends, Bound, Typed, TxTyped, TxStmts
  <2>9. TxDep'
    <3>1. \A q \in Txers : q \in dep <=> Binds(q)
      BY <2>7, Zenon DEF Depends, TxDep
    <3>2. \A q \in Txers : Binds(q) <=> Binds(q)' \/ (~s.own /\ q = s.by)
      BY <2>2, <2>3, Zenon DEF Binds
    <3>3. ~s.own => Removes(t, s.by)'
      BY <2>4, Zenon DEF Removes
    <3>4. QED
      BY <2>3, <2>7, <3>1, <3>2, <3>3 DEF TxDep
  <2>10. Bound'
    BY <2>3, <2>7, <2>8, Zenon DEF Depends, Bound
  <2>11. QED
    BY <2>3, <2>6, <2>9, <2>10, Zenon DEF Depends
<1>14. ASSUME NEW t \in Txers, AbandonTx(t)
       PROVE  Depends'
  <2>1. t \in Procs /\ t \notin Users /\ t # Self
    BY StmtAssumption, Zenon DEF Procs

  <2>2. /\ pc[t] = "idle" /\ pc'[t] = "mark"
        /\ \A q \in Procs \ {t} : pc'[q] = pc[q] /\ at'[q] = at[q]
    <3>1. Step(t, "idle", "mark", Uses(txConn, 0))
      BY <1>14, Zenon DEF AbandonTx
    <3>2. QED
      BY <2>1, <3>1, Moved, Zenon
  <2>3. /\ UNCHANGED <<dep, unpaired, closed>> /\ txs' = {}
        /\ lost' = lost \cup {s.by : s \in {s \in txs : ~s.own}}
    BY <1>14, Zenon DEF AbandonTx, stmtVars

  <2>4. \A q \in Users : pc'[q] = pc[q] /\ at'[q] = at[q]
    BY <2>1, <2>2, Zenon DEF Procs

  <2>5. SelfDep' /\ UserDep'
    BY <2>3, <2>4, Zenon DEF Depends, SelfDep, UserDep, Removes
  <2>6. \A q \in Txers : pc[q] = "idle" /\ pc'[q] \in {"idle", "mark"}
    BY <1>14, <2>2, Zenon DEF AbandonTx, Procs
  <2>7. \A q \in Txers : Binds(q)' <=> Binds(q)
    BY <2>3, Zenon DEF Binds
  <2>8. \A q \in Txers : \A x : ~Removes(q, x) /\ ~Removes(q, x)'
    BY <2>6, Zenon DEF Removes
  <2>9. TxDep'
    BY <2>3, <2>7, <2>8, Zenon DEF Depends, TxDep
  <2>10. Bound'
    BY <2>3, <2>6, <2>8, Zenon DEF Bound, TxPhase
  <2>11. QED
    BY <2>3, <2>5, <2>9, <2>10, Zenon DEF Depends
<1>15. ASSUME NEW p \in Procs, Shared(p)
       PROVE  Depends'
  BY <1>1, <1>2, <1>3, <1>8, <1>15, Zenon DEF Shared, Fails, Puts
<1>16. ASSUME NEW u \in Users, Exec(u) \/ RowsClose(u) \/ CloseLock(u) \/ UserStep(u)
       PROVE  Depends'
  BY <1>4, <1>5, <1>9, <1>10, <1>16, Zenon DEF UserStep, Ran
<1>17. ASSUME NEW t \in Txers, Begin(t) \/ StmtContext(t) \/ EndTx(t) \/ AbandonTx(t)
                                  \/ TxStep(t)
       PROVE  Depends'
  BY <1>6, <1>7, <1>11, <1>12, <1>13, <1>14, <1>17, Zenon DEF TxStep
<1>18. QED
  BY <1>15, <1>16, <1>17, Zenon DEF Next

-----------------------------------------------------------------------------
(* No driver statement is lost: it is closed, its connection is closed or   *)
(* being closed, or somebody is to close it.                                *)

Kept(d) ==
    \/ d \in shut \/ made[d] \in finalClosed \/ Lists(d) \/ OnPut(d) \/ Owns(d)
    \/ \E p \in Procs : pc[p] = "append" /\ at[p].ds = d
    \/ \E p \in Procs : Closes(p) /\ at[p].conn = made[d]
Accounted == \A d \in DOMAIN made : Kept(d)

\* While css is not empty, a dependency is left or somebody empties it.
Drains == {"dep"} \cup Finals
Drained == css # {} => dep # {} \/ \E p \in Procs : pc[p] \in Drains

Pruned == lastNumClosed <= numClosed

\* The places of those who list a driver statement or close a connection.
Taken == {"append", "mark", "close"}

\* All the other places.
LEMMA NotTaken ==
  /\ "idle" \notin Taken /\ "check" \notin Taken /\ "return" \notin Taken
  /\ "conn" \notin Taken /\ "lookup" \notin Taken /\ "prepare" \notin Taken
  /\ "use" \notin Taken /\ "rows" \notin Taken /\ "put" \notin Taken
  /\ "locked" \notin Taken /\ "unlock" \notin Taken /\ "removeDep" \notin Taken
  /\ "lockFinal" \notin Taken /\ "note" \notin Taken /\ "removeOpen" \notin Taken
  /\ "own" \notin Taken /\ "dep" \notin Taken /\ "end" \notin Taken
BY DEF Taken

\* Which actions take a driver statement from where it is.
Prunes == css' = {e \in css : e[1] \notin dbmuClosed}
Takes ==
    /\ shut \subseteq shut'
    /\ css \subseteq css' \/ Prunes \/ \E p \in Procs : NoteUnused(p)
    /\ txs \subseteq txs' \/ \E t \in Txers : CloseTxStmt(t) \/ AbandonTx(t)
    /\ \A p \in Procs : pc[p] = "append" =>
          ListStmt(p) \/ (pc'[p] = "append" /\ at'[p] = at[p])
    /\ \A p \in Procs : Closes(p) =>
          CloseConn(p) \/ (Closes(p)' /\ at'[p].conn = at[p].conn)

\* Every step of the code is of that kind.
LEMMA TakesStep ==
    ASSUME Threads, Next
    PROVE  Takes
<1>1. ASSUME NEW p \in Procs, ListStmt(p)
      PROVE  Takes
  <2>1. UNCHANGED <<shut, txs>> /\ css \subseteq css'
    BY <1>1, Zenon DEF ListStmt, txVars
  <2>2. Step(p, "append", IF p \in Txers THEN "dep" ELSE "use", at[p])
    BY <1>1, Zenon DEF ListStmt, Goto
  <2>3. \A q \in Procs \ {p} : pc'[q] = pc[q] /\ at'[q] = at[q]
    BY <2>2, Moved, Zenon
  <2>4. pc[p] = "append"
    BY <2>2, Zenon DEF Step
  <2>5. QED
    BY <1>1, <2>1, <2>3, <2>4, Zenon DEF Takes, Closes
<1>2. ASSUME NEW p \in Procs, CloseMark(p) \/ CloseConn(p)
      PROVE  Takes
  <2>1. UNCHANGED <<css, txs>> /\ shut \subseteq shut'
    BY <1>2, Zenon DEF CloseMark, CloseConn, stmtVars, txVars
  <2>2. PICK to : Step(p, pc[p], to, at[p]) /\ Closes(p) /\ (CloseConn(p) \/ to = "close")
    BY <1>2, Zenon DEF CloseMark, CloseConn, Goto, Step, Closes
  <2>3. /\ pc'[p] = to /\ (to # "idle" => at'[p] = at[p])
        /\ \A q \in Procs \ {p} : pc'[q] = pc[q] /\ at'[q] = at[q]
    BY <2>2, Moved, Zenon
  <2>4. QED
    BY <1>2, <2>1, <2>2, <2>3, Zenon DEF Takes, Closes
<1>3. ASSUME NEW t \in Txers, Begin(t)
      PROVE  Takes
  <2>1. UNCHANGED <<shut, css, txs, pc, at>>
    BY <1>3, Zenon DEF Begin, stmtVars
  <2>2. QED
    BY <2>1, Zenon DEF Takes, Closes
<1>4. ASSUME NEW p \in Procs, \/ Prepare(p) \/ Fails(p) \/ RemoveDep(p) \/ FinalLock(p)
                              \/ RemoveOpenStmt(p) \/ FinalUnlock(p)
      PROVE  Takes
  <2>1. UNCHANGED <<shut, css, txs>>
    BY <1>4, Zenon DEF Prepare, Fails, PrepareFails, RemoveDep, FinalLock, RemoveOpenStmt,
       FinalUnlock, stmtVars, connVars, txVars
  <2>2. PICK from, to, l : Step(p, from, to, l) /\ from \notin Taken
    <3>1. CASE Prepare(p)
      BY <3>1, NotTaken, Zenon DEF Prepare
    <3>2. CASE Fails(p)
      BY <3>2, NotTaken, Zenon DEF Fails, PrepareFails
    <3>3. CASE RemoveDep(p)
      BY <3>3, NotTaken, Zenon DEF RemoveDep, Goto
    <3>4. CASE FinalLock(p)
      BY <3>4, NotTaken, Zenon DEF FinalLock, Goto
    <3>5. CASE RemoveOpenStmt(p)
      BY <3>5, NotTaken, Zenon DEF RemoveOpenStmt
    <3>6. CASE FinalUnlock(p)
      BY <3>6, NotTaken, Zenon DEF FinalUnlock, Goto
    <3>7. QED
      BY <1>4, <3>1, <3>2, <3>3, <3>4, <3>5, <3>6, Zenon
  <2>3. \A q \in Procs : pc[q] \in Taken => pc'[q] = pc[q] /\ at'[q] = at[q]
    BY <2>2, Moved, Zenon
  <2>4. QED
    BY <2>1, <2>3, Zenon DEF Takes, Closes, Taken
<1>5. ASSUME NEW p \in Procs, Puts(p)
      PROVE  Takes
  <2>1. UNCHANGED <<css, txs>> /\ shut \subseteq shut'
    BY <1>5, Zenon DEF Puts, PutConn, stmtVars, txVars
  <2>2. PICK from, to, l : Step(p, from, to, l) /\ from \notin Taken
    BY <1>5, NotTaken, Zenon DEF Puts, Goto, PutConn
  <2>3. \A q \in Procs : pc[q] \in Taken => pc'[q] = pc[q] /\ at'[q] = at[q]
    BY <2>2, Moved, Zenon
  <2>4. QED
    BY <2>1, <2>3, Zenon DEF Takes, Closes, Taken
<1>6. ASSUME NEW p \in Procs, NoteUnused(p)
      PROVE  Takes
  <2>1. UNCHANGED txs /\ shut \subseteq shut' /\ \E q \in Procs : NoteUnused(q)
    BY <1>6, Zenon DEF NoteUnused, txVars
  <2>2. PICK from, to, l : Step(p, from, to, l) /\ from \notin Taken
    BY <1>6, NotTaken, Zenon DEF NoteUnused, Goto
  <2>3. \A q \in Procs : pc[q] \in Taken => pc'[q] = pc[q] /\ at'[q] = at[q]
    BY <2>2, Moved, Zenon
  <2>4. QED
    BY <2>1, <2>3, Zenon DEF Takes, Closes, Taken
<1>7. ASSUME NEW u \in Users, \/ Exec(u) \/ Conn(u) \/ ConnFails(u) \/ Lookup(u) \/ Ran(u)
                              \/ Queried(u) \/ Return(u) \/ RowsClose(u) \/ CloseLock(u)
                              \/ Close(u) \/ CloseUnlock(u)
      PROVE  Takes
  <2>1. UNCHANGED <<shut, css, txs>>
    BY <1>7, Zenon DEF Exec, Conn, ConnFails, Lookup, Ran, Executed, Queried, Return,
       RowsClose, CloseLock, Close, CloseUnlock, stmtVars, connVars, txVars
  <2>2. PICK from, to, l : Step(u, from, to, l) /\ from \notin Taken
    <3>1. CASE Exec(u)
      BY <3>1, NotTaken, Zenon DEF Exec, Goto, Executed
    <3>2. CASE Conn(u)
      BY <3>2, NotTaken, Zenon DEF Conn, Executed
    <3>3. CASE ConnFails(u)
      BY <3>3, NotTaken, Zenon DEF ConnFails, Goto, Executed
    <3>4. CASE Lookup(u)
      BY <3>4, NotTaken, Zenon DEF Lookup, Goto, Executed
    <3>5. CASE Ran(u)
      BY <3>5, NotTaken, Zenon DEF Ran, Executed
    <3>6. CASE Queried(u)
      BY <3>6, NotTaken, Zenon DEF Queried, Goto, Executed
    <3>7. CASE Return(u)
      BY <3>7, NotTaken, Zenon DEF Return, Goto, Executed
    <3>8. CASE RowsClose(u)
      BY <3>8, NotTaken, Zenon DEF RowsClose, Executed
    <3>9. CASE CloseLock(u)
      BY <3>9, NotTaken, Zenon DEF CloseLock, Goto, Executed
    <3>10. CASE Close(u)
      BY <3>10, NotTaken, Zenon DEF Close, Executed
    <3>11. CASE CloseUnlock(u)
      BY <3>11, NotTaken, Zenon DEF CloseUnlock, Goto, Executed
    <3>12. QED
      BY <1>7, <3>1, <3>2, <3>3, <3>4, <3>5, <3>6, <3>7, <3>8, <3>9, <3>10, <3>11, Zenon
  <2>3. \A q \in Procs : pc[q] \in Taken => pc'[q] = pc[q] /\ at'[q] = at[q]
    BY <2>2, Moved, Zenon DEF Procs
  <2>4. QED
    BY <2>1, <2>3, Zenon DEF Takes, Closes, Taken
<1>8. ASSUME NEW u \in Users, ConnStmt(u)
      PROVE  Takes
  <2>1. UNCHANGED <<shut, txs>> /\ (css' = css \/ Prunes)
    BY <1>8, Zenon DEF ConnStmt, removeClosedStmtLocked, Prunes, connVars, txVars
  <2>2. PICK from, to, l : Step(u, from, to, l) /\ from \notin Taken
    BY <1>8, NotTaken, Zenon DEF ConnStmt, Goto
  <2>3. \A q \in Procs : pc[q] \in Taken => pc'[q] = pc[q] /\ at'[q] = at[q]
    BY <2>2, Moved, Zenon DEF Procs
  <2>4. QED
    BY <2>1, <2>3, Zenon DEF Takes, Closes, Taken
<1>9. ASSUME NEW t \in Txers, StmtContext(t)
      PROVE  Takes
  <2>1. UNCHANGED <<shut, txs>> /\ (css' = css \/ Prunes)
    BY <1>9, Zenon DEF StmtContext, removeClosedStmtLocked, Prunes, connVars, txVars
  <2>2. PICK from, to, l : Step(t, from, to, l) /\ from \notin Taken
    BY <1>9, NotTaken, Zenon DEF StmtContext, Goto
  <2>3. \A q \in Procs : pc[q] \in Taken => pc'[q] = pc[q] /\ at'[q] = at[q]
    BY <2>2, Moved, Zenon DEF Procs
  <2>4. QED
    BY <2>1, <2>3, Zenon DEF Takes, Closes, Taken
<1>10. ASSUME NEW t \in Txers, \/ PrepareOwn(t) \/ PrepareOwnFails(t) \/ AddDep(t)
                               \/ EndTx(t) \/ ReleaseTx(t)
       PROVE  Takes
  <2>1. UNCHANGED <<shut, css>> /\ txs \subseteq txs'
    BY <1>10, Zenon DEF PrepareOwn, PrepareOwnFails, AddDep, EndTx, ReleaseTx, stmtVars, connVars,
       txVars
  <2>2. PICK from, to, l : Step(t, from, to, l) /\ from \notin Taken
    <3>1. CASE PrepareOwn(t)
      BY <3>1, NotTaken, Zenon DEF PrepareOwn, Goto
    <3>2. CASE PrepareOwnFails(t)
      BY <3>2, NotTaken, Zenon DEF PrepareOwnFails, Goto
    <3>3. CASE AddDep(t)
      BY <3>3, NotTaken, Zenon DEF AddDep, Goto
    <3>4. CASE EndTx(t)
      BY <3>4, NotTaken, Zenon DEF EndTx, Goto
    <3>5. CASE ReleaseTx(t)
      BY <3>5, NotTaken, Zenon DEF ReleaseTx
    <3>6. QED
      BY <1>10, <3>1, <3>2, <3>3, <3>4, <3>5, Zenon
  <2>3. \A q \in Procs : pc[q] \in Taken => pc'[q] = pc[q] /\ at'[q] = at[q]
    BY <2>2, Moved, Zenon DEF Procs
  <2>4. QED
    BY <2>1, <2>3, Zenon DEF Takes, Closes, Taken
<1>11. ASSUME NEW t \in Txers, CloseTxStmt(t) \/ AbandonTx(t)
       PROVE  Takes
  <2>1. UNCHANGED css /\ shut \subseteq shut' /\ \E q \in Txers : CloseTxStmt(q) \/ AbandonTx(q)
    BY <1>11, Zenon DEF CloseTxStmt, AbandonTx, stmtVars
  <2>2. PICK from, to, l : Step(t, from, to, l) /\ from \notin Taken
    BY <1>11, NotTaken, Zenon DEF CloseTxStmt, AbandonTx, Goto
  <2>3. \A q \in Procs : pc[q] \in Taken => pc'[q] = pc[q] /\ at'[q] = at[q]
    BY <2>2, Moved, Zenon DEF Procs
  <2>4. QED
    BY <2>1, <2>3, Zenon DEF Takes, Closes, Taken
<1>12. ASSUME NEW p \in Procs, Shared(p)
       PROVE  Takes
  BY <1>1, <1>2, <1>4, <1>5, <1>6, <1>12, Zenon DEF Shared, Fails, Puts
<1>13. ASSUME NEW u \in Users, Exec(u) \/ RowsClose(u) \/ CloseLock(u) \/ UserStep(u)
       PROVE  Takes
  BY <1>7, <1>8, <1>13, Zenon DEF UserStep, Ran
<1>14. ASSUME NEW t \in Txers, Begin(t) \/ StmtContext(t) \/ EndTx(t) \/ AbandonTx(t)
                                  \/ TxStep(t)
       PROVE  Takes
  BY <1>3, <1>9, <1>10, <1>11, <1>14, Zenon DEF TxStep
<1>15. QED
  BY <1>12, <1>13, <1>14, Zenon DEF Next

\* No step loses a driver statement.
LEMMA AccountedStep ==
    ASSUME Threads, Typed, Owned, Phases, Drivers, Accounted, Next
    PROVE  Accounted'
<1>1. Changes /\ Takes /\ \A d, c : IsOf(d, c) => NowOf(d, c)
  BY ChangesStep, TakesStep, MadeGrows, Zenon DEF NowOf, IsOf
<1>. SUFFICES ASSUME NEW d \in DOMAIN made' PROVE Kept(d)'
  BY DEF Accounted
<1>2. CASE d \notin DOMAIN made
  <2>1. ASSUME NEW p \in Procs, Prepare(p) PROVE Kept(d)'
    <3>1. Step(p, "prepare", "append", Uses(at[p].conn, Len(made) + 1))
      BY <2>1, Zenon DEF Prepare
    <3>2. pc'[p] = "append" /\ at'[p].ds = Len(made) + 1
      BY <3>1, Moved DEF Uses
    <3>3. d = Len(made) + 1
      <4>1. PICK c \in Conns : made' = Append(made, c)
        BY <2>1, ConnOfInUse, Zenon DEF Prepare, Step, Typed, ConnTyped
      <4>2. QED
        BY <1>2, <4>1 DEF Typed, DriverTyped
    <3>4. QED
      BY <3>2, <3>3, Zenon DEF Kept
  <2>2. ASSUME NEW t \in Txers, PrepareOwn(t) PROVE Kept(d)'
    <3>1. d = Len(made) + 1
      <4>1. PICK c \in Conns : made' = Append(made, c)
        BY <2>2, ConnOfInUse, Zenon DEF PrepareOwn, Goto, Step, ConnOf, Typed, ConnTyped, Procs
      <4>2. QED
        BY <1>2, <4>1 DEF Typed, DriverTyped
    <3>2. [by |-> t, ds |-> Len(made) + 1, own |-> TRUE] \in txs'
      BY <2>2, Zenon DEF PrepareOwn
    <3>3. Owns(d)'
      BY <3>1, <3>2, Zenon DEF Owns
    <3>4. QED
      BY <3>3, Zenon DEF Kept
  <2>3. QED
    BY <1>1, <1>2, <2>1, <2>2, Zenon DEF Changes
<1>3. CASE d \in DOMAIN made
  <2>1. made'[d] = made[d]
    BY <1>1, <1>3, Zenon DEF IsOf, NowOf
  <2>2. d \in shut \/ made[d] \in finalClosed => Kept(d)'
    BY <1>1, <2>1, FinalGrows, Zenon DEF Kept, Takes
  <2>3. ASSUME NEW p \in Procs, Closes(p), at[p].conn = made[d] PROVE Kept(d)'
    <3>1. CASE CloseConn(p)
      BY <2>1, <2>3, <3>1, Zenon DEF CloseConn, Kept
    <3>2. QED
      BY <1>1, <2>1, <2>3, <3>1, Zenon DEF Takes, Kept
  <2>4. ASSUME NEW p \in Procs, pc[p] = "append", at[p].ds = d PROVE Kept(d)'
    <3>1. CASE ListStmt(p)
      <4>1. <<ConnOf(p), d>> \in css'
        BY <2>4, <3>1, Zenon DEF ListStmt
      <4>2. QED
        BY <4>1, Zenon DEF Kept, Lists
    <3>2. QED
      BY <1>1, <2>4, <3>1, Zenon DEF Takes, Kept
  <2>5. CASE Lists(d)
    <3>1. PICK e \in css : e[2] = d /\ made[d] = e[1]
      BY <2>5, Zenon DEF Lists, Drivers, CssMade, IsOf
    <3>2. ASSUME NEW p \in Procs, NoteUnused(p), e \notin css' PROVE Kept(d)'
      <4>1. \/ onPut' = [onPut EXCEPT ![e[1]] = onPut[e[1]] \cup {e[2]}]
            \/ e[1] \in finalClosed /\ finalClosed' = finalClosed
            \/ d \in shut'
        BY <3>1, <3>2, Zenon DEF NoteUnused
      <4>2. CASE onPut' = [onPut EXCEPT ![e[1]] = onPut[e[1]] \cup {e[2]}]
        <5>1. e[1] \in Conns
          BY <3>1, Zenon DEF Typed, StmtTyped
        <5>2. d \in onPut'[e[1]]
          BY <3>1, <4>2, <5>1, Zenon DEF Typed, DriverTyped
        <5>3. QED
          BY <5>1, <5>2, Zenon DEF Kept, OnPut
      <4>3. QED
        BY <2>1, <3>1, <4>1, <4>2, Zenon DEF Kept
    <3>3. CASE Prunes /\ e \notin css'
      <4>1. e[1] \in dbmuClosed
        BY <3>1, <3>3, Zenon DEF Prunes
      <4>2. QED
        BY <2>2, <2>3, <3>1, <4>1, Zenon DEF Owned, HasCloser
    <3>4. CASE e \in css'
      BY <3>1, <3>4, Zenon DEF Kept, Lists
    <3>5. QED
      BY <1>1, <3>1, <3>2, <3>3, <3>4, Zenon DEF Takes
  <2>6. CASE OnPut(d)
    <3>1. PICK c \in Conns : d \in onPut[c]
      BY <2>6, Zenon DEF OnPut
    <3>2. ASSUME NEW x, onPut' = Set(onPut, x, {}), shut' = shut \cup onPut[x] PROVE Kept(d)'
      BY <3>1, <3>2, Zenon DEF Set, Kept, OnPut, Typed, DriverTyped
    <3>3. ASSUME NEW p \in Procs, Puts(p) PROVE Kept(d)'
      BY <3>2, <3>3, Zenon DEF Puts, PutConn
    <3>4. ASSUME NEW t \in Txers, AbandonTx(t) PROVE Kept(d)'
      BY <3>2, <3>4, Zenon DEF AbandonTx
    <3>5. ASSUME NEW p \in Procs, NoteUnused(p) PROVE OnPut(d)'
      <4>1. PICK e \in css :
              onPut' = onPut \/ onPut' = [onPut EXCEPT ![e[1]] = onPut[e[1]] \cup {e[2]}]
        BY <3>5, Zenon DEF NoteUnused
      <4>2. QED
        BY <3>1, <4>1, Zenon DEF OnPut, Typed, DriverTyped
    <3>6. CASE UNCHANGED onPut
      BY <3>1, <3>6, Zenon DEF Kept, OnPut
    <3>7. QED
      BY <1>1, <3>3, <3>4, <3>5, <3>6, Zenon DEF Changes, Kept
  <2>7. CASE Owns(d)
    <3>1. PICK s \in txs : s.own /\ s.ds = d
      BY <2>7, Zenon DEF Owns
    <3>2. ASSUME NEW t \in Txers, CloseTxStmt(t), s \notin txs' PROVE Kept(d)'
      <4>1. d \in shut'
        BY <3>1, <3>2, Zenon DEF CloseTxStmt
      <4>2. QED
        BY <4>1, Zenon DEF Kept
    <3>3. ASSUME NEW t \in Txers, AbandonTx(t) PROVE Kept(d)'
      <4>0. t \in Procs
        BY Zenon DEF Procs
      <4>1. pc'[t] = "mark" /\ at'[t].conn = txConn /\ t \in Procs
        <5>1. Step(t, "idle", "mark", Uses(txConn, 0))
          BY <3>3, Zenon DEF AbandonTx
        <5>2. Uses(txConn, 0).conn = txConn
          BY Zenon DEF Uses
        <5>3. pc'[t] = "mark" /\ at'[t] = Uses(txConn, 0)
          BY <4>0, <5>1, Moved
        <5>4. QED
          BY <4>0, <5>2, <5>3, Zenon
      <4>2. made[d] = txConn
        BY <3>1, Zenon DEF Drivers, TxsMade, IsOf
      <4>3. QED
        BY <2>1, <4>1, <4>2, Zenon DEF Kept, Closes
    <3>4. CASE s \in txs'
      BY <3>1, <3>4, Zenon DEF Kept, Owns
    <3>5. QED
      BY <1>1, <3>1, <3>2, <3>3, <3>4, Zenon DEF Takes
  <2>8. QED
    BY <1>3, <2>2, <2>3, <2>4, <2>5, <2>6, <2>7, Zenon DEF Accounted, Kept
<1>4. QED
  BY <1>2, <1>3, Zenon

\* The places from which a goroutine does not go on to empty css.
LEMMA NotDraining ==
  /\ "idle" \notin Drains /\ "check" \notin Drains /\ "return" \notin Drains
  /\ "conn" \notin Drains /\ "lookup" \notin Drains /\ "prepare" \notin Drains
  /\ "use" \notin Drains /\ "rows" \notin Drains /\ "put" \notin Drains
  /\ "mark" \notin Drains /\ "close" \notin Drains /\ "locked" \notin Drains
  /\ "unlock" \notin Drains /\ "own" \notin Drains /\ "end" \notin Drains
BY DEF Drains, Finals

\* Every step leaves somebody to empty css.
LEMMA DrainedStep ==
    ASSUME Threads, Calls, Depends, Drained, Next
    PROVE  Drained'
<1>0. ASSUME NEW p \in Procs, NEW from, NEW to, NEW l, Step(p, from, to, l),
             css' \subseteq css, dep \subseteq dep', from \notin Drains \/ to \in Drains
      PROVE  Drained'
  <2>1. \A q \in Procs : pc[q] \in Drains => pc'[q] \in Drains
    BY <1>0, Moved, Zenon
  <2>2. QED
    BY <1>0, <2>1, Zenon DEF Drained
<1>1. ASSUME NEW p \in Procs, ListStmt(p)
      PROVE  Drained'
  <2>1. pc[p] = "append" /\ pc'[p] = (IF p \in Txers THEN "dep" ELSE "use") /\ dep' = dep
    BY <1>1, Moved, Zenon DEF ListStmt, Goto
  <2>2. CASE p \in Txers
    BY <2>1, <2>2, Zenon DEF Drained, Drains
  <2>3. CASE p \in Users
    <3>1. Self \in dep
      BY <2>1, <2>3, Zenon DEF Calls, Running, Depends, SelfDep
    <3>2. QED
      BY <2>1, <3>1, Zenon DEF Drained
  <2>4. QED
    BY <2>2, <2>3, Zenon DEF Procs
<1>2. ASSUME NEW p \in Procs, RemoveDep(p)
      PROVE  Drained'
  <2>1. PICK to : /\ Step(p, "removeDep", to, at[p])
                  /\ dep \subseteq {at[p].x} => to = "lockFinal"
    BY <1>2, Zenon DEF RemoveDep, Goto
  <2>2. pc'[p] = to /\ dep' = dep \ {at[p].x}
    BY <1>2, <2>1, Moved, Zenon DEF RemoveDep
  <2>3. CASE dep \subseteq {at[p].x}
    BY <2>1, <2>2, <2>3, Zenon DEF Drained, Drains, Finals
  <2>4. CASE ~(dep \subseteq {at[p].x})
    BY <2>2, <2>4, Zenon DEF Drained
  <2>5. QED
    BY <2>3, <2>4, Zenon
<1>3. ASSUME NEW p \in Procs, FinalUnlock(p)
      PROVE  Drained'
  <2>1. css' = {}
    BY <1>3, Zenon DEF FinalUnlock
  <2>2. QED
    BY <2>1, Zenon DEF Drained
<1>4. ASSUME NEW t \in Txers, AddDep(t)
      PROVE  Drained'
  <2>1. t \in dep'
    BY <1>4, Zenon DEF AddDep
  <2>2. QED
    BY <2>1, Zenon DEF Drained
<1>5. ASSUME NEW t \in Txers, Begin(t)
      PROVE  Drained'
  <2>1. UNCHANGED <<css, dep, pc>>
    BY <1>5, Zenon DEF Begin, stmtVars
  <2>2. QED
    BY <2>1, Zenon DEF Drained
<1>6. ASSUME NEW p \in Procs, FinalLock(p) \/ NoteUnused(p) \/ RemoveOpenStmt(p)
      PROVE  Drained'
  <2>1. css' \subseteq css /\ dep \subseteq dep'
    BY <1>6, Zenon DEF FinalLock, NoteUnused, RemoveOpenStmt, stmtVars
  <2>2. PICK from, to, l : Step(p, from, to, l) /\ to \in Drains
    BY <1>6, Zenon DEF FinalLock, NoteUnused, RemoveOpenStmt, Goto, Drains, Finals
  <2>3. QED
    BY <1>0, <2>1, <2>2, Zenon
<1>7. ASSUME NEW p \in Procs, \/ Prepare(p) \/ Fails(p) \/ Puts(p) \/ CloseMark(p)
                              \/ CloseConn(p)
      PROVE  Drained'
  <2>1. css' \subseteq css /\ dep \subseteq dep'
    BY <1>7, Zenon DEF Prepare, Fails, PrepareFails, Puts, PutConn, CloseMark, CloseConn, stmtVars
  <2>2. PICK from, to, l : Step(p, from, to, l) /\ from \notin Drains
    <3>1. CASE Prepare(p)
      BY <3>1, NotDraining, Zenon DEF Prepare
    <3>2. CASE Fails(p)
      BY <3>2, NotDraining, Zenon DEF Fails, PrepareFails
    <3>3. CASE Puts(p)
      BY <3>3, NotDraining, Zenon DEF Puts, PutConn, Goto
    <3>4. CASE CloseMark(p)
      BY <3>4, NotDraining, Zenon DEF CloseMark, Goto
    <3>5. CASE CloseConn(p)
      BY <3>5, NotDraining, Zenon DEF CloseConn, Goto
    <3>6. QED
      BY <1>7, <3>1, <3>2, <3>3, <3>4, <3>5, Zenon
  <2>3. QED
    BY <1>0, <2>1, <2>2, Zenon DEF Procs
<1>8. ASSUME NEW u \in Users, \/ Exec(u) \/ ConnStmt(u) \/ Conn(u) \/ ConnFails(u)
                              \/ Lookup(u) \/ Ran(u) \/ Queried(u) \/ Return(u)
                              \/ RowsClose(u) \/ CloseLock(u) \/ Close(u) \/ CloseUnlock(u)
      PROVE  Drained'
  <2>1. css' \subseteq css /\ dep \subseteq dep'
    <3>1. CASE Exec(u) \/ ConnStmt(u) \/ Conn(u) \/ ConnFails(u) \/ Lookup(u)
      BY <3>1, Zenon DEF Exec, ConnStmt, removeClosedStmtLocked, Conn, ConnFails, Lookup, stmtVars
    <3>2. CASE Ran(u) \/ Queried(u) \/ Return(u) \/ RowsClose(u)
      BY <3>2, Zenon DEF Ran, Executed, Queried, Return, RowsClose, stmtVars
    <3>3. CASE CloseLock(u) \/ Close(u) \/ CloseUnlock(u)
      BY <3>3, Zenon DEF CloseLock, Close, CloseUnlock, stmtVars
    <3>4. QED
      BY <1>8, <3>1, <3>2, <3>3, Zenon
  <2>2. \E from, to, l : Step(u, from, to, l) /\ from \notin Drains
    <3>1. CASE Exec(u) \/ ConnStmt(u) \/ Conn(u) \/ ConnFails(u) \/ Lookup(u)
      <4>1. CASE Exec(u)
        BY <4>1, NotDraining, Zenon DEF Exec, Goto
      <4>2. CASE ConnStmt(u)
        BY <4>2, NotDraining, Zenon DEF ConnStmt
      <4>3. CASE Conn(u)
        BY <4>3, NotDraining, Zenon DEF Conn
      <4>4. CASE ConnFails(u)
        BY <4>4, NotDraining, Zenon DEF ConnFails, Goto
      <4>5. CASE Lookup(u)
        BY <4>5, NotDraining, Zenon DEF Lookup, Goto
      <4>6. QED
        BY <3>1, <4>1, <4>2, <4>3, <4>4, <4>5, Zenon
    <3>2. CASE Ran(u) \/ Queried(u) \/ Return(u) \/ RowsClose(u)
      <4>1. CASE Ran(u)
        BY <4>1, NotDraining, Zenon DEF Ran, Executed
      <4>2. CASE Queried(u)
        BY <4>2, NotDraining, Zenon DEF Executed, Queried, Goto
      <4>3. CASE Return(u)
        BY <4>3, NotDraining, Zenon DEF Executed, Return, Goto
      <4>4. CASE RowsClose(u)
        BY <4>4, NotDraining, Zenon DEF Executed, RowsClose
      <4>5. QED
        BY <3>2, <4>1, <4>2, <4>3, <4>4, Zenon
    <3>3. CASE CloseLock(u) \/ Close(u) \/ CloseUnlock(u)
      BY <3>3, NotDraining, Zenon DEF CloseLock, Close, CloseUnlock, Goto
    <3>4. QED
      BY <1>8, <3>1, <3>2, <3>3, Zenon
  <2>3. QED
    BY <1>0, <2>1, <2>2, Zenon DEF Procs
<1>9. ASSUME NEW t \in Txers, \/ StmtContext(t) \/ PrepareOwn(t) \/ PrepareOwnFails(t)
                              \/ EndTx(t) \/ CloseTxStmt(t) \/ AbandonTx(t) \/ ReleaseTx(t)
      PROVE  Drained'
  <2>1. css' \subseteq css /\ dep \subseteq dep'
    BY <1>9, Zenon DEF StmtContext, removeClosedStmtLocked, PrepareOwn, PrepareOwnFails, EndTx,
       CloseTxStmt, AbandonTx, ReleaseTx, stmtVars
  <2>2. PICK from, to, l : Step(t, from, to, l) /\ from \notin Drains
    <3>1. CASE StmtContext(t)
      BY <3>1, NotDraining, Zenon DEF StmtContext, Goto
    <3>2. CASE PrepareOwn(t)
      BY <3>2, NotDraining, Zenon DEF PrepareOwn, Goto
    <3>3. CASE PrepareOwnFails(t)
      BY <3>3, NotDraining, Zenon DEF PrepareOwnFails, Goto
    <3>4. CASE EndTx(t)
      BY <3>4, NotDraining, Zenon DEF EndTx, Goto
    <3>5. CASE CloseTxStmt(t)
      BY <3>5, NotDraining, Zenon DEF CloseTxStmt
    <3>6. CASE AbandonTx(t)
      BY <3>6, NotDraining, Zenon DEF AbandonTx
    <3>7. CASE ReleaseTx(t)
      BY <3>7, NotDraining, Zenon DEF ReleaseTx
    <3>8. QED
      BY <1>9, <3>1, <3>2, <3>3, <3>4, <3>5, <3>6, <3>7, Zenon
  <2>3. QED
    BY <1>0, <2>1, <2>2, Zenon DEF Procs
<1>10. ASSUME NEW p \in Procs, Shared(p)
       PROVE  Drained'
  BY <1>1, <1>2, <1>3, <1>6, <1>7, <1>10, Zenon DEF Shared, Fails, Puts
<1>11. ASSUME NEW u \in Users, Exec(u) \/ RowsClose(u) \/ CloseLock(u) \/ UserStep(u)
       PROVE  Drained'
  BY <1>8, <1>11, Zenon DEF UserStep, Ran
<1>12. ASSUME NEW t \in Txers, Begin(t) \/ StmtContext(t) \/ EndTx(t) \/ AbandonTx(t)
                                  \/ TxStep(t)
       PROVE  Drained'
  BY <1>4, <1>5, <1>9, <1>12, Zenon DEF TxStep
<1>13. QED
  BY <1>10, <1>11, <1>12, Zenon DEF Next

\* css is pruned with the number of closed connections at the time.
LEMMA PrunedStep ==
    ASSUME Typed, Pruned, Next
    PROVE  Pruned'
<1>1. ASSUME NEW u \in Users, ConnStmt(u)
      PROVE  Pruned'
  <2>1. numClosed' = numClosed /\ (lastNumClosed' = lastNumClosed \/ lastNumClosed' = numClosed)
    BY <1>1, Zenon DEF ConnStmt, removeClosedStmtLocked, connVars
  <2>2. QED
    BY <2>1 DEF Pruned, Typed, ConnTyped, StmtTyped
<1>2. ASSUME NEW t \in Txers, StmtContext(t)
      PROVE  Pruned'
  <2>1. numClosed' = numClosed /\ (lastNumClosed' = lastNumClosed \/ lastNumClosed' = numClosed)
    BY <1>2, Zenon DEF StmtContext, removeClosedStmtLocked, connVars
  <2>2. QED
    BY <2>1 DEF Pruned, Typed, ConnTyped, StmtTyped
<1>3. ASSUME NEW p \in Procs, CloseConn(p)
      PROVE  Pruned'
  <2>1. numClosed' = numClosed + 1 /\ lastNumClosed' = lastNumClosed
    BY <1>3, Zenon DEF CloseConn, stmtVars
  <2>2. QED
    BY <2>1 DEF Pruned, Typed, ConnTyped, StmtTyped
<1>4. ASSUME NEW p \in Procs, \/ Prepare(p) \/ Fails(p) \/ ListStmt(p) \/ Puts(p)
                              \/ CloseMark(p) \/ RemoveDep(p) \/ FinalLock(p)
                              \/ NoteUnused(p) \/ RemoveOpenStmt(p) \/ FinalUnlock(p)
      PROVE  Pruned'
  <2>1. UNCHANGED <<numClosed, lastNumClosed>>
    BY <1>4, Zenon DEF Prepare, Fails, PrepareFails, ListStmt, Puts, PutConn, CloseMark,
       RemoveDep, FinalLock, NoteUnused, RemoveOpenStmt, FinalUnlock, stmtVars, connVars
  <2>2. QED
    BY <2>1, Zenon DEF Pruned
<1>5. ASSUME NEW u \in Users, \/ Exec(u) \/ Conn(u) \/ ConnFails(u) \/ Lookup(u) \/ Ran(u)
                              \/ Queried(u) \/ Return(u) \/ RowsClose(u) \/ CloseLock(u)
                              \/ Close(u) \/ CloseUnlock(u)
      PROVE  Pruned'
  <2>1. UNCHANGED <<numClosed, lastNumClosed>>
    BY <1>5, Zenon DEF Exec, Conn, ConnFails, Lookup, Ran, Executed, Queried, Return,
       RowsClose, CloseLock, Close, CloseUnlock, stmtVars, connVars
  <2>2. QED
    BY <2>1, Zenon DEF Pruned
<1>6. ASSUME NEW t \in Txers, \/ Begin(t) \/ PrepareOwn(t) \/ PrepareOwnFails(t)
                              \/ AddDep(t) \/ EndTx(t) \/ CloseTxStmt(t) \/ AbandonTx(t)
                              \/ ReleaseTx(t)
      PROVE  Pruned'
  <2>1. UNCHANGED <<numClosed, lastNumClosed>>
    BY <1>6, Zenon DEF Begin, PrepareOwn, PrepareOwnFails, AddDep, EndTx, CloseTxStmt,
       AbandonTx, ReleaseTx, stmtVars, connVars
  <2>2. QED
    BY <2>1, Zenon DEF Pruned
<1>7. ASSUME NEW p \in Procs, Shared(p)
      PROVE  Pruned'
  BY <1>3, <1>4, <1>7, Zenon DEF Shared, Fails, Puts
<1>8. ASSUME NEW u \in Users, Exec(u) \/ RowsClose(u) \/ CloseLock(u) \/ UserStep(u)
      PROVE  Pruned'
  BY <1>1, <1>5, <1>8, Zenon DEF UserStep, Ran
<1>9. ASSUME NEW t \in Txers, Begin(t) \/ StmtContext(t) \/ EndTx(t) \/ AbandonTx(t)
                                 \/ TxStep(t)
      PROVE  Pruned'
  BY <1>2, <1>6, <1>9, Zenon DEF TxStep
<1>10. QED
  BY <1>7, <1>8, <1>9, Zenon DEF Next

-----------------------------------------------------------------------------
(* The inductive invariant, and what follows from it *)

IInv ==
    /\ Threads /\ Typed /\ Owned /\ Phases /\ Drivers /\ OnePlace /\ Calls /\ Depends
    /\ Accounted /\ Drained /\ Pruned

\* The invariant holds after DB.Prepare.
LEMMA InitIInv == Init => IInv
<1>. SUFFICES ASSUME Init PROVE IInv
  BY Zenon
<1>1. /\ \A p \in Procs : pc[p] = "idle" /\ at[p] = Nothing
      /\ pc = [p \in Procs |-> "idle"] /\ at = [p \in Procs |-> Nothing]
  BY Zenon DEF Init
<1>2. Threads
  <2>1. Nothing \in Locals
    BY Zenon DEF Nothing, Uses, NoEntry, Locals, Thens
  <2>2. "idle" \in UserPlaces /\ "idle" \in TxPlaces /\ "idle" \notin Leaving \cup Ending
    BY Zenon DEF UserPlaces, TxPlaces, Leaving, Ending, Finals
  <2>3. \A p \in Procs : At(p, pc[p], at[p])
    BY <1>1, <2>2, Zenon DEF At, UserAt, TxAt
  <2>4. QED
    BY <1>1, <2>1, <2>2, <2>3, Zenon DEF Threads
<1>3. Typed
  <2>1. StmtTyped
    <3>1. css = {<<First, 1>>} /\ mu = NoOne /\ lastNumClosed = 0
      BY Zenon DEF Init
    <3>2. closed \in BOOLEAN /\ unpaired \in BOOLEAN
      BY Zenon DEF Init
    <3>3. css \subseteq Conns \X Nat
      BY <3>1, StmtAssumption
    <3>4. QED
      BY <3>1, <3>2, <3>3, Zenon DEF StmtTyped
  <2>2. ConnTyped
    BY Zenon DEF Init, ConnTyped
  <2>3. DriverTyped
    BY StmtAssumption DEF Init, DriverTyped
  <2>4. TxTyped
    BY Zenon DEF Init, TxTyped
  <2>5. QED
    BY <2>1, <2>2, <2>3, <2>4, Zenon DEF Typed
<1>4. \A p \in Procs : ~Holds(p) /\ ~Closes(p)
  BY <1>1, Zenon DEF Holds, Closes, HoldPlaces
<1>5. Owned
  <2>1. Counted
    BY FS_EmptySet, Zenon DEF Counted, Init
  <2>2. QED
    BY <1>4, <2>1, Zenon DEF Init, Owned, Held, HeldOnce, HasHolder, Closing, ClosedOnce,
       HasCloser, Apart
<1>6. Phases
  BY <1>1, Zenon DEF Init, Phases, TxPhase, EndPhase, Ending, Finals, Procs
<1>7. made = <<First>> /\ DOMAIN made = {1} /\ made[1] = First
  BY DEF Init
<1>8. \A p \in Procs : pc[p] \notin Working
  BY <1>1, Zenon DEF Working
<1>9. Drivers
  <2>1. CssMade /\ WorkMade
    BY <1>7, <1>8 DEF Init, CssMade, WorkMade, IsOf
  <2>2. OpenMade
    BY <1>7, Zenon DEF Init, OpenMade, IsOf
  <2>3. TxsMade /\ PutMade /\ shut = {}
    BY Zenon DEF Init, TxsMade, PutMade
  <2>4. QED
    BY <2>1, <2>2, <2>3, Zenon DEF Drivers
<1>10. OnePlace
  BY <1>8, Zenon DEF Init, OnePlace, NewApart, NewOnce, OwnApart, OwnOnce, OwnUnbound, CssApart,
     NeededOpen, OnPut, Working
<1>11. Calls
  BY <1>1, Zenon DEF Init, Calls, InCall, InClose, Running, Leaving, Ending, Finals, Procs
<1>12. Depends
  <2>1. \A p \in Procs : \A x : ~Removes(p, x)
    BY <1>1, Zenon DEF Removes
  <2>2. \A u \in Users : ~HasRows(pc[u], at[u]) /\ u \in Procs /\ u # Self
    BY <1>1, StmtAssumption, Zenon DEF HasRows, Leaving, Procs
  <2>3. \A t \in Txers : t \in Procs /\ t # Self /\ pc[t] \notin TxPhase
    BY <1>1, StmtAssumption, Zenon DEF Procs, TxPhase
  <2>4. SelfDep /\ UserDep
    BY <2>1, <2>2, Zenon DEF Init, SelfDep, UserDep
  <2>5. TxDep /\ Bound
    BY <2>1, <2>3, Zenon DEF Init, TxDep, Bound, Binds
  <2>6. QED
    BY <2>4, <2>5, Zenon DEF Init, Depends
<1>13. Accounted
  BY <1>7, Zenon DEF Init, Accounted, Kept, Lists
<1>14. Drained /\ Pruned
  BY DEF Init, Drained, Pruned
<1>15. QED
  BY <1>2, <1>3, <1>5, <1>6, <1>9, <1>10, <1>11, <1>12, <1>13, <1>14, Zenon DEF IInv

\* Every step keeps it.
LEMMA StepIInv == IInv /\ [Next]_vars => IInv'
<1>. SUFFICES ASSUME IInv, [Next]_vars PROVE IInv'
  BY Zenon
<1>. USE DEF IInv
<1>1. CASE Next
  <2>1. Threads' /\ Typed' /\ Owned' /\ Phases' /\ Drivers'
    BY <1>1, ThreadsStep, TypedStep, OwnedStep, PhasesStep, DriversStep, Zenon
  <2>2. OnePlace' /\ Calls' /\ Depends'
    BY <1>1, <2>1, OnePlaceStep, CallsStep, DependsStep, Zenon
  <2>3. Accounted' /\ Drained' /\ Pruned'
    BY <1>1, AccountedStep, DrainedStep, PrunedStep, Zenon
  <2>4. QED
    BY <2>1, <2>2, <2>3, Zenon
<1>2. CASE UNCHANGED vars
  <2>1. /\ UNCHANGED <<readers, writer, mu, closed, css, lastNumClosed, dep, unpaired>>
        /\ UNCHANGED <<numClosed, free, inUse, dbmuClosed, finalClosed, lock, openStmt, onPut>>
        /\ UNCHANGED <<made, shut, txConn, txs, lost, pc, at>>
    BY <1>2, Zenon DEF vars, stmtVars, connVars, txVars
  <2>2. Threads' /\ Typed' /\ Phases'
    BY <2>1, Zenon DEF Threads, Typed, StmtTyped, ConnTyped, DriverTyped, TxTyped, Phases
  <2>3. Owned'
    <3>1. UNCHANGED owned /\ \A p \in Procs : Sits(p)
      BY <2>1, Zenon DEF owned, Sits, Holds, Closes
    <3>2. QED
      BY <3>1, Unowned, Zenon
  <2>4. Drivers'
    BY <2>1, Zenon DEF Drivers, CssMade, WorkMade, TxsMade, OpenMade, PutMade, IsOf, ConnOf
  <2>5. OnePlace'
    BY <2>1, Zenon DEF OnePlace, NewApart, NewOnce, OwnApart, OwnOnce, OwnUnbound, CssApart,
       NeededOpen, OnPut, Lists, Owns
  <2>6. Calls' /\ Depends'
    BY <2>1, Zenon DEF Calls, Depends, SelfDep, UserDep, TxDep, Bound, Binds, Removes
  <2>7. Accounted' /\ Drained' /\ Pruned'
    BY <2>1, Zenon DEF Accounted, Kept, Lists, OnPut, Owns, Closes, Drained, Pruned
  <2>8. QED
    BY <2>2, <2>3, <2>4, <2>5, <2>6, <2>7, Zenon
<1>3. QED
  BY <1>1, <1>2, Zenon

\* The invariant gives the types of the variables.
LEMMA IInvTypeOK == IInv => TypeOK
<1>. SUFFICES ASSUME IInv PROVE TypeOK
  BY Zenon
<1>1. readers \subseteq Users /\ writer \subseteq Users
  BY Zenon DEF IInv, Calls
<1>2. Cardinality(writer) <= 1
  <2>1. CASE writer = {}
    BY <2>1, FS_EmptySet
  <2>2. ASSUME NEW u \in Users, writer = {u} PROVE Cardinality(writer) <= 1
    BY <2>2, FS_Singleton
  <2>3. QED
    BY <2>1, <2>2, Zenon DEF IInv, Calls
<1>3. css \subseteq Conns \X DOMAIN made
  BY Zenon DEF IInv, Typed, StmtTyped, Drivers, CssMade, IsOf
<1>4. /\ mu \in Procs \cup {NoOne} /\ lock \in [Conns -> Procs \cup {NoOne}]
      /\ closed \in BOOLEAN /\ unpaired \in BOOLEAN /\ lost \subseteq Txers
      /\ dep \subseteq Procs \cup {Self}
  BY Zenon DEF IInv, Typed, StmtTyped, ConnTyped, TxTyped, Depends
<1>5. lastNumClosed <= numClosed /\ numClosed <= Cardinality(Conns)
  <2>1. finalClosed \subseteq Conns /\ numClosed = Cardinality(finalClosed)
    BY Zenon DEF IInv, Typed, ConnTyped, Owned, Counted
  <2>2. Cardinality(finalClosed) <= Cardinality(Conns)
    BY <2>1, StmtAssumption, FS_Subset, Zenon
  <2>3. QED
    BY <2>1, <2>2, Zenon DEF IInv, Pruned
<1>6. /\ free \cap inUse = {} /\ free \cup inUse \subseteq Conns \ dbmuClosed
      /\ finalClosed \subseteq dbmuClosed /\ dbmuClosed \subseteq Conns
  BY Zenon DEF IInv, Owned, Apart, Typed, ConnTyped
<1>7. shut \cup UNION {openStmt[c] \cup onPut[c] : c \in Conns} \subseteq DOMAIN made
  BY DEF IInv, Drivers, OpenMade, PutMade, IsOf
<1>8. txConn \in inUse \cup {NoOne}
  BY Zenon DEF IInv, Owned, Held
<1>9. QED
  BY <1>1, <1>2, <1>3, <1>4, <1>5, <1>6, <1>7, <1>8, Zenon DEF TypeOK

\* NeededIsOpen, for any number of goroutines and connections: while the user
\* closes the statement (Stmt.Close, finalClose), connections go bad and are
\* closed, and putConn runs what finalClose left in onPut, no driver statement
\* is closed that a call runs, Rows read from or a transaction has bound.
THEOREM OpenWhileNeeded == Spec => []NeededIsOpen
<1>1. IInv => NeededIsOpen
  <2>. SUFFICES ASSUME IInv PROVE Needed \cap shut = {}
    BY IInvTypeOK, Zenon DEF NeededIsOpen
  <2>1. QED
    BY Zenon DEF IInv, OnePlace, NeededOpen, Needed
<1>2. QED
  BY <1>1, InitIInv, StepIInv, PTL DEF Spec

\* NothingLeftOpen: addDep and removeDep are paired (removeDep never panics),
\* and when the closed statement is used by nobody any more, every driver
\* statement prepared for it is closed or on a closed connection, unless a
\* transaction ended with ErrBadConn and left its dependency behind.
THEOREM AllClosedAtTheEnd == Spec => []NothingLeftOpen
<1>1. IInv => NothingLeftOpen
  <2>. SUFFICES ASSUME IInv, closed, txConn = NoOne, \A p \in Procs : pc[p] = "idle"
                PROVE  /\ dep = lost /\ ~unpaired
                       /\ lost = {} =>
                            \A d \in DOMAIN made : d \in shut \/ made[d] \in finalClosed
    BY Zenon DEF NothingLeftOpen
  <2>1. \A p \in Procs : \A x : ~Removes(p, x)
    BY Zenon DEF Removes
  <2>2. txs = {}
    BY Zenon DEF IInv, Phases
  <2>3. Self \notin dep
    BY <2>1, Zenon DEF IInv, Depends, SelfDep, Procs
  <2>4. \A u \in Users : u \notin dep
    BY Zenon DEF IInv, Depends, UserDep, HasRows, Leaving, Procs
  <2>5. \A t \in Txers : t \in dep <=> t \in lost
    BY <2>1, <2>2, Zenon DEF IInv, Depends, TxDep, Binds, Procs
  <2>6. dep = lost /\ ~unpaired
    BY <2>3, <2>4, <2>5, Zenon DEF IInv, Depends, Typed, TxTyped, Procs
  <2>7. ASSUME lost = {}, NEW d \in DOMAIN made
        PROVE  d \in shut \/ made[d] \in finalClosed
    <3>1. css = {}
      BY <2>6, <2>7, Zenon DEF IInv, Drained, Drains, Finals
    <3>2. inUse = {}
      BY StmtAssumption, Zenon DEF IInv, Owned, HasHolder, Holds, HoldPlaces, Typed, ConnTyped
    <3>3. ~Lists(d) /\ ~OnPut(d) /\ ~Owns(d)
      BY <2>2, <3>1, <3>2, Zenon DEF IInv, Lists, OnPut, Owns, Drivers, PutMade
    <3>4. QED
      BY <3>3, Zenon DEF IInv, Accounted, Kept, Closes
  <2>8. QED
    BY <2>6, <2>7, Zenon
<1>2. QED
  BY <1>1, InitIInv, StepIInv, PTL DEF Spec
=============================================================================
