---------------------------- MODULE SqlPoolProofs ----------------------------
(***************************************************************************)
(* Proofs about the connection pool of database/sql, for any finite set of *)
(* clients and any set of connections, settings of the idle connections    *)
(* and durations: what numOpen has to do with the limit and with those who *)
(* wait for a connection.                                                  *)
(***************************************************************************)
EXTENDS SqlPool, FiniteSetTheorems, TLAPS

\* The arguments that make a limit.
Limits == {InitMaxOpen} \cup MaxOpens

\* The program always has a limit.
Limited == IsFiniteSet(Clients) /\ Limits \subseteq Nat \ {0}

\* The program changes the limit to one value at most, which does not raise it.
NotRaised == \A m, n \in MaxOpens : m = n /\ m <= InitMaxOpen

\* No more connections are open or about to be opened than the largest limit
\* that the program has set.
NeverOverLimit == \E limit \in Limits : numOpen <= limit

\* What the count is compared with.
Counts ==
    /\ numOpen \in Int /\ maxOpen \in Limits
    /\ connRequests \subseteq Clients /\ (closed => connRequests = {})
    /\ NeverOverLimit

\* Nobody waits, or the pool is open and waiting requests are finitely many.
LEMMA SomeWait ==
  ASSUME Limited, NEW S \in SUBSET Clients
  PROVE  Cardinality(S) \in Nat /\ (S # {} => Cardinality(S) > 0)
<1>1. IsFiniteSet(S)
  BY FS_Subset, Zenon DEF Limited
<1>2. QED
  BY <1>1, FS_CardinalityType, FS_EmptySet

\* maybeOpenNewConnections never goes over the limit, and it gives the slots
\* that are free to those who wait.
LEMMA Passed ==
  ASSUME Limited, Counts, NEW n \in Int, NEW reqs \in SUBSET Clients,
         closed => reqs = {}, n <= numOpen, maybeOpenNewConnections(n, reqs)
  PROVE  /\ numOpen' \in Int /\ numOpen' >= n
         /\ NeverOverLimit'
         /\ reqs # {} => numOpen' > n \/ n >= maxOpen
         /\ reqs = {} => numOpen' = n
<1> DEFINE k == Cardinality(reqs)
<1>1. /\ k \in Nat /\ (reqs # {} => k > 0) /\ (reqs = {} => k = 0)
      /\ maxOpen \in Nat /\ maxOpen > 0 /\ maxOpen \in Limits
  BY SomeWait, FS_EmptySet DEF Limited, Counts
<1>2. numOpen' = n + (IF Least(k, maxOpen - n) > 0 THEN Least(k, maxOpen - n) ELSE 0)
  <2>1. closed => ~(Least(k, maxOpen - n) > 0)
    BY <1>1 DEF Least
  <2>2. QED
    BY <1>1, <2>1 DEF maybeOpenNewConnections, Least
<1> HIDE DEF k
<1>3. CASE Least(k, maxOpen - n) > 0
  BY <1>1, <1>2, <1>3 DEF Least, NeverOverLimit
<1>4. CASE ~(Least(k, maxOpen - n) > 0)
  <2>1. numOpen' = n /\ n \in Int /\ (k = 0 \/ n >= maxOpen)
    BY <1>1, <1>2, <1>4 DEF Least
  <2>2. PICK limit \in Limits : numOpen <= limit
    BY Zenon DEF Counts, NeverOverLimit
  <2>3. numOpen' <= limit
    BY <2>1, <2>2 DEF Counts, Limited
  <2>4. QED
    BY <1>1, <2>1, <2>3 DEF NeverOverLimit
<1>5. QED
  BY <1>3, <1>4, Zenon

(***************************************************************************)
(* The three kinds of steps.  Most leave the count, the limit and the      *)
(* requests alone, or answer or withdraw a request.                        *)
(***************************************************************************)
Fewer ==
    /\ connRequests' \subseteq connRequests
    /\ UNCHANGED <<closed, numOpen, maxOpen>>

\* Others give up a connection, or the attempt to open one, and pass the slot
\* on to those who still wait.
Passes ==
    /\ connRequests' \subseteq connRequests
    /\ \E n \in {numOpen - 1, numOpen} : maybeOpenNewConnections(n, connRequests')
    /\ UNCHANGED <<closed, maxOpen>>

\* The rest are a new request, a new connection, a connection that nobody may
\* have, a new limit and the end.
Begins == \E p \in Clients : ConnRequest(p) \/ ConnOpen(p)
Rest == Begins \/ OpenerClosed \/ OpenerRefused \/ (\E n \in MaxOpens : SetMaxOpenConns(n)) \/ Close

\* There is no other step.
LEMMA Kinds ==
  ASSUME [Next]_vars
  PROVE  Fewer \/ Passes \/ Rest
<1>1. ASSUME NEW p \in Clients, Conn(p)
      PROVE  Fewer \/ Rest
  <2>1. CASE ConnFails(p)
    BY <2>1, Zenon DEF ConnFails, pool, settings, Fewer
  <2>2. CASE ConnCached(p)
    BY <2>2, Zenon DEF ConnCached, settings, Fewer
  <2>3. QED
    BY <1>1, <2>1, <2>2, Zenon DEF Conn, Rest, Begins
<1>2. ASSUME NEW p \in Clients, Put(p)
      PROVE  Fewer \/ Passes
  <2>1. ASSUME NEW failed \in BOOLEAN, PutBad(p, failed)
        PROVE  Passes
    BY <2>1, Zenon DEF PutBad, settings, Passes
  <2>2. CASE PutToRequest(p)
    BY <2>2, Zenon DEF PutToRequest, Deliver, settings, Fewer
  <2>3. CASE PutToFree(p)
    BY <2>3, Zenon DEF PutToFree, settings, Fewer
  <2>4. CASE PutRefused(p)
    BY <2>4, Zenon DEF PutRefused, pool, settings, Fewer
  <2>5. QED
    BY <1>2, <2>1, <2>2, <2>3, <2>4, Zenon DEF Put
<1>3. ASSUME NEW p \in Clients, Wait(p) \/ WaitCancel(p)
      PROVE  Fewer
  <2>1. CASE ReceiveConn(p)
    BY <2>1, Zenon DEF ReceiveConn, pool, settings, Fewer
  <2>2. CASE WaitDelete(p)
    BY <2>2, Zenon DEF WaitDelete, settings, Fewer
  <2>3. CASE WaitDrain(p)
    BY <2>3, Zenon DEF WaitDrain, pool, settings, Fewer
  <2>4. ASSUME NEW bad \in BOOLEAN, ReceiveErr(p, bad)
        PROVE  Fewer
    BY <2>4, Zenon DEF ReceiveErr, pool, settings, Fewer
  <2>5. CASE WaitCancel(p)
    BY <2>5, Zenon DEF WaitCancel, pool, settings, Fewer
  <2>6. QED
    BY <1>3, <2>1, <2>2, <2>3, <2>4, <2>5, Zenon DEF Wait
<1>4. ASSUME NEW p \in Clients, Driver(p)
      PROVE  Fewer \/ Passes
  <2>1. CASE ConnectOk(p)
    BY <2>1, Zenon DEF ConnectOk, pool, settings, Fewer
  <2>2. ASSUME NEW bad \in BOOLEAN, ConnectFails(p, bad)
        PROVE  Passes
    BY <2>2, Zenon DEF ConnectFails, settings, Passes
  <2>3. ASSUME NEW bad \in BOOLEAN, ResetSession(p, bad)
        PROVE  Fewer
    BY <2>3, Zenon DEF ResetSession, pool, settings, Fewer
  <2>4. QED
    BY <1>4, <2>1, <2>2, <2>3, Zenon DEF Driver
<1>5. ASSUME NEW p \in Procs, DriverConnClose(p)
      PROVE  Fewer \/ Passes
  <2>1. CASE CloseMark(p) \/ CloseDep(p) \/ CloseCi(p)
    BY <2>1, Zenon DEF CloseMark, CloseDep, CloseCi, pool, settings, Fewer
  <2>2. CASE CloseCount(p)
    BY <2>2, Zenon DEF CloseCount, settings, Passes
  <2>3. QED
    BY <1>5, <2>1, <2>2, Zenon DEF DriverConnClose
<1>6. ASSUME Opener
      PROVE  Fewer \/ Passes \/ Rest
  <2>1. CASE OpenerTake \/ OpenerExit \/ OpenerToFree
    BY <2>1, Zenon DEF OpenerTake, OpenerExit, OpenerToFree, pool, settings, Fewer
  <2>2. CASE OpenerToRequest
    BY <2>2, Zenon DEF OpenerToRequest, Deliver, settings, Fewer
  <2>3. CASE OpenerFails
    <3>1. connRequests' \subseteq connRequests
      BY <2>3, Zenon DEF OpenerFails, Deliver
    <3>2. QED
      BY <2>3, <3>1, Zenon DEF OpenerFails, settings, Passes
  <2>4. QED
    BY <1>6, <2>1, <2>2, <2>3, Zenon DEF Opener, Rest
<1>7. ASSUME CleanerStep \/ Tick \/ CloseStop \/ SyncMaxIdle \/ UNCHANGED vars
      PROVE  Fewer
  <2>1. CASE CleanerRun
    BY <2>1, Zenon DEF CleanerRun, settings, Fewer
  <2>2. ASSUME NEW timer \in BOOLEAN, CleanerWake(timer)
        PROVE  Fewer
    BY <2>2, Zenon DEF CleanerWake, settings, Fewer
  <2>3. CASE Tick \/ CloseStop \/ UNCHANGED vars
    BY <2>3, Zenon DEF Tick, CloseStop, vars, pool, settings, Fewer
  <2>4. CASE SyncMaxIdle
    BY <2>4, Zenon DEF SyncMaxIdle, setMaxIdle, Fewer
  <2>5. QED
    BY <1>7, <2>1, <2>2, <2>3, <2>4, Zenon DEF CleanerStep
<1>8. ASSUME Set
      PROVE  Fewer \/ Rest
  <2>1. ASSUME NEW n \in MaxIdles, SetMaxIdleConns(n)
        PROVE  Fewer
    BY <2>1, Zenon DEF SetMaxIdleConns, setMaxIdle, Fewer
  <2>2. ASSUME NEW d \in Durations, SetConnMaxLifetime(d) \/ SetConnMaxIdleTime(d)
        PROVE  Fewer
    BY <2>2, Zenon DEF SetConnMaxLifetime, SetConnMaxIdleTime, Fewer
  <2>3. QED
    BY <1>8, <2>1, <2>2, Zenon DEF Set, Rest
<1>9. QED
  BY <1>1, <1>2, <1>3, <1>4, <1>5, <1>6, <1>7, <1>8, Zenon DEF Next, Rest

\* A step that passes a slot on leaves the count within the limits, and at the
\* limit when somebody still waits.
LEMMA PassesOn ==
  ASSUME Limited, Counts, Passes
  PROVE  Counts' /\ (WaitersOnlyAtLimit => WaitersOnlyAtLimit')
<1>1. PICK n \in {numOpen - 1, numOpen} : maybeOpenNewConnections(n, connRequests')
  BY Zenon DEF Passes
<1>2. /\ n \in Int /\ n <= numOpen /\ n >= numOpen - 1 /\ numOpen \in Int
      /\ maxOpen \in Nat /\ maxOpen' = maxOpen /\ closed' = closed
      /\ connRequests' \in SUBSET Clients /\ (closed => connRequests' = {})
  BY <1>1 DEF Counts, Passes, Limited
<1>3. /\ numOpen' \in Int /\ numOpen' >= n /\ NeverOverLimit'
      /\ connRequests' # {} => numOpen' > n \/ n >= maxOpen
  BY <1>1, <1>2, Passed, Zenon
<1>4. Counts'
  BY <1>2, <1>3, Zenon DEF Counts
<1>5. ASSUME WaitersOnlyAtLimit, connRequests' # {}
      PROVE  ~closed' /\ maxOpen' > 0 /\ numOpen' >= maxOpen'
  <2>1. ~closed /\ maxOpen > 0 /\ numOpen >= maxOpen
    BY <1>5, Zenon DEF WaitersOnlyAtLimit, Passes
  <2>2. QED
    BY <1>2, <1>3, <1>5, <2>1
<1>6. QED
  BY <1>4, <1>5, Zenon DEF WaitersOnlyAtLimit

\* A new pool is within its limit.
LEMMA CountsInit ==
  ASSUME Limited, Init
  PROVE  Counts
<1>1. InitMaxOpen \in Limits /\ 0 <= InitMaxOpen
  BY DEF Limits, Limited
<1>2. numOpen = 0 /\ maxOpen = InitMaxOpen /\ connRequests = {}
  BY Zenon DEF Init
<1>3. NeverOverLimit
  BY <1>1, <1>2, Zenon DEF NeverOverLimit
<1>4. QED
  BY <1>1, <1>2, <1>3 DEF Counts

\* No step takes the count over the limits.
LEMMA CountsStep ==
  ASSUME Limited, Counts, [Next]_vars
  PROVE  Counts'
<1>1. CASE Fewer
  BY <1>1, Zenon DEF Fewer, Counts, NeverOverLimit
<1>2. CASE Passes
  BY <1>2, PassesOn, Zenon
<1>3. ASSUME NEW p \in Clients, ConnRequest(p)
      PROVE  Counts'
  BY <1>3, Zenon DEF ConnRequest, settings, Counts, NeverOverLimit
<1>4. ASSUME NEW p \in Clients, ConnOpen(p)
      PROVE  Counts'
  <2>1. numOpen < maxOpen /\ numOpen' = numOpen + 1 /\ UNCHANGED <<closed, connRequests, maxOpen>>
    <3>1. ~AtLimit /\ numOpen' = numOpen + 1 /\ UNCHANGED <<closed, connRequests, maxOpen>>
      BY <1>4, Zenon DEF ConnOpen, settings
    <3>2. QED
      BY <3>1 DEF AtLimit, Counts, Limited
  <2>2. QED
    BY <2>1 DEF Counts, Limited, NeverOverLimit
<1>5. CASE OpenerClosed \/ OpenerRefused
  <2>1. numOpen' = numOpen - 1 /\ UNCHANGED <<closed, connRequests, maxOpen>>
    BY <1>5, Zenon DEF OpenerClosed, OpenerRefused, settings
  <2>2. QED
    BY <2>1 DEF Counts, Limited, NeverOverLimit
<1>6. ASSUME NEW n \in MaxOpens, SetMaxOpenConns(n)
      PROVE  Counts'
  <2>1. maxOpen' = n /\ n \in Limits /\ UNCHANGED <<closed, connRequests, numOpen>>
    <3>1. /\ maxOpen' = (IF n < 0 THEN 0 ELSE n)
          /\ UNCHANGED <<closed, connRequests, numOpen>>
      BY <1>6, Zenon DEF SetMaxOpenConns, pool
    <3>2. n \in Limits /\ n \in Nat
      BY Zenon DEF Limits, Limited
    <3>3. QED
      BY <3>1, <3>2
  <2>2. QED
    BY <2>1, Zenon DEF Counts, NeverOverLimit
<1>7. CASE Close
  BY <1>7, Zenon DEF Close, settings, Counts, NeverOverLimit
<1>8. QED
  BY <1>1, <1>2, <1>3, <1>4, <1>5, <1>6, <1>7, Kinds, Zenon DEF Rest, Begins

\* No step leaves somebody waiting while the pool is below its limit.
LEMMA WaitersStep ==
  ASSUME Limited, NotRaised, Counts, WaitersOnlyAtLimit, [Next]_vars
  PROVE  WaitersOnlyAtLimit'
<1>1. CASE Fewer
  BY <1>1, Zenon DEF Fewer, WaitersOnlyAtLimit
<1>2. CASE Passes
  BY <1>2, PassesOn, Zenon
<1>3. ASSUME NEW p \in Clients, ConnRequest(p)
      PROVE  WaitersOnlyAtLimit'
  BY <1>3, Zenon DEF ConnRequest, AtLimit, settings, WaitersOnlyAtLimit
<1>4. ASSUME NEW p \in Clients, ConnOpen(p)
      PROVE  WaitersOnlyAtLimit'
  <2>1. connRequests = {} /\ connRequests' = connRequests
    BY <1>4, Zenon DEF ConnOpen, AtLimit, WaitersOnlyAtLimit
  <2>2. QED
    BY <2>1, Zenon DEF WaitersOnlyAtLimit
<1>5. CASE OpenerClosed
  <2>1. connRequests = {} /\ connRequests' = connRequests
    BY <1>5, Zenon DEF OpenerClosed, WaitersOnlyAtLimit
  <2>2. QED
    BY <2>1, Zenon DEF WaitersOnlyAtLimit
<1>6. CASE OpenerRefused
  <2>1. /\ numOpen' = numOpen - 1 /\ UNCHANGED <<closed, connRequests, maxOpen>> /\ ~closed
        /\ connRequests # {} => maxOpen > 0 /\ numOpen > maxOpen
    BY <1>6, Zenon DEF OpenerRefused, PutsToRequest, CanPut, settings
  <2>2. maxOpen \in Nat /\ numOpen \in Int
    BY Zenon DEF Counts, Limited
  <2>3. QED
    BY <2>1, <2>2 DEF WaitersOnlyAtLimit
<1>7. ASSUME NEW n \in MaxOpens, SetMaxOpenConns(n)
      PROVE  WaitersOnlyAtLimit'
  <2>1. /\ maxOpen' = n /\ n \in Nat /\ n > 0 /\ n <= maxOpen /\ maxOpen \in Nat
        /\ UNCHANGED <<closed, connRequests, numOpen>> /\ numOpen \in Int
    <3>1. /\ maxOpen' = (IF n < 0 THEN 0 ELSE n)
          /\ UNCHANGED <<closed, connRequests, numOpen>>
      BY <1>7, Zenon DEF SetMaxOpenConns, pool
    <3>2. n \in Nat \ {0} /\ maxOpen \in Nat /\ numOpen \in Int
      BY Zenon DEF Limits, Limited, Counts
    <3>3. n <= maxOpen
      BY <3>2 DEF Limits, NotRaised, Counts
    <3>4. QED
      BY <3>1, <3>2, <3>3
  <2>2. QED
    BY <2>1 DEF WaitersOnlyAtLimit
<1>8. CASE Close
  BY <1>8, Zenon DEF Close, WaitersOnlyAtLimit
<1>9. QED
  BY <1>1, <1>2, <1>3, <1>4, <1>5, <1>6, <1>7, <1>8, Kinds, Zenon DEF Rest, Begins

\* The connections that are open, or about to be, are never more than the
\* largest limit that SetMaxOpenConns was given, and no request waits in a
\* pool that is closed.
THEOREM CountWithinLimits ==
  ASSUME Limited
  PROVE  Spec => [](NeverOverLimit /\ (closed => connRequests = {}))
<1>1. Init => Counts
  BY CountsInit, Zenon
<1>2. Counts /\ [Next]_vars => Counts'
  BY CountsStep, Zenon
<1>3. Counts => NeverOverLimit /\ (closed => connRequests = {})
  BY Zenon DEF Counts
<1>4. QED
  BY <1>1, <1>2, <1>3, PTL DEF Spec

\* While the limit is not raised, a request waits only if the pool is at its
\* limit: whoever gives up a connection, or fails to open one, passes the slot
\* on to the requests that wait.
THEOREM SlotsPassedOn ==
  ASSUME Limited, NotRaised
  PROVE  Spec => []WaitersOnlyAtLimit
<1>1. Init => Counts /\ WaitersOnlyAtLimit
  BY CountsInit, Zenon DEF Init, WaitersOnlyAtLimit
<1>2. Counts /\ WaitersOnlyAtLimit /\ [Next]_vars => Counts' /\ WaitersOnlyAtLimit'
  BY CountsStep, WaitersStep, Zenon
<1>3. QED
  BY <1>1, <1>2, PTL DEF Spec
=============================================================================
