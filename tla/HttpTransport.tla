--------------------------- MODULE HttpTransport ---------------------------
(***************************************************************************)
(* The connection pool of net/http's Transport, for one host and HTTP/1    *)
(* (src/net/http/transport.go): requests that want a connection, the dials *)
(* started for them, the idle list, the limit MaxConnsPerHost with its     *)
(* queue, one readLoop goroutine for each connection, idle timeouts,       *)
(* CloseIdleConnections, cancelled requests, failed dials, connections     *)
(* that the server drops, and retries.                                     *)
(*                                                                         *)
(* A wantConn is a number, in the order getConn makes them.  At most one   *)
(* dial is started for a wantConn, so the connection it makes has the same *)
(* number.  Each action is what runs between two operations on a lock      *)
(* (idleMu, connsPerHostMu, wantConn.mu, persistConn.mu) or a channel.     *)
(***************************************************************************)
EXTENDS Naturals, Sequences, FiniteSets, FiniteSetsExt, Functions

CONSTANTS
  Reqs,                \* goroutines that each call RoundTrip once
  MaxConnsPerHost,     \* Transport.MaxConnsPerHost, positive
  MaxIdleConnsPerHost, \* Transport.MaxIdleConnsPerHost, positive
  IdleConnTimeout,     \* whether Transport.IdleConnTimeout is set
  MaxWants,            \* bound: calls of getConn
  MaxEvents,           \* bound: timeouts, cancellations, failures and calls
                       \* of CloseIdleConnections
  None

ASSUME TransportAssumption ==
  /\ MaxConnsPerHost \in Nat \ {0} /\ MaxIdleConnsPerHost \in Nat \ {0}
  /\ MaxWants \in Nat /\ MaxEvents \in Nat
  /\ IdleConnTimeout \in BOOLEAN /\ None \notin Reqs

Wants  == 1 .. MaxWants
NoConn == 0
Failed == MaxWants + 1    \* a result that is an error

VARIABLES
  wants,      \* number of wantConns made
  done,       \* wantConn.done (wantConn.ctx is nil from then on)
  result,     \* what wantConn.result holds
  dialer,     \* where the goroutine of startDialConnForLocked is
  connsPerHost, connsPerHostWait,
  idleConn, idleLRU, idleConnWait, closeIdle,
  closed, canceledErr, reused,  \* persistConn.closed, canceledErr, reused
  loop,       \* where persistConn.readLoop is
  expects,    \* the request in reqch, None when no response is expected
  rc,         \* the request readLoop answers
  alive,      \* readLoop's alive
  stillIdle,  \* connections with a goroutine in closeConnIfStillIdle
  closer,     \* the connections that CloseIdleConnections has yet to close
  pc, want, conn,  \* each request's place, wantConn and connection
  cancelled,  \* requests whose context is done
  tooOld,     \* history: connections dropped from the list as too old
  events      \* events so far

queue == <<connsPerHost, connsPerHostWait, dialer>>
idle  == <<idleConn, idleLRU, idleConnWait, closeIdle>>
pers  == <<closed, canceledErr, reused>>
rl    == <<loop, expects, rc, alive>>
reqs  == <<pc, want, conn>>
wc    == <<done, result>>
hist  == <<wants, stillIdle, closer, cancelled, tooOld>>
misc  == <<hist, events>>
vars  == <<queue, idle, pers, rl, reqs, wc, misc>>

Init ==
  /\ wants = 0 /\ done = [w \in Wants |-> FALSE] /\ result = [w \in Wants |-> NoConn]
  /\ dialer = [w \in Wants |-> "none"]
  /\ connsPerHost = 0 /\ connsPerHostWait = <<>>
  /\ idleConn = <<>> /\ idleLRU = {} /\ idleConnWait = <<>> /\ closeIdle = FALSE
  /\ closed = [c \in Wants |-> FALSE] /\ canceledErr = [c \in Wants |-> FALSE]
  /\ reused = [c \in Wants |-> FALSE]
  /\ loop = [c \in Wants |-> "none"] /\ expects = [c \in Wants |-> None]
  /\ rc = [c \in Wants |-> None] /\ alive = [c \in Wants |-> TRUE]
  /\ stillIdle = {} /\ closer = <<>> /\ tooOld = {} /\ events = 0
  /\ pc = [r \in Reqs |-> "start"] /\ want = [r \in Reqs |-> NoConn]
  /\ conn = [r \in Reqs |-> NoConn]
  /\ cancelled = {}

Event == events < MaxEvents /\ events' = events + 1

Waiting(w) == ~done[w]

\* cleanFrontNotWaiting and the loops over popFront: what is left of a queue
\* from the first wantConn that is still waiting.
FromWaiting(q) ==
  LET first == {i \in 1 .. Len(q) : Waiting(q[i])} IN
  IF first = {} THEN <<>> ELSE SubSeq(q, Min(first), Len(q))

\* Mutant of decConnsPerHost: the count is never handed on.
decConnsPerHostOnly(d) ==
  /\ connsPerHost' = connsPerHost - 1 /\ dialer' = d
  /\ UNCHANGED connsPerHostWait

\* The count goes to the first wantConn that still waits to dial, or goes
\* down.  d is dialer as the caller leaves it.
decConnsPerHost(d) ==
  LET q == FromWaiting(connsPerHostWait) IN
  IF q # <<>>
  THEN /\ dialer' = [d EXCEPT ![Head(q)] = "start"]
       /\ connsPerHostWait' = Tail(q) /\ UNCHANGED connsPerHost
  ELSE /\ connsPerHost' = connsPerHost - 1
       /\ connsPerHostWait' = <<>> /\ dialer' = d

\* persistConn.close: only the first call has an effect.
close(c, d) ==
  IF closed[c]
  THEN /\ dialer' = d
       /\ UNCHANGED <<closed, connsPerHost, connsPerHostWait>>
  ELSE closed' = [closed EXCEPT ![c] = TRUE] /\ decConnsPerHost(d)

\* The first entry of c slides out of the list.
removeIdleConnLocked(c) ==
  /\ idleLRU' = idleLRU \ {c}
  /\ \/ c \notin Range(idleConn) /\ UNCHANGED idleConn
     \/ \E i \in DOMAIN idleConn :
          /\ idleConn[i] = c /\ \A j \in 1 .. i - 1 : idleConn[j] # c
          /\ idleConn' = SubSeq(idleConn, 1, i - 1) \o SubSeq(idleConn, i + 1, Len(idleConn))

tryDeliver(w, x) ==
  /\ done' = [done EXCEPT ![w] = TRUE]
  /\ result' = [result EXCEPT ![w] = x]

-----------------------------------------------------------------------------
(* The part of tryPutIdleConn under idleMu.  It ends in one of three ways. *)

PutDelivers(c) ==
  LET q == FromWaiting(idleConnWait) IN
  /\ q # <<>> /\ tryDeliver(Head(q), c) /\ idleConnWait' = Tail(q)
  /\ UNCHANGED <<idleConn, idleLRU, closeIdle>>

PutIdles(c) ==
  /\ FromWaiting(idleConnWait) = <<>> /\ idleConnWait' = <<>>
  /\ ~closeIdle /\ Len(idleConn) < MaxIdleConnsPerHost
  /\ idleConn' = Append(idleConn, c) /\ idleLRU' = idleLRU \cup {c}
  /\ UNCHANGED <<closeIdle, wc>>

PutRefused(c) ==
  /\ FromWaiting(idleConnWait) = <<>> /\ idleConnWait' = <<>>
  /\ closeIdle \/ Len(idleConn) >= MaxIdleConnsPerHost
  /\ UNCHANGED <<idleConn, idleLRU, closeIdle, wc>>

-----------------------------------------------------------------------------
(* Transport.roundTrip and getConn, in the goroutine of request r.         *)

GotoR(r, from, to) == pc[r] = from /\ pc' = [pc EXCEPT ![r] = to]

\* RoundTrip returns.
Ends(r, how) ==
  /\ pc' = [pc EXCEPT ![r] = how]
  /\ want' = [want EXCEPT ![r] = NoConn] /\ conn' = [conn EXCEPT ![r] = NoConn]

CancelRequest(r) ==
  /\ pc[r] \notin {"end", "canceled"} /\ r \notin cancelled /\ Event
  /\ cancelled' = cancelled \cup {r}
  /\ UNCHANGED <<queue, idle, pers, rl, reqs, wc, wants, stillIdle, closer, tooOld>>

\* The top of the loop, with the context done or with no getConn left.
StartCancelled(r) ==
  /\ pc[r] = "start"
  /\ r \in cancelled \/ wants = MaxWants
  /\ Ends(r, IF r \in cancelled THEN "canceled" ELSE "end")
  /\ UNCHANGED <<queue, idle, pers, rl, wc, misc>>

\* getConn makes a wantConn and calls queueForIdleConn: the first k
\* connections of the list have been idle too long (the list is in the order
\* they became idle).  The loop goes from the end and drops what is broken or
\* too old.
QueueForIdleConn(r) ==
  \E k \in 0 .. Len(idleConn) :
    LET w   == wants + 1
        fit == {i \in k + 1 .. Len(idleConn) : ~closed[idleConn[i]]}
    IN
    /\ pc[r] = "start" /\ r \notin cancelled /\ wants < MaxWants
    /\ IF k = 0 THEN UNCHANGED events ELSE IdleConnTimeout /\ Event
    /\ wants' = w /\ want' = [want EXCEPT ![r] = w]
    /\ closeIdle' = FALSE
    /\ IF fit # {}
       THEN LET c == idleConn[Max(fit)] IN
            /\ tryDeliver(w, c)
            /\ idleConn' = SubSeq(idleConn, 1, Max(fit) - 1) /\ idleLRU' = idleLRU \ {c}
            /\ pc' = [pc EXCEPT ![r] = "select"]
            /\ UNCHANGED <<idleConnWait, stillIdle, tooOld>>
       ELSE /\ idleConn' = <<>>
            /\ stillIdle' = stillIdle \cup {idleConn[i] : i \in 1 .. k}
            /\ tooOld' = tooOld \cup {idleConn[i] : i \in 1 .. k}
            /\ idleConnWait' = Append(FromWaiting(idleConnWait), w)
            /\ pc' = [pc EXCEPT ![r] = "dial"]
            /\ UNCHANGED <<idleLRU, wc>>
    /\ UNCHANGED <<queue, pers, rl, conn, closer, cancelled>>

QueueForDial(r) ==
  /\ GotoR(r, "dial", "select")
  /\ IF connsPerHost < MaxConnsPerHost
     THEN /\ connsPerHost' = connsPerHost + 1
          /\ dialer' = [dialer EXCEPT ![want[r]] = "start"]
          /\ UNCHANGED connsPerHostWait
     ELSE /\ connsPerHostWait' = Append(FromWaiting(connsPerHostWait), want[r])
          /\ UNCHANGED <<connsPerHost, dialer>>
  /\ UNCHANGED <<idle, pers, rl, want, conn, wc, misc>>

\* The select of getConn.  With a connection, persistConn.roundTrip counts one
\* more expected response and sends the request.  An error received here
\* leaves nothing for wantConn.cancel to do.
GotConn(r) ==
  LET c == result[want[r]] IN
  /\ pc[r] = "select" /\ c \in Wants
  /\ conn' = [conn EXCEPT ![r] = c] /\ want' = [want EXCEPT ![r] = NoConn]
  /\ result' = [result EXCEPT ![want[r]] = NoConn]
  /\ expects' = [expects EXCEPT ![c] = r]
  /\ pc' = [pc EXCEPT ![r] = "wait"]
  /\ UNCHANGED <<queue, idle, pers, loop, rc, alive, done, misc>>

GotErr(r) ==
  /\ pc[r] = "select" /\ result[want[r]] = Failed
  /\ result' = [result EXCEPT ![want[r]] = NoConn]
  /\ Ends(r, IF r \in cancelled THEN "canceled" ELSE "end")
  /\ UNCHANGED <<queue, idle, pers, rl, done, misc>>

\* Mutant of CancelWant: a connection delivered just before is forgotten.
CancelWantForgets(r) ==
  /\ pc[r] = "select" /\ r \in cancelled
  /\ done' = [done EXCEPT ![want[r]] = TRUE]
  /\ result' = [result EXCEPT ![want[r]] = NoConn]
  /\ Ends(r, "canceled")
  /\ UNCHANGED <<queue, idle, pers, rl, misc>>

\* treq.ctx is done: wantConn.cancel, which gives a connection that has been
\* delivered to putOrCloseIdleConn.
CancelWant(r) ==
  LET w == want[r]
      c == result[w]
  IN
  /\ pc[r] = "select" /\ r \in cancelled
  /\ done' = [done EXCEPT ![w] = TRUE] /\ result' = [result EXCEPT ![w] = NoConn]
  /\ IF c \in Wants
     THEN /\ conn' = [conn EXCEPT ![r] = c] /\ want' = [want EXCEPT ![r] = NoConn]
          /\ pc' = [pc EXCEPT ![r] = IF closed[c] THEN "close" ELSE "putIdle"]
          /\ reused' = [reused EXCEPT ![c] = @ \/ ~closed[c]]
     ELSE Ends(r, "canceled") /\ UNCHANGED reused
  /\ UNCHANGED <<queue, idle, closed, canceledErr, rl, misc>>

CancelPutIdle(r) ==
  /\ pc[r] = "putIdle"
  /\ \/ (PutDelivers(conn[r]) \/ PutIdles(conn[r])) /\ Ends(r, "canceled")
     \/ PutRefused(conn[r]) /\ GotoR(r, "putIdle", "close") /\ UNCHANGED <<want, conn>>
  /\ UNCHANGED <<queue, pers, rl, misc>>

CancelClose(r) ==
  /\ pc[r] = "close" /\ close(conn[r], dialer) /\ Ends(r, "canceled")
  /\ UNCHANGED <<idle, canceledErr, reused, rl, wc, misc>>

-----------------------------------------------------------------------------
(* persistConn.roundTrip, in the goroutine of request r.                   *)

\* mapRoundTripError, then the end of the loop of Transport.roundTrip: a
\* request on a connection used before may be sent again.
TripFails(r) ==
  LET c == conn[r] IN
  \/ canceledErr[c] /\ Ends(r, "canceled")
  \/ ~canceledErr[c] /\ Ends(r, "end")
  \/ /\ ~canceledErr[c] /\ reused[c]
     /\ pc' = [pc EXCEPT ![r] = "start"]
     /\ want' = [want EXCEPT ![r] = NoConn] /\ conn' = [conn EXCEPT ![r] = NoConn]

\* readLoop is at the send on rc.ch that answers r.
Answers(c, r) == loop[c] \in {"reply", "replyBody", "replyErr"} /\ rc[c] = r

ConnClosed(r) ==
  /\ pc[r] = "wait" /\ closed[conn[r]] /\ ~Answers(conn[r], r)
  /\ TripFails(r)
  /\ UNCHANGED <<queue, idle, pers, rl, wc, misc>>

\* The context is done and no response is there to be received: cancelRequest
\* closes the connection, and roundTrip goes round its loop.
CtxDone(r) ==
  LET c == conn[r] IN
  /\ pc[r] = "wait" /\ r \in cancelled /\ ~Answers(c, r)
  /\ ~(closed[c] /\ canceledErr[c])
  /\ canceledErr' = [canceledErr EXCEPT ![c] = TRUE] /\ close(c, dialer)
  /\ UNCHANGED <<idle, reused, rl, reqs, wc, misc>>

\* ResponseHeaderTimeout.
HeaderTimeout(r) ==
  /\ pc[r] = "wait" /\ Event /\ close(conn[r], dialer) /\ Ends(r, "end")
  /\ UNCHANGED <<idle, canceledErr, reused, rl, wc, hist>>

-----------------------------------------------------------------------------
(* The goroutine started by startDialConnForLocked for wantConn w.         *)

Dialer(w, from, to) == dialer[w] = from /\ dialer' = [dialer EXCEPT ![w] = to]

Dial(w) ==
  /\ Waiting(w) /\ Dialer(w, "start", "dialing")
  /\ UNCHANGED <<connsPerHost, connsPerHostWait, idle, pers, rl, reqs, wc, misc>>

\* Mutant of DialUnwanted: the count taken for the dial is kept.
DialUnwantedKeeps(w) ==
  /\ ~Waiting(w) /\ Dialer(w, "start", "gone")
  /\ UNCHANGED <<connsPerHost, connsPerHostWait, idle, pers, rl, reqs, wc, misc>>

DialUnwanted(w) ==
  /\ dialer[w] = "start" /\ ~Waiting(w)
  /\ decConnsPerHost([dialer EXCEPT ![w] = "gone"])
  /\ UNCHANGED <<idle, pers, rl, reqs, wc, misc>>

\* dialConn starts the goroutines of the connection before it returns it.
DialConn(w) ==
  /\ Dialer(w, "dialing", "dialed") /\ loop' = [loop EXCEPT ![w] = "peek"]
  /\ UNCHANGED <<connsPerHost, connsPerHostWait, idle, pers>>
  /\ UNCHANGED <<expects, rc, alive, reqs, wc, misc>>

DialFails(w) ==
  /\ Dialer(w, "dialing", "dec") /\ Event
  /\ IF Waiting(w) THEN tryDeliver(w, Failed) ELSE UNCHANGED wc
  /\ UNCHANGED <<connsPerHost, connsPerHostWait, idle, pers, rl, reqs, hist>>

DialDec(w) ==
  /\ dialer[w] = "dec" /\ decConnsPerHost([dialer EXCEPT ![w] = "gone"])
  /\ UNCHANGED <<idle, pers, rl, reqs, wc, misc>>

\* A connection that w does not take is given to putOrCloseIdleConn.
Deliver(w) ==
  /\ IF Waiting(w)
     THEN Dialer(w, "dialed", "gone") /\ tryDeliver(w, w) /\ UNCHANGED reused
     ELSE /\ Dialer(w, "dialed", IF closed[w] THEN "close" ELSE "putIdle")
          /\ reused' = [reused EXCEPT ![w] = ~closed[w]] /\ UNCHANGED wc
  /\ UNCHANGED <<connsPerHost, connsPerHostWait, idle, closed, canceledErr, rl, reqs, misc>>

DialPutIdle(w) ==
  /\ \/ Dialer(w, "putIdle", "gone") /\ (PutDelivers(w) \/ PutIdles(w))
     \/ Dialer(w, "putIdle", "close") /\ PutRefused(w)
  /\ UNCHANGED <<connsPerHost, connsPerHostWait, pers, rl, reqs, misc>>

DialClose(w) ==
  /\ dialer[w] = "close" /\ close(w, [dialer EXCEPT ![w] = "gone"])
  /\ UNCHANGED <<idle, canceledErr, reused, rl, reqs, wc, misc>>

-----------------------------------------------------------------------------
(* persistConn.readLoop and writeLoop of connection c.                     *)

Loop(c, from, to) == loop[c] = from /\ loop' = [loop EXCEPT ![c] = to]

\* The response to the request in reqch begins, with no body ("put", or
\* "reply" when the connection cannot be used again) or with a body.
\* Whether the connection may be used again (alive, sawEOF, wroteRequest)
\* is up to the peers; with a body this is settled at its end.
Response(c) ==
  \E to \in {"put", "reply", "replyBody"} :
    /\ expects[c] # None /\ ~closed[c] /\ Loop(c, "peek", to)
    /\ rc' = [rc EXCEPT ![c] = expects[c]] /\ expects' = [expects EXCEPT ![c] = None]
    /\ alive' = [alive EXCEPT ![c] = to # "reply"]
    /\ UNCHANGED <<queue, idle, pers, reqs, wc, misc>>

\* The peer, or the network, ends an open connection.
Breaks(c) == IF closed[c] THEN UNCHANGED events ELSE Event

\* Peek fails with no response expected: readLoopPeekFailLocked.
PeekFails(c) ==
  /\ Loop(c, "peek", "remove") /\ expects[c] = None
  /\ Breaks(c) /\ close(c, dialer)
  /\ UNCHANGED <<idle, canceledErr, reused, expects, rc, alive, reqs, wc, hist>>

\* Peek or readResponse fails with a response expected.
ReadFails(c) ==
  /\ Loop(c, "peek", "replyErr") /\ expects[c] # None /\ Breaks(c)
  /\ rc' = [rc EXCEPT ![c] = expects[c]] /\ expects' = [expects EXCEPT ![c] = None]
  /\ alive' = [alive EXCEPT ![c] = FALSE]
  /\ UNCHANGED <<queue, idle, pers, reqs, wc, hist>>

WriteFails(c) ==
  /\ ~closed[c] /\ Event
  /\ loop[c] = "body" \/ (loop[c] = "peek" /\ expects[c] # None)
  /\ close(c, dialer)
  /\ UNCHANGED <<idle, canceledErr, reused, rl, reqs, wc, hist>>

\* tryPutIdleConn before idleMu is taken.  It runs before the response is
\* given to the caller when there is no body ("put"), and after the body has
\* been read when there is one ("putEOF").
LoopPut(c) ==
  /\ \/ Loop(c, "put", IF closed[c] THEN "reply" ELSE "putIdle")
     \/ Loop(c, "putEOF", IF closed[c] THEN "close" ELSE "putIdleEOF")
  /\ reused' = [reused EXCEPT ![c] = @ \/ ~closed[c]]
  /\ alive' = [alive EXCEPT ![c] = ~closed[c]]
  /\ UNCHANGED <<queue, idle, closed, canceledErr, expects, rc, reqs, wc, misc>>

LoopPutIdle(c) ==
  /\ \/ PutDelivers(c) /\ UNCHANGED alive
     \/ PutIdles(c) /\ UNCHANGED alive
     \/ PutRefused(c) /\ alive' = [alive EXCEPT ![c] = FALSE]
  /\ \/ Loop(c, "putIdle", "reply")
     \/ Loop(c, "putIdleEOF", IF alive'[c] THEN "peek" ELSE "close")
  /\ UNCHANGED <<queue, pers, expects, rc, reqs, misc>>

\* The send on rc.ch meets the receive in roundTrip.
Reply(c) ==
  LET r == rc[c] IN
  /\ loop[c] \in {"reply", "replyBody", "replyErr"}
  /\ pc[r] = "wait" /\ conn[r] = c
  /\ \/ Loop(c, "reply", IF alive[c] THEN "peek" ELSE "close") /\ Ends(r, "end")
     \/ /\ Loop(c, "replyBody", "body") /\ pc' = [pc EXCEPT ![r] = "body"]
        /\ UNCHANGED <<want, conn>>
     \/ Loop(c, "replyErr", "close") /\ TripFails(r)
  /\ UNCHANGED <<queue, idle, pers, expects, rc, alive, wc, misc>>

CallerGone(c) ==
  /\ loop[c] \in {"reply", "replyBody", "replyErr"}
  /\ ~(pc[rc[c]] = "wait" /\ conn[rc[c]] = c)
  /\ loop' = [loop EXCEPT ![c] = "close"]
  /\ UNCHANGED <<queue, idle, pers, expects, rc, alive, reqs, wc, misc>>

\* The select after the response has been given to the caller, who reads the
\* body to its end or closes it early; a body closed early is drained or not.
BodyDone(c) ==
  /\ loop[c] = "body" /\ pc[rc[c]] = "body" /\ Ends(rc[c], "end")
  /\ \E to \in {"putEOF", "close"} : loop' = [loop EXCEPT ![c] = to]
  /\ UNCHANGED <<queue, idle, pers, expects, rc, alive, wc, misc>>

BodyCancelled(c) ==
  /\ Loop(c, "body", "close") /\ rc[c] \in cancelled /\ Ends(rc[c], "end")
  /\ canceledErr' = [canceledErr EXCEPT ![c] = TRUE] /\ close(c, dialer)
  /\ UNCHANGED <<idle, reused, expects, rc, alive, wc, misc>>

BodyConnClosed(c) ==
  /\ Loop(c, "body", "close") /\ closed[c] /\ Ends(rc[c], "end")
  /\ UNCHANGED <<queue, idle, pers, expects, rc, alive, wc, misc>>

\* The deferred calls: pc.close, then removeIdleConn.
LoopClose(c) ==
  /\ Loop(c, "close", "remove") /\ close(c, dialer)
  /\ UNCHANGED <<idle, canceledErr, reused, expects, rc, alive, reqs, wc, misc>>

RemoveIdleConn(c) ==
  /\ Loop(c, "remove", "gone") /\ removeIdleConnLocked(c)
  /\ expects' = [expects EXCEPT ![c] = None] /\ rc' = [rc EXCEPT ![c] = None]
  /\ UNCHANGED <<queue, idleConnWait, closeIdle, pers, alive, reqs, wc, misc>>

-----------------------------------------------------------------------------
(* closeConnIfStillIdle, run by the idle timer or by queueForIdleConn, and *)
(* CloseIdleConnections.                                                   *)

closeConnIfStillIdle(c) ==
  IF c \in idleLRU
  THEN removeIdleConnLocked(c) /\ close(c, dialer)
  ELSE UNCHANGED <<idleLRU, idleConn, closed, queue>>

IdleTimer(c) ==
  /\ IdleConnTimeout /\ c \in idleLRU /\ Event /\ closeConnIfStillIdle(c)
  /\ UNCHANGED <<idleConnWait, closeIdle, canceledErr, reused, rl, reqs, wc, hist>>

CloseTooOld(c) ==
  /\ c \in stillIdle /\ stillIdle' = stillIdle \ {c} /\ closeConnIfStillIdle(c)
  /\ UNCHANGED <<idleConnWait, closeIdle, canceledErr, reused, rl, reqs, wc>>
  /\ UNCHANGED <<wants, closer, cancelled, tooOld, events>>

CloseIdleConnections ==
  /\ closer = <<>> /\ Event /\ closer' = idleConn
  /\ idleConn' = <<>> /\ idleLRU' = {} /\ closeIdle' = TRUE
  /\ UNCHANGED <<queue, idleConnWait, pers, rl, reqs, wc, wants, stillIdle, cancelled, tooOld>>

CloseIdleOne ==
  /\ closer # <<>>
  /\ closer' = Tail(closer) /\ close(Head(closer), dialer)
  /\ UNCHANGED <<idle, canceledErr, reused, rl, reqs, wc, wants, stillIdle, cancelled, tooOld, events>>

-----------------------------------------------------------------------------
ReqStep(r) ==
  \/ StartCancelled(r) \/ QueueForIdleConn(r) \/ QueueForDial(r)
  \/ GotConn(r) \/ GotErr(r)
  \/ CancelWant(r) \/ CancelPutIdle(r) \/ CancelClose(r)
  \/ ConnClosed(r) \/ CtxDone(r)

DialStep(w) ==
  \/ Dial(w) \/ DialUnwanted(w) \/ DialConn(w) \/ DialFails(w) \/ DialDec(w)
  \/ Deliver(w) \/ DialPutIdle(w) \/ DialClose(w)

\* What the connection's goroutines do by themselves; a Peek on a closed
\* connection fails.
LoopStep(c) ==
  \/ LoopPut(c) \/ LoopPutIdle(c) \/ Reply(c) \/ CallerGone(c)
  \/ BodyDone(c) \/ BodyCancelled(c) \/ BodyConnClosed(c)
  \/ LoopClose(c) \/ RemoveIdleConn(c)

PeerStep(c) == Response(c) \/ ReadFails(c) \/ (closed[c] /\ PeekFails(c))

Next ==
  \/ \E r \in Reqs : ReqStep(r) \/ CancelRequest(r) \/ HeaderTimeout(r)
  \/ \E w \in Wants :
       \/ DialStep(w) \/ LoopStep(w) \/ PeerStep(w)
       \/ PeekFails(w) \/ WriteFails(w) \/ IdleTimer(w) \/ CloseTooOld(w)
  \/ CloseIdleConnections \/ CloseIdleOne

Spec == Init /\ [][Next]_vars

\* The goroutines run, a dial ends, and the server answers or the connection
\* breaks.
Fairness ==
  /\ \A r \in Reqs : WF_vars(ReqStep(r))
  /\ \A w \in Wants : /\ WF_vars(DialStep(w)) /\ WF_vars(LoopStep(w))
                      /\ WF_vars(PeerStep(w)) /\ WF_vars(CloseTooOld(w))
  /\ WF_vars(CloseIdleOne)

FairSpec == Spec /\ Fairness

-----------------------------------------------------------------------------
TypeOK ==
  /\ wants \in 0 .. MaxWants
  /\ done \in [Wants -> BOOLEAN] /\ result \in [Wants -> 0 .. Failed]
  /\ idleConn \in Seq(Wants) /\ idleLRU \subseteq Wants
  /\ expects \in [Wants -> Reqs \cup {None}] /\ rc \in [Wants -> Reqs \cup {None}]
  /\ want \in [Reqs -> 0 .. MaxWants] /\ conn \in [Reqs -> 0 .. MaxWants]

Live(c) == loop[c] # "none" /\ ~closed[c]

Dialing(w) == dialer[w] \in {"start", "dialing", "dec"}

\* connsPerHost counts exactly the open connections and the dials allowed or
\* under way, and stays within MaxConnsPerHost: a dial that fails, or that is
\* not wanted any more, a connection closed by several goroutines and a count
\* handed to a waiting dial are each counted once.
CountExact ==
  /\ TypeOK
  /\ connsPerHost = Cardinality({w \in Wants : Live(w) \/ Dialing(w)})
  /\ connsPerHost <= MaxConnsPerHost

\* Who has connection c.
Held(c) ==
  \/ c \in Range(idleConn) \/ c \in Range(closer)
  \/ IdleConnTimeout /\ c \in idleLRU
  \/ \E w \in Wants : result[w] = c
  \/ \E r \in Reqs : conn[r] = c
  \/ dialer[c] \in {"dialed", "putIdle", "close"}
  \/ loop[c] \notin {"peek", "gone"}

Stranded == {c \in Wants : Live(c) /\ ~Held(c)}

\* An open connection is always somewhere from where it is used or closed:
\* in the idle list, in a result, with a request, or with a goroutine that
\* is about to put it back or close it.  The exception is a connection that
\* queueForIdleConn dropped as too old just before CloseIdleConnections.  One
\* in the idle list is there once, has its timer and was given to nobody.
NothingStranded ==
  /\ Stranded \subseteq tooOld
  /\ IsInjective(idleConn)
  /\ \A c \in Range(idleConn) : c \in idleLRU /\ \A w \in Wants : result[w] # c

\* A request ends as cancelled only when its own context is.
OwnCancel == \A r \in Reqs : pc[r] = "canceled" => r \in cancelled

\* Every RoundTrip returns: a request that waits for a connection is not left
\* in a queue that nobody serves, whichever dials fail and connections break,
\* unless a stranded connection keeps the count up.
RequestsEnd == \A r \in Reqs : <>(pc[r] \in {"end", "canceled"} \/ Stranded # {})
=============================================================================
