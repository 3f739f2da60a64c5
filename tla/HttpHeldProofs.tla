--------------------------- MODULE HttpHeldProofs ---------------------------
(***************************************************************************)
(* Proofs about who has a connection of net/http's Transport: an open one  *)
(* is never left with nobody to use or close it, and one in the idle list  *)
(* is with nobody else.  They hold for any number of requests, connections *)
(* and events and for any limits.                                          *)
(***************************************************************************)
EXTENDS HttpTransportProofs

-----------------------------------------------------------------------------
(* A connection is with one owner at a time: the dial that made it, the    *)
(* request whose response it is to bring, readLoop until the connection is *)
(* put back, the wantConn it was delivered to, the request that puts it    *)
(* back, or the idle list.                                                 *)

WithDial(c) == dialer[c] \in {"dialed", "putIdle"}
WithTrip(c) == expects[c] # None
WithLoop(c) == loop[c] \in {"put", "putIdle", "replyBody", "body", "putEOF", "putIdleEOF"}
Listed(c)   == c \in Range(idleConn)
Given(w, c) == result[w] = c
Backs(r, c) == pc[r] = "putIdle" /\ conn[r] = c

OneOwner(c) ==
  /\ WithDial(c) => ~WithTrip(c) /\ ~WithLoop(c) /\ ~Listed(c)
  /\ WithTrip(c) => ~WithLoop(c) /\ ~Listed(c)
  /\ WithLoop(c) => ~Listed(c)
  /\ \A w \in Wants : Given(w, c) =>
       /\ ~WithDial(c) /\ ~WithTrip(c) /\ ~WithLoop(c) /\ ~Listed(c)
       /\ \A v \in Wants : Given(v, c) => v = w
       /\ \A r \in Reqs : ~Backs(r, c)
  /\ \A r \in Reqs : Backs(r, c) =>
       /\ ~WithDial(c) /\ ~WithTrip(c) /\ ~WithLoop(c) /\ ~Listed(c)
       /\ \A q \in Reqs : Backs(q, c) => q = r

Exclusive == \A c \in Wants : OneOwner(c)

\* c gets no owner that it did not have.
NoNewOwner(c) ==
  /\ WithDial(c)' => WithDial(c)
  /\ WithTrip(c)' => WithTrip(c)
  /\ WithLoop(c)' => WithLoop(c)
  /\ Listed(c)' => Listed(c)
  /\ \A w \in Wants : Given(w, c)' => Given(w, c)
  /\ \A r \in Reqs : Backs(r, c)' => Backs(r, c)

\* Owners that only go leave at most one.
LEMMA NoNewOwnerKeepsOne ==
    ASSUME NEW c \in Wants, OneOwner(c), NoNewOwner(c)
    PROVE  OneOwner(c)'
BY Zenon DEF OneOwner, NoNewOwner

\* Only GotConn makes a connection expect a response.
Trips == \A x \in Wants : expects'[x] \in {expects[x], None}

\* Only the start of a response makes readLoop an owner.
Loops == \A x \in Wants : WithLoop(x)' => WithLoop(x)

\* A delivery apart, no result becomes a connection.
Gives == \A w \in Wants : result'[w] \in Wants => result'[w] = result[w]

\* Only wantConn.cancel has a request put a connection back.
Returns == \A q \in Reqs : pc'[q] = "putIdle" => pc[q] = "putIdle" /\ conn'[q] = conn[q]

\* tryPutIdleConn apart, the idle list gets no connection.
Lists == Range(idleConn') \subseteq Range(idleConn)

\* Every step but the one that sends a request keeps Trips.
LEMMA TripMoves ==
    ASSUME Typed, Next
    PROVE  Trips \/ \E v \in Reqs : GotConn(v)
<1> USE DEF Typed
<1>1. ASSUME NEW r \in Reqs, GotConn(r) PROVE Trips \/ \E v \in Reqs : GotConn(v)
  BY <1>1, Zenon
<1>2. ASSUME NEW c \in Wants, Response(c) \/ ReadFails(c) \/ RemoveIdleConn(c)
      PROVE Trips \/ \E v \in Reqs : GotConn(v)
  BY <1>2, Zenon DEF Response, ReadFails, RemoveIdleConn, LoopTyped, Trips
<1>3. ASSUME NEW r \in Reqs, StartCancelled(r) \/ QueueForIdleConn(r) \/ QueueForDial(r) \/ GotErr(r) \/ CancelWant(r) \/
                             CancelPutIdle(r) \/ CancelClose(r) \/ ConnClosed(r) \/ CtxDone(r) \/
                             CancelRequest(r) \/ HeaderTimeout(r)
      PROVE Trips \/ \E v \in Reqs : GotConn(v)
  <2>1. UNCHANGED expects
    BY <1>3, Zenon DEF StartCancelled, QueueForIdleConn, QueueForDial, GotErr, CancelWant,
       CancelPutIdle, CancelClose, ConnClosed, CtxDone, CancelRequest, HeaderTimeout, rl
  <2>2. QED
    BY <2>1, Zenon DEF Trips
<1>4. ASSUME NEW c \in Wants, Dial(c) \/ DialUnwanted(c) \/ DialConn(c) \/ DialFails(c) \/ DialDec(c) \/ Deliver(c) \/
                              DialPutIdle(c) \/ DialClose(c) \/ LoopPut(c) \/ LoopPutIdle(c) \/
                              Reply(c) \/ CallerGone(c) \/ BodyDone(c) \/ BodyCancelled(c) \/
                              BodyConnClosed(c) \/ LoopClose(c) \/ PeekFails(c) \/ WriteFails(c) \/
                              IdleTimer(c) \/ CloseTooOld(c)
      PROVE Trips \/ \E v \in Reqs : GotConn(v)
  <2>1. UNCHANGED expects
    BY <1>4, Zenon DEF Dial, DialUnwanted, DialConn, DialFails, DialDec, Deliver, DialPutIdle,
       DialClose, LoopPut, LoopPutIdle, Reply, CallerGone, BodyDone, BodyCancelled,
       BodyConnClosed, LoopClose, PeekFails, WriteFails, IdleTimer, CloseTooOld, rl
  <2>2. QED
    BY <2>1, Zenon DEF Trips
<1>5. ASSUME CloseIdleConnections \/ CloseIdleOne PROVE Trips \/ \E v \in Reqs : GotConn(v)
  <2>1. UNCHANGED expects
    BY <1>5, Zenon DEF CloseIdleConnections, CloseIdleOne, rl
  <2>2. QED
    BY <2>1, Zenon DEF Trips
<1>6. QED
  BY <1>1, <1>2, <1>3, <1>4, <1>5, Zenon DEF Next, ReqStep, DialStep, LoopStep, PeerStep

\* Every step but the start of a response keeps Loops.
LEMMA LoopHolds ==
    ASSUME Typed, Next
    PROVE  Loops \/ \E v \in Wants : Response(v)
<1> USE DEF Typed
<1>1. ASSUME NEW c \in Wants, Response(c) PROVE Loops \/ \E v \in Wants : Response(v)
  BY <1>1, Zenon
<1>2. ASSUME NEW w \in Wants, DialConn(w) PROVE Loops \/ \E v \in Wants : Response(v)
  BY <1>2, Zenon DEF DialConn, LoopTyped, Loops, WithLoop
<1>3. ASSUME NEW c \in Wants, LoopPut(c) \/ LoopPutIdle(c)
      PROVE Loops \/ \E v \in Wants : Response(v)
  BY <1>3, Zenon DEF LoopPut, LoopPutIdle, Loop, LoopTyped, Loops, WithLoop
<1>4. ASSUME NEW c \in Wants, Reply(c) \/ CallerGone(c) \/ BodyDone(c) \/ BodyCancelled(c) \/ BodyConnClosed(c)
      PROVE Loops \/ \E v \in Wants : Response(v)
  BY <1>4 DEF Reply, CallerGone, BodyDone, BodyCancelled, BodyConnClosed, Loop, LoopTyped, Loops,
    WithLoop
<1>5. ASSUME NEW c \in Wants, LoopClose(c) \/ RemoveIdleConn(c) \/ ReadFails(c) \/ PeekFails(c)
      PROVE Loops \/ \E v \in Wants : Response(v)
  BY <1>5 DEF LoopClose, RemoveIdleConn, ReadFails, PeekFails, Loop, LoopTyped, Loops, WithLoop
<1>6. ASSUME NEW r \in Reqs, StartCancelled(r) \/ QueueForIdleConn(r) \/ QueueForDial(r) \/ GotConn(r) \/ GotErr(r) \/
                             CancelWant(r) \/ CancelPutIdle(r) \/ CancelClose(r) \/ ConnClosed(r) \/
                             CtxDone(r) \/ CancelRequest(r) \/ HeaderTimeout(r)
      PROVE Loops \/ \E v \in Wants : Response(v)
  <2>1. UNCHANGED loop
    BY <1>6, Zenon DEF StartCancelled, QueueForIdleConn, QueueForDial, GotConn, GotErr,
       CancelWant, CancelPutIdle, CancelClose, ConnClosed, CtxDone, CancelRequest,
       HeaderTimeout, rl
  <2>2. QED
    BY <2>1, Zenon DEF Loops, WithLoop
<1>7. ASSUME NEW c \in Wants, Dial(c) \/ DialUnwanted(c) \/ DialFails(c) \/ DialDec(c) \/ Deliver(c) \/ DialPutIdle(c) \/
                              DialClose(c) \/ WriteFails(c) \/ IdleTimer(c) \/ CloseTooOld(c)
      PROVE Loops \/ \E v \in Wants : Response(v)
  <2>1. UNCHANGED loop
    BY <1>7, Zenon DEF Dial, DialUnwanted, DialFails, DialDec, Deliver, DialPutIdle, DialClose,
       WriteFails, IdleTimer, CloseTooOld, rl
  <2>2. QED
    BY <2>1, Zenon DEF Loops, WithLoop
<1>8. ASSUME CloseIdleConnections \/ CloseIdleOne PROVE Loops \/ \E v \in Wants : Response(v)
  <2>1. UNCHANGED loop
    BY <1>8, Zenon DEF CloseIdleConnections, CloseIdleOne, rl
  <2>2. QED
    BY <2>1, Zenon DEF Loops, WithLoop
<1>9. QED
  BY <1>1, <1>2, <1>3, <1>4, <1>5, <1>6, <1>7, <1>8, Zenon DEF Next, ReqStep, DialStep, LoopStep,
    PeerStep

\* The steps that may deliver a connection.
Delivers ==
  \/ \E r \in Reqs : QueueForIdleConn(r) \/ CancelPutIdle(r)
  \/ \E w \in Wants : Deliver(w) \/ DialPutIdle(w) \/ LoopPutIdle(w)

\* Every step that does not deliver keeps Gives.
LEMMA GiveMoves ==
    ASSUME Typed, Next
    PROVE  Gives \/ Delivers
<1> USE DEF Typed
<1>1. ASSUME NEW r \in Reqs, QueueForIdleConn(r) \/ CancelPutIdle(r) PROVE Gives \/ Delivers
  BY <1>1, Zenon DEF Delivers
<1>2. ASSUME NEW w \in Wants, Deliver(w) \/ DialPutIdle(w) PROVE Gives \/ Delivers
  BY <1>2, Zenon DEF Delivers
<1>3. ASSUME NEW c \in Wants, LoopPutIdle(c) PROVE Gives \/ Delivers
  BY <1>3, Zenon DEF Delivers
<1>4. ASSUME NEW r \in Reqs, GotConn(r) \/ GotErr(r) \/ CancelWant(r) PROVE Gives \/ Delivers
  BY <1>4, Numbers, Zenon DEF GotConn, GotErr, CancelWant, WantTyped, Gives
<1>5. ASSUME NEW w \in Wants, DialFails(w) PROVE Gives \/ Delivers
  BY <1>5, Numbers, Zenon DEF DialFails, tryDeliver, wc, WantTyped, Gives
<1>6. ASSUME NEW r \in Reqs, StartCancelled(r) \/ QueueForDial(r) \/ CancelClose(r) \/ ConnClosed(r) \/ CtxDone(r) \/
                             CancelRequest(r) \/ HeaderTimeout(r)
      PROVE Gives \/ Delivers
  <2>1. UNCHANGED result
    BY <1>6, Zenon DEF StartCancelled, QueueForDial, CancelClose, ConnClosed, CtxDone,
       CancelRequest, HeaderTimeout, wc
  <2>2. QED
    BY <2>1, Zenon DEF Gives
<1>7. ASSUME NEW c \in Wants, Dial(c) \/ DialUnwanted(c) \/ DialConn(c) \/ DialDec(c) \/ DialClose(c) \/ LoopPut(c) \/ Reply(c) \/
                              CallerGone(c) \/ BodyDone(c) \/ BodyCancelled(c) \/ BodyConnClosed(c)
                              \/ LoopClose(c) \/ RemoveIdleConn(c) \/ Response(c) \/ ReadFails(c) \/
                              PeekFails(c) \/ WriteFails(c) \/ IdleTimer(c) \/ CloseTooOld(c)
      PROVE Gives \/ Delivers
  <2>1. UNCHANGED result
    BY <1>7, Zenon DEF Dial, DialUnwanted, DialConn, DialDec, DialClose, LoopPut, Reply,
       CallerGone, BodyDone, BodyCancelled, BodyConnClosed, LoopClose, RemoveIdleConn, Response,
       ReadFails, PeekFails, WriteFails, IdleTimer, CloseTooOld, wc
  <2>2. QED
    BY <2>1, Zenon DEF Gives
<1>8. ASSUME CloseIdleConnections \/ CloseIdleOne PROVE Gives \/ Delivers
  <2>1. UNCHANGED result
    BY <1>8, Zenon DEF CloseIdleConnections, CloseIdleOne, wc
  <2>2. QED
    BY <2>1, Zenon DEF Gives
<1>9. QED
  BY <1>1, <1>2, <1>3, <1>4, <1>5, <1>6, <1>7, <1>8, Zenon DEF Next, ReqStep, DialStep, LoopStep,
    PeerStep

\* Every step but wantConn.cancel keeps Returns.
LEMMA ReturnMoves ==
    ASSUME Typed, Next
    PROVE  Returns \/ \E v \in Reqs : CancelWant(v)
<1> USE DEF Typed
<1>1. ASSUME NEW r \in Reqs, CancelWant(r) PROVE Returns \/ \E v \in Reqs : CancelWant(v)
  BY <1>1, Zenon
<1>2. ASSUME NEW r \in Reqs, StartCancelled(r) \/ GotErr(r) \/ CancelPutIdle(r) \/ CancelClose(r) \/ HeaderTimeout(r)
      PROVE Returns \/ \E v \in Reqs : CancelWant(v)
  BY <1>2, Zenon DEF StartCancelled, GotErr, CancelPutIdle, CancelClose, HeaderTimeout, Ends,
     GotoR, ReqTyped, Returns
<1>3. ASSUME NEW r \in Reqs, QueueForIdleConn(r) \/ QueueForDial(r) \/ GotConn(r) \/ ConnClosed(r)
      PROVE Returns \/ \E v \in Reqs : CancelWant(v)
  <2>1. \E p \in {"select", "dial", "wait", "start", "end", "canceled"} : pc' = [pc EXCEPT ![r] = p]
    BY <1>3, Zenon DEF QueueForIdleConn, QueueForDial, GotConn, ConnClosed, GotoR, TripFails, Ends
  <2>2. \A q \in Reqs \ {r} : conn'[q] = conn[q]
    BY <1>3, Zenon DEF QueueForIdleConn, QueueForDial, GotConn, ConnClosed, TripFails, Ends,
       ReqTyped
  <2>3. QED
    BY <2>1, <2>2, Zenon DEF ReqTyped, Returns
<1>4. ASSUME NEW c \in Wants, Reply(c) PROVE Returns \/ \E v \in Reqs : CancelWant(v)
  BY <1>4 DEF Reply, Ends, TripFails, ReqTyped, Returns
<1>5. ASSUME NEW c \in Wants, BodyDone(c) \/ BodyCancelled(c) \/ BodyConnClosed(c)
      PROVE Returns \/ \E v \in Reqs : CancelWant(v)
  BY <1>5 DEF BodyDone, BodyCancelled, BodyConnClosed, Ends, ReqTyped, Returns
<1>6. ASSUME NEW r \in Reqs, CtxDone(r) \/ CancelRequest(r)
      PROVE Returns \/ \E v \in Reqs : CancelWant(v)
  <2>1. UNCHANGED <<pc, conn>>
    BY <1>6, Zenon DEF CtxDone, CancelRequest, reqs
  <2>2. QED
    BY <2>1, Zenon DEF Returns
<1>7. ASSUME NEW c \in Wants, Dial(c) \/ DialUnwanted(c) \/ DialConn(c) \/ DialFails(c) \/ DialDec(c) \/ Deliver(c) \/
                              DialPutIdle(c) \/ DialClose(c) \/ LoopPut(c) \/ LoopPutIdle(c) \/
                              CallerGone(c) \/ LoopClose(c) \/ RemoveIdleConn(c) \/ Response(c) \/
                              ReadFails(c) \/ PeekFails(c) \/ WriteFails(c) \/ IdleTimer(c) \/
                              CloseTooOld(c)
      PROVE Returns \/ \E v \in Reqs : CancelWant(v)
  <2>1. UNCHANGED <<pc, conn>>
    BY <1>7, Zenon DEF Dial, DialUnwanted, DialConn, DialFails, DialDec, Deliver, DialPutIdle,
       DialClose, LoopPut, LoopPutIdle, CallerGone, LoopClose, RemoveIdleConn, Response,
       ReadFails, PeekFails, WriteFails, IdleTimer, CloseTooOld, reqs
  <2>2. QED
    BY <2>1, Zenon DEF Returns
<1>8. ASSUME CloseIdleConnections \/ CloseIdleOne PROVE Returns \/ \E v \in Reqs : CancelWant(v)
  <2>1. UNCHANGED <<pc, conn>>
    BY <1>8, Zenon DEF CloseIdleConnections, CloseIdleOne, reqs
  <2>2. QED
    BY <2>1, Zenon DEF Returns
<1>9. QED
  BY <1>1, <1>2, <1>3, <1>4, <1>5, <1>6, <1>7, <1>8, Zenon DEF Next, ReqStep, DialStep, LoopStep,
    PeerStep

\* The steps of tryPutIdleConn.
Puts ==
  \/ \E r \in Reqs : CancelPutIdle(r)
  \/ \E w \in Wants : DialPutIdle(w) \/ LoopPutIdle(w)

\* Every step that puts no connection back keeps Lists.
LEMMA ListMoves ==
    ASSUME Typed, Queued, Next
    PROVE  Lists \/ Puts
<1> USE DEF Typed
<1>1. ASSUME NEW r \in Reqs, CancelPutIdle(r) PROVE Lists \/ Puts
  BY <1>1, Zenon DEF Puts
<1>2. ASSUME NEW w \in Wants, DialPutIdle(w) PROVE Lists \/ Puts
  BY <1>2, Zenon DEF Puts
<1>3. ASSUME NEW c \in Wants, LoopPutIdle(c) PROVE Lists \/ Puts
  BY <1>3, Zenon DEF Puts
<1>4. ASSUME NEW r \in Reqs, QueueForIdleConn(r) PROVE Lists \/ Puts
  <2>1. MaxWants \in Nat
    BY TransportAssumption, Zenon
  <2>2. QED
    BY <1>4, <2>1, QueueForIdleProperties, Zenon DEF IdleTyped, WantTyped, Lists
<1>5. ASSUME NEW c \in Wants, RemoveIdleConn(c) PROVE Lists \/ Puts
  BY <1>5, RemoveProperties, Zenon DEF RemoveIdleConn, IdleTyped, Lists
<1>6. ASSUME NEW c \in Wants, IdleTimer(c) \/ CloseTooOld(c) PROVE Lists \/ Puts
  BY <1>6, StillIdleProperties, Zenon DEF IdleTimer, CloseTooOld, Lists
<1>7. ASSUME CloseIdleConnections PROVE Lists \/ Puts
  BY <1>7 DEF CloseIdleConnections, Range, Lists
<1>8. ASSUME NEW r \in Reqs, StartCancelled(r) \/ QueueForDial(r) \/ GotConn(r) \/ GotErr(r) \/ CancelWant(r) \/ CancelClose(r)
                             \/ ConnClosed(r) \/ CtxDone(r) \/ CancelRequest(r) \/ HeaderTimeout(r)
      PROVE Lists \/ Puts
  <2>1. UNCHANGED idleConn
    BY <1>8, Zenon DEF StartCancelled, QueueForDial, GotConn, GotErr, CancelWant, CancelClose,
       ConnClosed, CtxDone, CancelRequest, HeaderTimeout, idle
  <2>2. QED
    BY <2>1, Zenon DEF Lists
<1>9. ASSUME NEW c \in Wants, Dial(c) \/ DialUnwanted(c) \/ DialConn(c) \/ DialFails(c) \/ DialDec(c) \/ Deliver(c) \/
                              DialClose(c) \/ LoopPut(c) \/ Reply(c) \/ CallerGone(c) \/ BodyDone(c)
                              \/ BodyCancelled(c) \/ BodyConnClosed(c) \/ LoopClose(c) \/
                              Response(c) \/ ReadFails(c) \/ PeekFails(c) \/ WriteFails(c)
      PROVE Lists \/ Puts
  <2>1. UNCHANGED idleConn
    BY <1>9, Zenon DEF Dial, DialUnwanted, DialConn, DialFails, DialDec, Deliver, DialClose,
       LoopPut, Reply, CallerGone, BodyDone, BodyCancelled, BodyConnClosed, LoopClose, Response,
       ReadFails, PeekFails, WriteFails, idle
  <2>2. QED
    BY <2>1, Zenon DEF Lists
<1>10. ASSUME CloseIdleOne PROVE Lists \/ Puts
  <2>1. UNCHANGED idleConn
    BY <1>10, Zenon DEF CloseIdleOne, idle
  <2>2. QED
    BY <2>1, Zenon DEF Lists
<1>11. QED
  BY <1>1, <1>2, <1>3, <1>4, <1>5, <1>6, <1>7, <1>8, <1>9, <1>10, Zenon DEF Next, ReqStep,
     DialStep, LoopStep, PeerStep

-----------------------------------------------------------------------------
(* A connection passes from one owner to the next.                         *)

\* dialConn makes a connection that nobody else has.
LEMMA OwnedDialConn ==
    ASSUME Typed, Places, Queued, Made, Exclusive, NEW w \in Wants, DialConn(w)
    PROVE  Exclusive'
<1> USE DEF Typed
<1>1. loop[w] = "none" /\ UNCHANGED <<expects, idleConn, result, pc, conn>>
  BY Zenon DEF DialConn, Dialer, Made, idle, wc, reqs
<1>2. ~WithTrip(w) /\ ~Listed(w) /\ \A v \in Wants : ~Given(v, w)
  BY <1>1, Zenon DEF Made, WithTrip, Listed, Given
<1>3. \A q \in Reqs : ~Backs(q, w)
  BY <1>1, Zenon DEF Made, Backs
<1>4. loop'[w] = "peek" /\ \A x \in Wants \ {w} : dialer'[x] = dialer[x] /\ loop'[x] = loop[x]
  BY Zenon DEF DialConn, Dialer, QueueTyped, LoopTyped
<1>5. OneOwner(w)'
  BY <1>1, <1>2, <1>3, <1>4, Zenon DEF OneOwner, WithTrip, Listed, Given, Backs, WithLoop
<1>6. \A x \in Wants \ {w} : NoNewOwner(x)
  BY <1>1, <1>4, Zenon DEF NoNewOwner, WithDial, WithTrip, WithLoop, Listed, Given, Backs
<1>7. QED
  BY <1>5, <1>6, NoNewOwnerKeepsOne, Zenon DEF Exclusive

\* A request takes the connection delivered to its wantConn.
LEMMA OwnedGotConn ==
    ASSUME Typed, Places, Queued, Made, Exclusive, NEW r \in Reqs, GotConn(r)
    PROVE  Exclusive'
<1> USE DEF Typed
<1>0. PICK c \in Wants : c = result[want[r]]
  BY Zenon DEF GotConn
<1>1. want[r] \in Wants /\ Given(want[r], c)
  BY <1>0, WantOfRequest, Zenon DEF GotConn, Given
<1>2. UNCHANGED <<dialer, loop, idleConn>>
  BY Zenon DEF GotConn, queue, idle
<1>3. /\ result'[want[r]] = NoConn /\ \A v \in Wants \ {want[r]} : result'[v] = result[v]
      /\ \A x \in Wants \ {c} : expects'[x] = expects[x]
  BY <1>0, <1>1, Zenon DEF GotConn, WantTyped, LoopTyped
<1>4. \A q \in Reqs : pc'[q] = "putIdle" => pc[q] = "putIdle" /\ conn'[q] = conn[q]
  BY <1>1, Zenon DEF GotConn, ReqTyped
<1>5. \A x \in Wants \ {c} : NoNewOwner(x)
  BY <1>1, <1>2, <1>3, <1>4, Numbers DEF NoNewOwner, WithDial, WithTrip, WithLoop, Listed,
     Given, Backs
<1>6. OneOwner(c)
  BY <1>1, Zenon DEF Exclusive
<1>7. ~WithDial(c)' /\ ~WithLoop(c)' /\ ~Listed(c)'
  BY <1>1, <1>2, <1>6, Zenon DEF OneOwner, WithDial, WithLoop, Listed
<1>8. (\A v \in Wants : ~Given(v, c)') /\ \A q \in Reqs : ~Backs(q, c)'
  BY <1>1, <1>3, <1>4, <1>6, Numbers DEF OneOwner, Given, Backs
<1>9. OneOwner(c)'
  BY <1>7, <1>8, Zenon DEF OneOwner
<1>10. QED
  BY <1>5, <1>9, NoNewOwnerKeepsOne, Zenon DEF Exclusive

\* A request that is cancelled takes the connection to put it back.
LEMMA OwnedCancelWant ==
    ASSUME Typed, Places, Queued, Made, Exclusive, NEW r \in Reqs, CancelWant(r)
    PROVE  Exclusive'
<1> USE DEF Typed
<1>0. PICK c : c = result[want[r]]
  BY Zenon
<1>1. want[r] \in Wants
  BY WantOfRequest, Zenon DEF CancelWant
<1>2. UNCHANGED <<dialer, loop, expects, idleConn>>
  BY Zenon DEF CancelWant, queue, idle, rl
<1>3. result'[want[r]] = NoConn /\ \A v \in Wants \ {want[r]} : result'[v] = result[v]
  BY <1>1, Zenon DEF CancelWant, WantTyped
<1>4. \A q \in Reqs \ {r} : pc'[q] = pc[q] /\ conn'[q] = conn[q]
  BY Zenon DEF CancelWant, Ends, ReqTyped
<1>5. pc'[r] = "putIdle" => c \in Wants /\ conn'[r] = c
  BY <1>0, Zenon DEF CancelWant, Ends, ReqTyped
<1>6. \A x \in Wants \ {c} : NoNewOwner(x)
  BY <1>1, <1>2, <1>3, <1>4, <1>5, Numbers DEF NoNewOwner, WithDial, WithTrip, WithLoop, Listed,
     Given, Backs
<1>7. ASSUME c \in Wants PROVE OneOwner(c)'
  <2>1. OneOwner(c) /\ Given(want[r], c)
    BY <1>0, <1>7, Zenon DEF Exclusive, Given
  <2>2. ~WithDial(c)' /\ ~WithTrip(c)' /\ ~WithLoop(c)' /\ ~Listed(c)'
    BY <1>1, <1>2, <2>1, Zenon DEF OneOwner, WithDial, WithTrip, WithLoop, Listed
  <2>3. (\A v \in Wants : ~Given(v, c)') /\ \A q \in Reqs \ {r} : ~Backs(q, c)'
    BY <1>1, <1>3, <1>4, <1>7, <2>1, Numbers DEF OneOwner, Given, Backs
  <2>4. QED
    BY <2>2, <2>3, Zenon DEF OneOwner
<1>8. QED
  BY <1>6, <1>7, NoNewOwnerKeepsOne, Zenon DEF Exclusive

\* readLoop has the connection from the response on.
LEMMA OwnedResponse ==
    ASSUME Typed, Exclusive, NEW c \in Wants, Response(c)
    PROVE  Exclusive'
<1> USE DEF Typed
<1>1. UNCHANGED <<dialer, idleConn, result, pc, conn>>
  BY Zenon DEF Response, queue, idle, wc, reqs
<1>2. /\ expects[c] # None /\ expects'[c] = None
      /\ \A x \in Wants \ {c} : expects'[x] = expects[x] /\ loop'[x] = loop[x]
  BY DEF Response, Loop, LoopTyped
<1>3. \A x \in Wants \ {c} : NoNewOwner(x)
  BY <1>1, <1>2, Zenon DEF NoNewOwner, WithDial, WithTrip, WithLoop, Listed, Given, Backs
<1>4. OneOwner(c)
  BY Zenon DEF Exclusive
<1>5. /\ ~WithDial(c)' /\ ~WithTrip(c)' /\ ~Listed(c)'
      /\ (\A v \in Wants : ~Given(v, c)') /\ \A q \in Reqs : ~Backs(q, c)'
  BY <1>1, <1>2, <1>4, Zenon DEF OneOwner, WithDial, WithTrip, Listed, Given, Backs
<1>6. OneOwner(c)'
  BY <1>5, Zenon DEF OneOwner
<1>7. QED
  BY <1>3, <1>6, NoNewOwnerKeepsOne, Zenon DEF Exclusive

\* The dial delivers its connection to its own wantConn, or keeps it.
LEMMA OwnedDeliver ==
    ASSUME Typed, Places, Exclusive, NEW w \in Wants, Deliver(w)
    PROVE  Exclusive'
<1> USE DEF Typed
<1>1. UNCHANGED <<loop, expects, idleConn, pc, conn>>
  BY Zenon DEF Deliver, idle, rl, reqs
<1>2. \A x \in Wants \ {w} : dialer'[x] = dialer[x] /\ result'[x] = result[x]
  BY Zenon DEF Deliver, Dialer, tryDeliver, QueueTyped, WantTyped, wc
<1>3. \/ dialer'[w] = "gone" /\ result'[w] = w /\ result[w] = NoConn
      \/ result'[w] = result[w]
  BY Zenon DEF Deliver, Dialer, tryDeliver, QueueTyped, WantTyped, wc, Waiting, Places
<1>4. dialer[w] = "dialed"
  BY Zenon DEF Deliver, Dialer
<1>5. \A x \in Wants \ {w} : NoNewOwner(x)
  BY <1>1, <1>2, <1>3, Zenon DEF NoNewOwner, WithDial, WithTrip, WithLoop, Listed, Given, Backs
<1>6. OneOwner(w)
  BY Zenon DEF Exclusive
<1>7. /\ ~WithTrip(w)' /\ ~WithLoop(w)' /\ ~Listed(w)' /\ \A q \in Reqs : ~Backs(q, w)'
      /\ \A v \in Wants : v # w => ~Given(v, w)'
  BY <1>1, <1>2, <1>4, <1>6, Zenon DEF OneOwner, WithDial, WithTrip, WithLoop, Listed, Given,
     Backs
<1>8. ~Given(w, w)' \/ ~WithDial(w)'
  BY <1>3, <1>4, <1>6, Zenon DEF OneOwner, WithDial, Given
<1>9. OneOwner(w)'
  BY <1>7, <1>8, Zenon DEF OneOwner
<1>10. QED
  BY <1>5, <1>9, NoNewOwnerKeepsOne, Zenon DEF Exclusive

\* queueForIdleConn delivers a connection that leaves the idle list.
LEMMA OwnedQueueForIdle ==
    ASSUME Typed, Places, Exclusive, IsInjective(idleConn), NEW r \in Reqs, QueueForIdleConn(r)
    PROVE  Exclusive'
<1> USE DEF Typed
<1>1. UNCHANGED <<dialer, loop, expects, conn>>
  BY Zenon DEF QueueForIdleConn, queue, rl
<1>2. wants + 1 \in Wants /\ wants + 1 > wants
  BY Numbers DEF QueueForIdleConn, WantTyped
<1>3. result[wants + 1] = NoConn
  BY <1>2, Zenon DEF Places
<1>4. MaxWants \in Nat /\ Range(idleConn) \subseteq Wants
  BY TransportAssumption DEF IdleTyped, Range
<1>5. /\ Range(idleConn') \subseteq Range(idleConn)
      /\ \/ \E c \in Range(idleConn) : tryDeliver(wants + 1, c) /\ c \notin Range(idleConn')
         \/ UNCHANGED result
  BY <1>4, QueueForIdleProperties, Zenon DEF IdleTyped, WantTyped
<1>6. \A q \in Reqs : pc'[q] = "putIdle" => pc[q] = "putIdle"
  <2>1. \E p \in {"select", "dial"} : pc' = [pc EXCEPT ![r] = p]
    BY Zenon DEF QueueForIdleConn
  <2>2. QED
    BY <2>1, Zenon DEF ReqTyped
<1>7. ASSUME NEW c \in Range(idleConn), tryDeliver(wants + 1, c), c \notin Range(idleConn')
      PROVE  Exclusive'
  <2>1. result'[wants + 1] = c /\ \A v \in Wants \ {wants + 1} : result'[v] = result[v]
    BY <1>2, <1>7, DeliverProperties, Zenon
  <2>2. \A x \in Wants \ {c} : NoNewOwner(x)
    BY <1>1, <1>5, <1>6, <2>1, Zenon DEF NoNewOwner, WithDial, WithTrip, WithLoop, Listed,
       Given, Backs
  <2>3. OneOwner(c) /\ Listed(c)
    BY <1>4, Zenon DEF Exclusive, Listed
  <2>4. /\ ~WithDial(c)' /\ ~WithTrip(c)' /\ ~WithLoop(c)' /\ ~Listed(c)'
        /\ (\A q \in Reqs : ~Backs(q, c)') /\ \A v \in Wants : Given(v, c)' => v = wants + 1
    BY <1>1, <1>6, <1>7, <2>1, <2>3, Zenon DEF OneOwner, WithDial, WithTrip, WithLoop, Listed,
       Given, Backs
  <2>5. OneOwner(c)'
    BY <2>4, Zenon DEF OneOwner
  <2>6. QED
    BY <2>2, <2>5, NoNewOwnerKeepsOne, Zenon DEF Exclusive
<1>8. CASE UNCHANGED result
  <2>1. \A x \in Wants : NoNewOwner(x)
    BY <1>1, <1>5, <1>6, <1>8, Zenon DEF NoNewOwner, WithDial, WithTrip, WithLoop, Listed,
       Given, Backs
  <2>2. QED
    BY <2>1, NoNewOwnerKeepsOne, Zenon DEF Exclusive
<1>9. QED
  BY <1>5, <1>7, <1>8, Zenon

\* tryPutIdleConn passes c from an owner, whose own move is given by the
\* last assumption, to a wantConn, to the idle list or to nobody.
LEMMA OwnedPut ==
    ASSUME Typed, Places, Exclusive, NEW c \in Wants, Putting(c),
           WithDial(c) \/ WithLoop(c) \/ \E r \in Reqs : Backs(r, c),
           ~WithDial(c)' /\ ~WithTrip(c)' /\ ~WithLoop(c)' /\ \A r \in Reqs : ~Backs(r, c)',
           \A x \in Wants \ {c} :
              /\ WithDial(x)' => WithDial(x)
              /\ WithTrip(x)' => WithTrip(x)
              /\ WithLoop(x)' => WithLoop(x)
              /\ \A r \in Reqs : Backs(r, x)' => Backs(r, x)
    PROVE  Exclusive'
<1>1. OneOwner(c)
  BY Zenon DEF Exclusive
<1>2. ~Listed(c) /\ \A w \in Wants : ~Given(w, c)
  BY <1>1, Zenon DEF OneOwner
<1>3. CASE UNCHANGED result
  <2>1. Range(idleConn') \subseteq Range(idleConn) \cup {c}
    BY Zenon DEF Putting
  <2>2. \A x \in Wants \ {c} : NoNewOwner(x)
    BY <1>3, <2>1, Zenon DEF NoNewOwner, Listed, Given
  <2>3. OneOwner(c)'
    BY <1>2, <1>3, Zenon DEF OneOwner, Given
  <2>4. QED
    BY <2>2, <2>3, NoNewOwnerKeepsOne, Zenon DEF Exclusive
<1>4. ASSUME NEW w \in Wants, tryDeliver(w, c), UNCHANGED idleConn PROVE Exclusive'
  <2>1. result'[w] = c /\ \A v \in Wants \ {w} : result'[v] = result[v]
    BY <1>4, DeliverProperties, Zenon DEF Typed
  <2>2. \A x \in Wants \ {c} : NoNewOwner(x)
    BY <1>4, <2>1, Zenon DEF NoNewOwner, Listed, Given
  <2>3. OneOwner(c)'
    BY <1>2, <1>4, <2>1, Zenon DEF OneOwner, Listed, Given
  <2>4. QED
    BY <2>2, <2>3, NoNewOwnerKeepsOne, Zenon DEF Exclusive
<1>5. QED
  BY <1>3, <1>4, Zenon DEF Putting

\* The three owners that put a connection back.
LEMMA OwnedPutIdle ==
    ASSUME Typed, Places, Exclusive, Puts
    PROVE  Exclusive'
<1> USE DEF Typed
<1>1. ASSUME NEW r \in Reqs, CancelPutIdle(r) PROVE Exclusive'
  <2>1. PICK c \in Wants : c = conn[r]
    BY <1>1, Zenon DEF CancelPutIdle, ReqTyped, Places, Conns
  <2>2. Putting(c) /\ Backs(r, c)
    BY <1>1, <2>1, PutProperties, Zenon DEF CancelPutIdle, Backs
  <2>3. UNCHANGED <<dialer, expects, loop>>
    BY <1>1, Zenon DEF CancelPutIdle, queue, rl
  <2>4. pc'[r] # "putIdle" /\ \A q \in Reqs \ {r} : pc'[q] = pc[q] /\ conn'[q] = conn[q]
    BY <1>1, Zenon DEF CancelPutIdle, Ends, GotoR, ReqTyped
  <2>5. OneOwner(c)
    BY Zenon DEF Exclusive
  <2>6. ~WithDial(c)' /\ ~WithTrip(c)' /\ ~WithLoop(c)' /\ \A q \in Reqs : ~Backs(q, c)'
    BY <2>2, <2>3, <2>4, <2>5, Zenon DEF OneOwner, WithDial, WithTrip, WithLoop, Backs
  <2>7. QED
    BY <2>2, <2>3, <2>4, <2>6, OwnedPut DEF WithDial, WithTrip, WithLoop, Backs
<1>2. ASSUME NEW c \in Wants, DialPutIdle(c) PROVE Exclusive'
  <2>1. Putting(c) /\ dialer[c] = "putIdle"
    BY <1>2, PutProperties, Zenon DEF DialPutIdle, Dialer
  <2>2. UNCHANGED <<expects, loop, pc, conn>>
    BY <1>2, Zenon DEF DialPutIdle, rl, reqs
  <2>3. dialer'[c] \in {"gone", "close"} /\ \A x \in Wants \ {c} : dialer'[x] = dialer[x]
    BY <1>2, Zenon DEF DialPutIdle, Dialer, QueueTyped
  <2>4. OneOwner(c)
    BY Zenon DEF Exclusive
  <2>5. WithDial(c) /\ ~WithDial(c)'
    BY <2>1, <2>3, Zenon DEF WithDial
  <2>6. ~WithTrip(c)' /\ ~WithLoop(c)' /\ \A q \in Reqs : ~Backs(q, c)'
    BY <2>2, <2>4, <2>5, Zenon DEF OneOwner, WithTrip, WithLoop, Backs
  <2>7. QED
    BY <2>1, <2>2, <2>3, <2>5, <2>6, OwnedPut, Zenon DEF WithDial, WithTrip, WithLoop, Backs
<1>3. ASSUME NEW c \in Wants, LoopPutIdle(c) PROVE Exclusive'
  <2>1. Putting(c) /\ loop[c] \in {"putIdle", "putIdleEOF"}
    BY <1>3, PutProperties, Zenon DEF LoopPutIdle, Loop
  <2>2. UNCHANGED <<expects, dialer, pc, conn>>
    BY <1>3, Zenon DEF LoopPutIdle, queue, reqs
  <2>3. loop'[c] \in {"reply", "peek", "close"} /\ \A x \in Wants \ {c} : loop'[x] = loop[x]
    BY <1>3, Zenon DEF LoopPutIdle, Loop, LoopTyped
  <2>4. OneOwner(c)
    BY Zenon DEF Exclusive
  <2>5. WithLoop(c) /\ ~WithLoop(c)'
    BY <2>1, <2>3, Zenon DEF WithLoop
  <2>6. ~WithDial(c)' /\ ~WithTrip(c)' /\ \A q \in Reqs : ~Backs(q, c)'
    BY <2>2, <2>4, <2>5, Zenon DEF OneOwner, WithDial, WithTrip, Backs
  <2>7. QED
    BY <2>1, <2>2, <2>3, <2>5, <2>6, OwnedPut, Zenon DEF WithDial, WithTrip, WithLoop, Backs
<1>4. QED
  BY <1>1, <1>2, <1>3, Zenon DEF Puts

\* A connection never has two owners.
LEMMA ExclusiveStep ==
    ASSUME Typed, Places, Queued, Made, Exclusive, IsInjective(idleConn), Next
    PROVE  Exclusive'
<1>1. CASE Trips /\ Loops /\ Gives /\ Returns /\ Lists /\ Dials
  <2>1. \A x \in Wants : NoNewOwner(x)
    BY <1>1, Zenon DEF NoNewOwner, WithDial, WithTrip, Listed, Given, Backs, Trips, Loops,
       Gives, Returns, Lists, Dials
  <2>2. QED
    BY <2>1, NoNewOwnerKeepsOne, Zenon DEF Exclusive
<1>2. \/ Trips /\ Loops /\ Gives /\ Returns /\ Lists /\ Dials
      \/ \E r \in Reqs : GotConn(r) \/ CancelWant(r)
      \/ \E w \in Wants : Response(w) \/ DialConn(w)
      \/ Delivers \/ Puts
  BY TripMoves, LoopHolds, GiveMoves, ReturnMoves, ListMoves, DialMoves, Zenon
<1>3. Delivers => Puts \/ (\E r \in Reqs : QueueForIdleConn(r)) \/ \E w \in Wants : Deliver(w)
  BY Zenon DEF Delivers, Puts
<1>4. QED
  BY <1>1, <1>2, <1>3, OwnedGotConn, OwnedCancelWant, OwnedResponse, OwnedDialConn, OwnedDeliver,
     OwnedQueueForIdle, OwnedPutIdle, Zenon

-----------------------------------------------------------------------------
(* The idle list and the timers.                                           *)

\* A listed connection is listed once and has its timer.  One that has a
\* timer is listed, unless it is too old or closed.
Timers ==
  /\ IsInjective(idleConn) /\ Range(idleConn) \subseteq idleLRU
  /\ \A c \in idleLRU : c \in Range(idleConn) \/ c \in tooOld \/ closed[c]

\* A closed connection stays closed.
LEMMA ClosedStays ==
    ASSUME Typed, Places, Queued, Made, Next
    PROVE  \A x \in Wants : closed[x] => closed'[x]
<1>1. ASSUME NEW w \in Wants, DialConn(w) PROVE UNCHANGED closed
  BY <1>1, Zenon DEF DialConn, pers
<1>2. QED
  BY <1>1, DialMoves, Zenon DEF Closes

\* Every step keeps the list and the timers together.
LEMMA TimersStep ==
    ASSUME Typed, Places, Queued, Made, Exclusive, Timers, Next
    PROVE  Timers'
<1> USE DEF Typed
<1>0. \A x \in Wants : closed[x] => closed'[x]
  BY ClosedStays, Zenon
<1>1. ASSUME NEW r \in Reqs, CancelPutIdle(r) PROVE Timers'
  <2>0. PICK c \in Wants : c = conn[r]
    BY <1>1, Zenon DEF CancelPutIdle, ReqTyped, Places, Conns
  <2>1. Putting(c) /\ tooOld' = tooOld /\ closed' = closed
    BY <1>1, <2>0, PutProperties, Zenon DEF CancelPutIdle, pers, misc, hist
  <2>2. c \notin Range(idleConn)
    BY <1>1, <2>0, Zenon DEF CancelPutIdle, Exclusive, OneOwner, Listed, Backs
  <2>3. QED
    BY <2>1, <2>2, Zenon DEF Timers, Putting
<1>2. ASSUME NEW w \in Wants, DialPutIdle(w) PROVE Timers'
  <2>1. Putting(w) /\ tooOld' = tooOld /\ closed' = closed
    BY <1>2, PutProperties, Zenon DEF DialPutIdle, pers, misc, hist
  <2>2. w \notin Range(idleConn)
    BY <1>2, Zenon DEF DialPutIdle, Exclusive, OneOwner, Listed, WithDial, Dialer
  <2>3. QED
    BY <2>1, <2>2, Zenon DEF Timers, Putting
<1>3. ASSUME NEW c \in Wants, LoopPutIdle(c) PROVE Timers'
  <2>1. Putting(c) /\ tooOld' = tooOld /\ closed' = closed
    BY <1>3, PutProperties, Zenon DEF LoopPutIdle, pers, misc, hist
  <2>2. c \notin Range(idleConn)
    BY <1>3, Zenon DEF LoopPutIdle, Exclusive, OneOwner, Listed, WithLoop, Loop
  <2>3. QED
    BY <2>1, <2>2, Zenon DEF Timers, Putting
<1>4. ASSUME NEW r \in Reqs, QueueForIdleConn(r) PROVE Timers'
  <2>1. MaxWants \in Nat /\ Range(<<>>) = {}
    BY TransportAssumption DEF Range
  <2>2. /\ Range(idleConn') \subseteq Range(idleConn) /\ IsInjective(idleConn')
        /\ \/ \E c \in Range(idleConn) :
                 /\ c \notin Range(idleConn') /\ idleLRU' = idleLRU \ {c} /\ tooOld' = tooOld
                 /\ \A x \in Range(idleConn) \ Range(idleConn') : x = c \/ closed[x]
           \/ \E old \in SUBSET Range(idleConn) :
                 /\ idleConn' = <<>> /\ idleLRU' = idleLRU /\ tooOld' = tooOld \cup old
                 /\ \A x \in Range(idleConn) \ old : closed[x]
    BY <1>4, <2>1, QueueForIdleProperties, Zenon DEF IdleTyped, WantTyped, Timers
  <2>3. closed' = closed
    BY <1>4, Zenon DEF QueueForIdleConn, pers
  <2>4. QED
    BY <2>1, <2>2, <2>3, Zenon DEF Timers
<1>5. ASSUME NEW c \in Wants, RemoveIdleConn(c) PROVE Timers'
  <2>1. /\ IsInjective(idleConn') /\ Range(idleConn') = Range(idleConn) \ {c} /\ idleLRU' = idleLRU \ {c}
    BY <1>5, RemoveProperties, Zenon DEF RemoveIdleConn, IdleTyped, Timers
  <2>2. UNCHANGED <<closed, tooOld>>
    BY <1>5, Zenon DEF RemoveIdleConn, pers, misc, hist
  <2>3. QED
    BY <2>1, <2>2, Zenon DEF Timers
<1>6. ASSUME NEW c \in Wants, IdleTimer(c) \/ CloseTooOld(c) PROVE Timers'
  <2>1. tooOld' = tooOld /\ closeConnIfStillIdle(c)
    BY <1>6, Zenon DEF IdleTimer, CloseTooOld, hist
  <2>2. \/ /\ idleLRU' = idleLRU \ {c} /\ IsInjective(idleConn')
           /\ Range(idleConn') = Range(idleConn) \ {c}
        \/ UNCHANGED <<idleConn, idleLRU>>
    BY <2>1, StillIdleProperties, Zenon DEF Timers
  <2>3. QED
    BY <1>0, <2>1, <2>2, Zenon DEF Timers, IdleTyped
<1>7. ASSUME CloseIdleConnections PROVE Timers'
  BY <1>7 DEF CloseIdleConnections, Range, IsInjective, Timers
<1>8. ASSUME NEW r \in Reqs, StartCancelled(r) \/ QueueForDial(r) \/ GotConn(r) \/ GotErr(r) \/ CancelWant(r) \/ CancelClose(r)
                             \/ ConnClosed(r) \/ CtxDone(r) \/ CancelRequest(r) \/ HeaderTimeout(r)
      PROVE Timers'
  <2>1. UNCHANGED <<idleConn, idleLRU, tooOld>>
    BY <1>8, Zenon DEF StartCancelled, QueueForDial, GotConn, GotErr, CancelWant, CancelClose,
       ConnClosed, CtxDone, CancelRequest, HeaderTimeout, idle, misc, hist
  <2>2. QED
    BY <1>0, <2>1, Zenon DEF Timers, IdleTyped
<1>9. ASSUME NEW c \in Wants, Dial(c) \/ DialUnwanted(c) \/ DialConn(c) \/ DialFails(c) \/ DialDec(c) \/ Deliver(c) \/
                              DialClose(c) \/ LoopPut(c) \/ Reply(c) \/ CallerGone(c) \/ BodyDone(c)
                              \/ BodyCancelled(c) \/ BodyConnClosed(c) \/ LoopClose(c) \/
                              Response(c) \/ ReadFails(c) \/ PeekFails(c) \/ WriteFails(c)
      PROVE Timers'
  <2>1. UNCHANGED <<idleConn, idleLRU, tooOld>>
    BY <1>9, Zenon DEF Dial, DialUnwanted, DialConn, DialFails, DialDec, Deliver, DialClose,
       LoopPut, Reply, CallerGone, BodyDone, BodyCancelled, BodyConnClosed, LoopClose, Response,
       ReadFails, PeekFails, WriteFails, idle, misc, hist
  <2>2. QED
    BY <1>0, <2>1, Zenon DEF Timers, IdleTyped
<1>10. ASSUME CloseIdleOne PROVE Timers'
  <2>1. UNCHANGED <<idleConn, idleLRU, tooOld>>
    BY <1>10, Zenon DEF CloseIdleOne, idle, misc, hist
  <2>2. QED
    BY <1>0, <2>1, Zenon DEF Timers, IdleTyped
<1>11. QED
  BY <1>1, <1>2, <1>3, <1>4, <1>5, <1>6, <1>7, <1>8, <1>9, <1>10, Zenon DEF Next, ReqStep,
     DialStep, LoopStep, PeerStep

-----------------------------------------------------------------------------
(* Requests and the connections that serve them.                           *)

Replies == {"put", "putIdle", "reply", "replyBody", "replyErr"}

\* readLoop of an open connection answers a request that waits for it.
ServedBy(c) ==
  /\ loop[c] \in {"remove", "gone"} => closed[c]
  /\ loop[c] = "body" => rc[c] \in Reqs /\ pc[rc[c]] = "body" /\ conn[rc[c]] = c
  /\ WithTrip(c) /\ ~closed[c] => pc[expects[c]] = "wait" /\ conn[expects[c]] = c
  /\ loop[c] \in Replies =>
       /\ rc[c] \in Reqs
       /\ ~closed[c] => pc[rc[c]] = "wait" /\ conn[rc[c]] = c /\ expects[c] # rc[c]

Served == \A c \in Wants : ServedBy(c)

\* A request that waits on connection c, or reads a body from it, goes on with
\* it, unless c is closed.
Stays(c) ==
  \A q \in Reqs : conn[q] = c =>
    /\ pc[q] = "body" => pc'[q] = "body" /\ conn'[q] = c
    /\ pc[q] = "wait" => closed'[c] \/ (pc'[q] = "wait" /\ conn'[q] = c)

\* Nothing changes for a connection whose readLoop and requests stay.
LEMMA ServedStays ==
    ASSUME Typed, NEW c \in Wants, ServedBy(c), Stays(c), closed[c] => closed'[c],
           loop'[c] = loop[c], rc'[c] = rc[c], expects'[c] = expects[c]
    PROVE  ServedBy(c)'
<1>1. expects[c] # None => expects[c] \in Reqs
  BY Zenon DEF Typed, LoopTyped
<1>2. QED
  BY <1>1, Zenon DEF ServedBy, Stays, WithTrip

\* Every step keeps requests and connections in step.
LEMMA ServedStep ==
    ASSUME Typed, Places, Queued, Made, Exclusive, Served, Next
    PROVE  Served'
<1> USE DEF Typed
<1>0. \A x \in Wants : ServedBy(x) /\ (closed[x] => closed'[x])
  BY ClosedStays, Zenon DEF Served
<1>00. \A x \in Wants : expects[x] # None => expects[x] \in Reqs
  BY Zenon DEF LoopTyped
<1>1. ASSUME NEW r \in Reqs, StartCancelled(r) \/ GotErr(r) \/ CancelClose(r) PROVE Served'
  <2>1. UNCHANGED rl
    BY <1>1, Zenon DEF StartCancelled, GotErr, CancelClose
  <2>2. \A x \in Wants : Stays(x)
    BY <1>1, Zenon DEF StartCancelled, GotErr, CancelClose, Stays, Ends, ReqTyped
  <2>3. QED
    BY <1>0, <2>2, <2>1, ServedStays, Zenon DEF rl, Served
<1>2. ASSUME NEW r \in Reqs, CancelWant(r) \/ CancelPutIdle(r) \/ QueueForDial(r) PROVE Served'
  <2>1. UNCHANGED rl
    BY <1>2, Zenon DEF CancelWant, CancelPutIdle, QueueForDial
  <2>2. \A x \in Wants : Stays(x)
    BY <1>2, Zenon DEF CancelWant, CancelPutIdle, QueueForDial, Stays, Ends, GotoR, ReqTyped
  <2>3. QED
    BY <1>0, <2>2, <2>1, ServedStays, Zenon DEF rl, Served
<1>3. ASSUME NEW r \in Reqs, QueueForIdleConn(r) PROVE Served'
  <2>1. UNCHANGED rl
    BY <1>3, Zenon DEF QueueForIdleConn
  <2>2. pc[r] = "start" /\ conn' = conn /\ \E p \in {"select", "dial"} : pc' = [pc EXCEPT ![r] = p]
    BY <1>3, Zenon DEF QueueForIdleConn
  <2>3. \A x \in Wants : Stays(x)
    BY <2>2, Zenon DEF Stays, ReqTyped
  <2>4. QED
    BY <1>0, <2>1, <2>3, ServedStays, Zenon DEF rl, Served
<1>4. ASSUME NEW r \in Reqs, HeaderTimeout(r) PROVE Served'
  <2>1. UNCHANGED rl
    BY <1>4, Zenon DEF HeaderTimeout
  <2>2. conn[r] \in Wants /\ dialer \in [Wants -> DialPlaces] /\ close(conn[r], dialer)
    BY <1>4, Zenon DEF HeaderTimeout, QueueTyped, ReqTyped, Places, Conns
  <2>3. closed'[conn[r]]
    BY <2>2, CloseProperties, Zenon
  <2>4. \A x \in Wants : Stays(x)
    BY <1>4, <2>3, Zenon DEF HeaderTimeout, Stays, Ends, ReqTyped
  <2>5. QED
    BY <1>0, <2>4, <2>1, ServedStays, Zenon DEF rl, Served
<1>5. ASSUME NEW r \in Reqs, ConnClosed(r) PROVE Served'
  <2>1. UNCHANGED rl
    BY <1>5, Zenon DEF ConnClosed
  <2>2. \A x \in Wants : Stays(x)
    BY <1>5, <1>0, Zenon DEF ConnClosed, Stays, TripFails, Ends, ReqTyped, pers
  <2>3. QED
    BY <1>0, <2>2, <2>1, ServedStays, Zenon DEF rl, Served
<1>6. ASSUME NEW r \in Reqs, GotConn(r) PROVE Served'
  <2>0. PICK c \in Wants : c = result[want[r]]
    BY <1>6, Zenon DEF GotConn
  <2>1. /\ UNCHANGED <<loop, rc>> /\ expects'[c] = r /\ \A x \in Wants \ {c} : expects'[x] = expects[x]
    BY <1>6, <2>0, Zenon DEF GotConn, LoopTyped
  <2>2. /\ pc[r] = "select" /\ pc'[r] = "wait" /\ conn'[r] = c
        /\ \A q \in Reqs \ {r} : pc'[q] = pc[q] /\ conn'[q] = conn[q]
    BY <1>6, <2>0, Zenon DEF GotConn, ReqTyped
  <2>3. \A x \in Wants : Stays(x)
    BY <2>2, Zenon DEF Stays
  <2>4. \A x \in Wants \ {c} : ServedBy(x)'
    BY <1>0, <2>1, <2>3, ServedStays, Zenon DEF Served
  <2>5. ServedBy(c)'
    BY <1>0, <2>1, <2>2 DEF Served, ServedBy
  <2>6. QED
    BY <2>4, <2>5, Zenon DEF Served
<1>7. ASSUME NEW w \in Wants, DialConn(w) PROVE Served'
  <2>1. /\ UNCHANGED <<expects, rc, pc, conn>> /\ loop'[w] = "peek" /\ loop[w] = "none"
        /\ \A x \in Wants \ {w} : loop'[x] = loop[x]
    BY <1>7, Zenon DEF DialConn, Dialer, LoopTyped, Made, reqs
  <2>2. expects[w] = None /\ \A x \in Wants : Stays(x)
    BY <2>1, Zenon DEF Made, Stays
  <2>3. \A x \in Wants \ {w} : ServedBy(x)'
    BY <1>0, <2>1, <2>2, ServedStays, Zenon DEF Served
  <2>4. ServedBy(w)'
    BY <2>1, <2>2, Zenon DEF ServedBy, WithTrip, Replies
  <2>5. QED
    BY <2>3, <2>4, Zenon DEF Served
<1>8. ASSUME NEW c \in Wants, LoopPut(c) \/ LoopPutIdle(c) PROVE Served'
  <2>1. /\ \A x \in Wants \ {c} : loop'[x] = loop[x] /\ rc'[x] = rc[x] /\ expects'[x] = expects[x]
    BY <1>8, Zenon DEF LoopPut, LoopPutIdle, Loop, LoopTyped
  <2>2. \A x \in Wants \ {c} : Stays(x)
    BY <1>8, <1>00, Zenon DEF LoopPut, LoopPutIdle, Stays, Served, ServedBy, reqs
  <2>3. \A x \in Wants \ {c} : ServedBy(x)'
    BY <1>0, <2>1, <2>2, ServedStays, Zenon DEF Served
  <2>4. ServedBy(c)'
    <3>1. /\ UNCHANGED <<expects, rc, pc, conn>>
          /\ \/ loop[c] \in {"put", "putIdle"} /\ loop'[c] \in {"reply", "putIdle"}
             \/ loop'[c] \in {"close", "putIdleEOF", "peek"}
      BY <1>8, Zenon DEF LoopPut, LoopPutIdle, Loop, LoopTyped, reqs
    <3>2. QED
      BY <1>0, <1>00, <3>1, Zenon DEF Served, ServedBy, WithTrip, Replies
  <2>5. QED
    BY <2>3, <2>4, Zenon DEF Served
<1>9. ASSUME NEW c \in Wants, Reply(c) PROVE Served'
  <2>1. /\ \A x \in Wants \ {c} : loop'[x] = loop[x] /\ rc'[x] = rc[x] /\ expects'[x] = expects[x]
    BY <1>9, Zenon DEF Reply, Loop, LoopTyped
  <2>2. \A x \in Wants \ {c} : Stays(x)
    BY <1>9, <1>00 DEF Reply, Stays, Served, ServedBy, Ends, TripFails, ReqTyped
  <2>3. \A x \in Wants \ {c} : ServedBy(x)'
    BY <1>0, <2>1, <2>2, ServedStays, Zenon DEF Served
  <2>4. ServedBy(c)'
    <3>1. /\ UNCHANGED <<expects, rc, closed>> /\ loop[c] \in Replies
          /\ \A q \in Reqs \ {rc[c]} : pc'[q] = pc[q] /\ conn'[q] = conn[q]
          /\ \/ loop'[c] \in {"peek", "close"}
             \/ loop'[c] = "body" /\ pc' = [pc EXCEPT ![rc[c]] = "body"] /\ conn' = conn /\ conn[rc[c]] = c
      BY <1>9, Zenon DEF Reply, Loop, Ends, TripFails, LoopTyped, ReqTyped, Replies, pers
    <3>2. rc[c] \in Reqs /\ (~closed[c] => expects[c] # rc[c])
      BY <1>0, <3>1, Zenon DEF ServedBy
    <3>3. loop'[c] = "body" => pc'[rc[c]] = "body" /\ conn'[rc[c]] = c
      BY <3>1, <3>2, Zenon DEF ReqTyped
    <3>4. WithTrip(c) /\ ~closed[c] => pc'[expects[c]] = "wait" /\ conn'[expects[c]] = c
      BY <1>0, <1>00, <3>1, <3>2 DEF ServedBy, WithTrip
    <3>5. QED
      BY <3>1, <3>2, <3>3, <3>4, Zenon DEF ServedBy, WithTrip, Replies
  <2>5. QED
    BY <2>3, <2>4, Zenon DEF Served
<1>10. ASSUME NEW c \in Wants, CallerGone(c) PROVE Served'
  <2>1. /\ \A x \in Wants \ {c} : loop'[x] = loop[x] /\ rc'[x] = rc[x] /\ expects'[x] = expects[x]
    BY <1>10, Zenon DEF CallerGone, Loop, LoopTyped
  <2>2. \A x \in Wants \ {c} : Stays(x)
    BY <1>10, <1>00, Zenon DEF CallerGone, Stays, Served, ServedBy, reqs
  <2>3. \A x \in Wants \ {c} : ServedBy(x)'
    BY <1>0, <2>1, <2>2, ServedStays, Zenon DEF Served
  <2>4. ServedBy(c)'
    BY <1>10, <1>0, <1>00, Zenon DEF CallerGone, reqs, Served, ServedBy, WithTrip, Replies,
       LoopTyped
  <2>5. QED
    BY <2>3, <2>4, Zenon DEF Served
<1>11. ASSUME NEW c \in Wants, BodyDone(c) \/ BodyConnClosed(c) PROVE Served'
  <2>1. /\ \A x \in Wants \ {c} : loop'[x] = loop[x] /\ rc'[x] = rc[x] /\ expects'[x] = expects[x]
    BY <1>11, Zenon DEF BodyDone, BodyConnClosed, Loop, LoopTyped
  <2>2. \A x \in Wants \ {c} : Stays(x)
    BY <1>11, <1>00 DEF BodyDone, BodyConnClosed, Stays, Served, ServedBy, Loop, Ends, ReqTyped
  <2>3. \A x \in Wants \ {c} : ServedBy(x)'
    BY <1>0, <2>1, <2>2, ServedStays, Zenon DEF Served
  <2>4. ServedBy(c)'
    BY <1>11, <1>0, <1>00 DEF BodyDone, BodyConnClosed, Loop, Ends, ReqTyped, Served, ServedBy,
       WithTrip, Replies, LoopTyped
  <2>5. QED
    BY <2>3, <2>4, Zenon DEF Served
<1>12. ASSUME NEW c \in Wants, BodyCancelled(c) PROVE Served'
  <2>0. closed'[c]
    <3>1. dialer \in [Wants -> DialPlaces] /\ close(c, dialer)
      BY <1>12, Zenon DEF BodyCancelled, QueueTyped
    <3>2. QED
      BY <3>1, CloseProperties, Zenon
  <2>1. /\ \A x \in Wants \ {c} : loop'[x] = loop[x] /\ rc'[x] = rc[x] /\ expects'[x] = expects[x]
    BY <1>12, Zenon DEF BodyCancelled, Loop, LoopTyped
  <2>2. \A x \in Wants \ {c} : Stays(x)
    BY <1>12, <1>00, Zenon DEF BodyCancelled, Stays, Served, ServedBy, Loop, Ends, ReqTyped
  <2>3. \A x \in Wants \ {c} : ServedBy(x)'
    BY <1>0, <2>1, <2>2, ServedStays, Zenon DEF Served
  <2>4. ServedBy(c)'
    BY <1>12, <2>0, <1>00, Zenon DEF BodyCancelled, Loop, Ends, ReqTyped, Served, ServedBy,
       WithTrip, Replies, LoopTyped
  <2>5. QED
    BY <2>3, <2>4, Zenon DEF Served
<1>13. ASSUME NEW c \in Wants, LoopClose(c) \/ PeekFails(c) PROVE Served'
  <2>0. closed'[c]
    <3>1. dialer \in [Wants -> DialPlaces] /\ close(c, dialer)
      BY <1>13, Zenon DEF LoopClose, PeekFails, QueueTyped
    <3>2. QED
      BY <3>1, CloseProperties, Zenon
  <2>1. /\ \A x \in Wants \ {c} : loop'[x] = loop[x] /\ rc'[x] = rc[x] /\ expects'[x] = expects[x]
    BY <1>13, Zenon DEF LoopClose, PeekFails, Loop, LoopTyped
  <2>2. \A x \in Wants \ {c} : Stays(x)
    BY <1>13, <1>00, Zenon DEF LoopClose, PeekFails, Stays, Served, ServedBy, reqs
  <2>3. \A x \in Wants \ {c} : ServedBy(x)'
    BY <1>0, <2>1, <2>2, ServedStays, Zenon DEF Served
  <2>4. ServedBy(c)'
    BY <1>13, <2>0, <1>00 DEF LoopClose, PeekFails, Loop, reqs, Served, ServedBy, WithTrip,
       Replies, LoopTyped
  <2>5. QED
    BY <2>3, <2>4, Zenon DEF Served
<1>14. ASSUME NEW c \in Wants, RemoveIdleConn(c) PROVE Served'
  <2>1. /\ \A x \in Wants \ {c} : loop'[x] = loop[x] /\ rc'[x] = rc[x] /\ expects'[x] = expects[x]
    BY <1>14, Zenon DEF RemoveIdleConn, Loop, LoopTyped
  <2>2. \A x \in Wants \ {c} : Stays(x)
    BY <1>14, <1>00, Zenon DEF RemoveIdleConn, Stays, Served, ServedBy, reqs
  <2>3. \A x \in Wants \ {c} : ServedBy(x)'
    BY <1>0, <2>1, <2>2, ServedStays, Zenon DEF Served
  <2>4. ServedBy(c)'
    BY <1>14, <1>0, <1>00, Zenon DEF RemoveIdleConn, Loop, reqs, Served, ServedBy, WithTrip,
       Replies, LoopTyped
  <2>5. QED
    BY <2>3, <2>4, Zenon DEF Served
<1>15. ASSUME NEW c \in Wants, Response(c) \/ ReadFails(c) PROVE Served'
  <2>1. /\ \A x \in Wants \ {c} : loop'[x] = loop[x] /\ rc'[x] = rc[x] /\ expects'[x] = expects[x]
    BY <1>15, Zenon DEF Response, ReadFails, Loop, LoopTyped
  <2>2. \A x \in Wants \ {c} : Stays(x)
    BY <1>15, <1>00, Zenon DEF Response, ReadFails, Stays, Served, ServedBy, reqs
  <2>3. \A x \in Wants \ {c} : ServedBy(x)'
    BY <1>0, <2>1, <2>2, ServedStays, Zenon DEF Served
  <2>4. ServedBy(c)'
    BY <1>15, <1>0, <1>00, TransportAssumption DEF Response, ReadFails, Loop, reqs, pers,
       Served, ServedBy, WithTrip, Replies, LoopTyped
  <2>5. QED
    BY <2>3, <2>4, Zenon DEF Served
<1>16. ASSUME NEW r \in Reqs, CtxDone(r) \/ CancelRequest(r) PROVE Served'
  <2>1. UNCHANGED <<rl, pc, conn>>
    BY <1>16, Zenon DEF CtxDone, CancelRequest, reqs
  <2>2. \A x \in Wants : Stays(x)
    BY <2>1, Zenon DEF Stays
  <2>3. QED
    BY <1>0, <2>1, <2>2, ServedStays, Zenon DEF rl, Served
<1>17. ASSUME NEW c \in Wants, Dial(c) \/ DialUnwanted(c) \/ DialFails(c) \/ DialDec(c) \/ Deliver(c) \/ DialPutIdle(c) \/
                               DialClose(c) \/ WriteFails(c) \/ IdleTimer(c) \/ CloseTooOld(c)
       PROVE Served'
  <2>1. UNCHANGED <<rl, pc, conn>>
    BY <1>17, Zenon DEF Dial, DialUnwanted, DialFails, DialDec, Deliver, DialPutIdle, DialClose,
       WriteFails, IdleTimer, CloseTooOld, reqs
  <2>2. \A x \in Wants : Stays(x)
    BY <2>1, Zenon DEF Stays
  <2>3. QED
    BY <1>0, <2>1, <2>2, ServedStays, Zenon DEF rl, Served
<1>18. ASSUME CloseIdleConnections \/ CloseIdleOne PROVE Served'
  <2>1. UNCHANGED <<rl, pc, conn>>
    BY <1>18, Zenon DEF CloseIdleConnections, CloseIdleOne, reqs
  <2>2. \A x \in Wants : Stays(x)
    BY <2>1, Zenon DEF Stays
  <2>3. QED
    BY <1>0, <2>1, <2>2, ServedStays, Zenon DEF rl, Served
<1>19. QED
  BY <1>1, <1>2, <1>3, <1>4, <1>5, <1>6, <1>7, <1>8, <1>9, <1>10, <1>11, <1>12, <1>13, <1>14,
     <1>15, <1>16, <1>17, <1>18, Zenon DEF Next, ReqStep, DialStep, LoopStep, PeerStep

-----------------------------------------------------------------------------
(* An open connection is with somebody who uses it or closes it.           *)

Late(c) == dialer[c] \in {"dialed", "putIdle", "close"}

\* c can be had by a request.
Offered(c) == Listed(c) \/ \E w \in Wants : Given(w, c)

\* c is closed, or somebody has it other than the request that readLoop is
\* about to answer, for whom it was put back already.
Has(c) ==
  \/ closed[c] \/ c \in tooOld \/ c \in Range(closer) \/ Late(c) \/ Offered(c)
  \/ \E r \in Reqs : conn[r] = c /\ (loop[c] = "reply" => r # rc[c])

\* readLoop waits for the next request, or has one answer to give before.
Between(c) == loop[c] = "peek" \/ (loop[c] = "reply" /\ alive[c])

Holding == \A c \in Wants : Between(c) => Has(c)

\* tryPutIdleConn offers the connection or refuses it.
LEMMA PutOffers ==
    ASSUME Typed, NEW c \in Wants, PutDelivers(c) \/ PutIdles(c)
    PROVE  Offered(c)'
<1>1. CASE PutDelivers(c)
  <2>1. PICK w \in Wants : tryDeliver(w, c)
    BY <1>1, PutDeliversProperties, Zenon DEF Typed, IdleTyped
  <2>2. result'[w] = c
    BY <2>1, DeliverProperties, Zenon DEF Typed
  <2>3. QED
    BY <2>2, Zenon DEF Offered, Given
<1>2. CASE PutIdles(c)
  BY <1>2, PutIdlesProperties, Zenon DEF Typed, IdleTyped, Offered, Listed
<1>3. QED
  BY <1>1, <1>2, Zenon

\* A dial that has a connection keeps it, offers it or closes it.
LateKept == \A x \in Wants : Late(x) => Late(x)' \/ closed'[x] \/ Offered(x)'

\* Every step keeps LateKept.
LEMMA DialKeeps ==
    ASSUME Typed, Places, Queued, Made, Next
    PROVE  LateKept
<1> USE DEF Typed
<1>1. ASSUME NEW r \in Reqs, QueueForDial(r) PROVE LateKept
  <2>1. want[r] \in Wants /\ dialer[want[r]] = "none"
    BY <1>1, WantOfRequest, Zenon DEF QueueForDial, GotoR, Queued
  <2>2. QED
    BY <1>1, <2>1, Zenon DEF QueueForDial, QueueTyped, LateKept, Late
<1>2. ASSUME NEW w \in Wants, DialUnwanted(w) \/ DialDec(w) PROVE LateKept
  <2> DEFINE d == [dialer EXCEPT ![w] = "gone"]
  <2>1. d \in [Wants -> DialPlaces] /\ ~Late(w) /\ \A x \in Wants : x # w => d[x] = dialer[x]
    BY <1>2, Zenon DEF DialUnwanted, DialDec, Late, QueueTyped, DialPlaces
  <2> HIDE DEF d
  <2>2. HandsOn(d)
    BY <1>2, <2>1, DecHandsOn, Zenon DEF DialUnwanted, DialDec, d
  <2>3. QED
    BY <2>1, <2>2, Zenon DEF HandsOn, Queued, LateKept, Late
<1>3. ASSUME NEW w \in Wants, DialClose(w) PROVE LateKept
  <2> DEFINE d == [dialer EXCEPT ![w] = "gone"]
  <2>1. d \in [Wants -> DialPlaces] /\ \A x \in Wants : x # w => d[x] = dialer[x]
    BY Zenon DEF QueueTyped, DialPlaces
  <2> HIDE DEF d
  <2>2. HandsOn(d) /\ closed'[w]
    BY <1>3, <2>1, CloseProperties, Zenon DEF DialClose, d
  <2>3. QED
    BY <2>1, <2>2, Zenon DEF HandsOn, Queued, LateKept, Late
<1>4. ASSUME NEW r \in Reqs, CancelClose(r) \/ CtxDone(r) \/ HeaderTimeout(r) PROVE LateKept
  <2>1. conn[r] \in Wants /\ dialer \in [Wants -> DialPlaces] /\ close(conn[r], dialer)
    BY <1>4, Zenon DEF CancelClose, CtxDone, HeaderTimeout, QueueTyped, ReqTyped, Places, Conns
  <2>2. HandsOn(dialer)
    BY <2>1, CloseProperties, Zenon
  <2>3. QED
    BY <2>1, <2>2, Zenon DEF HandsOn, Queued, LateKept, Late
<1>5. ASSUME NEW c \in Wants, BodyCancelled(c) \/ LoopClose(c) \/ PeekFails(c) \/ WriteFails(c)
      PROVE LateKept
  <2>1. c \in Wants /\ dialer \in [Wants -> DialPlaces] /\ close(c, dialer)
    BY <1>5, Zenon DEF BodyCancelled, LoopClose, PeekFails, WriteFails, QueueTyped
  <2>2. HandsOn(dialer)
    BY <2>1, CloseProperties, Zenon
  <2>3. QED
    BY <2>1, <2>2, Zenon DEF HandsOn, Queued, LateKept, Late
<1>6. ASSUME CloseIdleOne PROVE LateKept
  <2>1. Head(closer) \in Wants /\ dialer \in [Wants -> DialPlaces] /\ close(Head(closer), dialer)
    BY <1>6, RangeOfTail DEF CloseIdleOne, QueueTyped, HistTyped, Range
  <2>2. HandsOn(dialer)
    BY <2>1, CloseProperties, Zenon
  <2>3. QED
    BY <2>1, <2>2, Zenon DEF HandsOn, Queued, LateKept, Late
<1>7. ASSUME NEW c \in Wants, IdleTimer(c) \/ CloseTooOld(c) PROVE LateKept
  <2>1. closeConnIfStillIdle(c)
    BY <1>7, Zenon DEF IdleTimer, CloseTooOld
  <2>2. HandsOn(dialer)
    BY <2>1, StillIdleProperties, Zenon
  <2>3. QED
    BY <2>1, <2>2, Zenon DEF HandsOn, Queued, LateKept, Late
<1>8. ASSUME NEW w \in Wants, Dial(w) \/ DialConn(w) \/ DialFails(w) PROVE LateKept
  BY <1>8, Zenon DEF Dial, DialConn, DialFails, Dialer, QueueTyped, LateKept, Late
<1>9. ASSUME NEW w \in Wants, Deliver(w) PROVE LateKept
  <2>1. \A x \in Wants \ {w} : dialer'[x] = dialer[x]
    BY <1>9, Zenon DEF Deliver, Dialer, QueueTyped
  <2>2. dialer'[w] \in {"close", "putIdle"} \/ result'[w] = w
    BY <1>9, Zenon DEF Deliver, Dialer, tryDeliver, QueueTyped, WantTyped
  <2>3. QED
    BY <2>1, <2>2, Zenon DEF LateKept, Late, Offered, Given
<1>10. ASSUME NEW w \in Wants, DialPutIdle(w) PROVE LateKept
  <2>1. \A x \in Wants \ {w} : dialer'[x] = dialer[x]
    BY <1>10, Zenon DEF DialPutIdle, Dialer, QueueTyped
  <2>2. dialer'[w] = "close" \/ PutDelivers(w) \/ PutIdles(w)
    BY <1>10, Zenon DEF DialPutIdle, Dialer, QueueTyped
  <2>3. QED
    BY <2>1, <2>2, PutOffers, Zenon DEF LateKept, Late
<1>11. ASSUME NEW r \in Reqs, StartCancelled(r) \/ QueueForIdleConn(r) \/ GotConn(r) \/ GotErr(r) \/ CancelWant(r) \/
                              CancelPutIdle(r) \/ ConnClosed(r) \/ CancelRequest(r)
       PROVE LateKept
  <2>1. UNCHANGED dialer
    BY <1>11, Zenon DEF StartCancelled, QueueForIdleConn, GotConn, GotErr, CancelWant,
       CancelPutIdle, ConnClosed, CancelRequest, queue
  <2>2. QED
    BY <2>1, Zenon DEF LateKept, Late
<1>12. ASSUME NEW c \in Wants, LoopPut(c) \/ LoopPutIdle(c) \/ Reply(c) \/ CallerGone(c) \/ BodyDone(c) \/ BodyConnClosed(c) \/
                               RemoveIdleConn(c) \/ Response(c) \/ ReadFails(c)
       PROVE LateKept
  <2>1. UNCHANGED dialer
    BY <1>12, Zenon DEF LoopPut, LoopPutIdle, Reply, CallerGone, BodyDone, BodyConnClosed,
       RemoveIdleConn, Response, ReadFails, queue
  <2>2. QED
    BY <2>1, Zenon DEF LateKept, Late
<1>13. ASSUME CloseIdleConnections PROVE LateKept
  <2>1. UNCHANGED dialer
    BY <1>13, Zenon DEF CloseIdleConnections, queue
  <2>2. QED
    BY <2>1, Zenon DEF LateKept, Late
<1>14. QED
  BY <1>1, <1>2, <1>3, <1>4, <1>5, <1>6, <1>7, <1>8, <1>9, <1>10, <1>11, <1>12, <1>13, Zenon DEF
     Next, ReqStep, DialStep, LoopStep, PeerStep

\* What leaves the idle list is delivered, closed, too old or about to be closed.
ListKept ==
  \A x \in Wants : Listed(x) => Offered(x)' \/ closed'[x] \/ x \in tooOld' \/ x \in Range(closer')

\* Every step keeps ListKept.
LEMMA ListKeeps ==
    ASSUME Typed, Places, Queued, Made, Timers, Served, Next
    PROVE  ListKept
<1> USE DEF Typed
<1>0. \A x \in Wants : closed[x] => closed'[x]
  BY ClosedStays, Zenon
<1>1. ASSUME NEW r \in Reqs, QueueForIdleConn(r) PROVE ListKept
  <2>1. MaxWants \in Nat /\ wants + 1 \in Wants
    BY <1>1, TransportAssumption, Numbers, Zenon DEF QueueForIdleConn, WantTyped
  <2>2. \/ \E c \in Range(idleConn) :
              /\ tryDeliver(wants + 1, c)
              /\ \A x \in Range(idleConn) \ Range(idleConn') : x = c \/ closed[x]
        \/ \E old \in SUBSET Range(idleConn) :
              tooOld' = tooOld \cup old /\ \A x \in Range(idleConn) \ old : closed[x]
    BY <1>1, <2>1, QueueForIdleProperties, Zenon DEF IdleTyped, WantTyped
  <2>3. CASE \E old \in SUBSET Range(idleConn) :
               tooOld' = tooOld \cup old /\ \A x \in Range(idleConn) \ old : closed[x]
    BY <1>0, <2>3, Zenon DEF ListKept, Listed
  <2>4. ASSUME NEW c \in Range(idleConn), tryDeliver(wants + 1, c),
               \A x \in Range(idleConn) \ Range(idleConn') : x = c \/ closed[x]
        PROVE  ListKept
    <3>1. result'[wants + 1] = c
      BY <2>1, <2>4, DeliverProperties, Zenon
    <3>2. QED
      BY <1>0, <2>1, <2>4, <3>1, Zenon DEF ListKept, Listed, Offered, Given
  <2>5. QED
    BY <2>2, <2>3, <2>4, Zenon
<1>2. ASSUME NEW r \in Reqs, CancelPutIdle(r) PROVE ListKept
  <2>1. conn[r] \in Wants /\ Putting(conn[r])
    BY <1>2, PutProperties, Zenon DEF CancelPutIdle, ReqTyped, Places, Conns
  <2>2. Range(idleConn) \subseteq Range(idleConn')
    BY <2>1, Zenon DEF Putting
  <2>3. QED
    BY <2>2, Zenon DEF ListKept, Offered, Listed
<1>3. ASSUME NEW w \in Wants, DialPutIdle(w) PROVE ListKept
  <2>1. w \in Wants /\ Putting(w)
    BY <1>3, PutProperties, Zenon DEF DialPutIdle
  <2>2. Range(idleConn) \subseteq Range(idleConn')
    BY <2>1, Zenon DEF Putting
  <2>3. QED
    BY <2>2, Zenon DEF ListKept, Offered, Listed
<1>4. ASSUME NEW c \in Wants, LoopPutIdle(c) PROVE ListKept
  <2>1. c \in Wants /\ Putting(c)
    BY <1>4, PutProperties, Zenon DEF LoopPutIdle
  <2>2. Range(idleConn) \subseteq Range(idleConn')
    BY <2>1, Zenon DEF Putting
  <2>3. QED
    BY <2>2, Zenon DEF ListKept, Offered, Listed
<1>5. ASSUME NEW c \in Wants, RemoveIdleConn(c) PROVE ListKept
  <2>1. Range(idleConn') = Range(idleConn) \ {c}
    BY <1>5, RemoveProperties, Zenon DEF RemoveIdleConn, IdleTyped, Timers
  <2>2. closed[c]
    BY <1>5, Zenon DEF RemoveIdleConn, Loop, Served, ServedBy
  <2>3. QED
    BY <1>0, <2>1, <2>2, Zenon DEF ListKept, Offered, Listed
<1>6. ASSUME NEW c \in Wants, IdleTimer(c) \/ CloseTooOld(c) PROVE ListKept
  <2>1. closeConnIfStillIdle(c)
    BY <1>6, Zenon DEF IdleTimer, CloseTooOld
  <2>2. (closed'[c] /\ Range(idleConn') = Range(idleConn) \ {c}) \/ UNCHANGED idleConn
    BY <2>1, StillIdleProperties, Zenon DEF Timers
  <2>3. QED
    BY <2>2, Zenon DEF ListKept, Offered, Listed
<1>7. ASSUME CloseIdleConnections PROVE ListKept
  BY <1>7, Zenon DEF CloseIdleConnections, ListKept, Listed
<1>8. ASSUME NEW r \in Reqs, StartCancelled(r) \/ QueueForDial(r) \/ GotConn(r) \/ GotErr(r) \/ CancelWant(r) \/ CancelClose(r)
                             \/ ConnClosed(r) \/ CtxDone(r) \/ CancelRequest(r) \/ HeaderTimeout(r)
      PROVE ListKept
  <2>1. UNCHANGED idleConn
    BY <1>8, Zenon DEF StartCancelled, QueueForDial, GotConn, GotErr, CancelWant, CancelClose,
       ConnClosed, CtxDone, CancelRequest, HeaderTimeout, idle
  <2>2. QED
    BY <2>1, Zenon DEF ListKept, Offered, Listed
<1>9. ASSUME NEW c \in Wants, Dial(c) \/ DialUnwanted(c) \/ DialConn(c) \/ DialFails(c) \/ DialDec(c) \/ Deliver(c) \/
                              DialClose(c) \/ LoopPut(c) \/ Reply(c) \/ CallerGone(c) \/ BodyDone(c)
                              \/ BodyCancelled(c) \/ BodyConnClosed(c) \/ LoopClose(c) \/
                              Response(c) \/ ReadFails(c) \/ PeekFails(c) \/ WriteFails(c)
      PROVE ListKept
  <2>1. UNCHANGED idleConn
    BY <1>9, Zenon DEF Dial, DialUnwanted, DialConn, DialFails, DialDec, Deliver, DialClose,
       LoopPut, Reply, CallerGone, BodyDone, BodyCancelled, BodyConnClosed, LoopClose, Response,
       ReadFails, PeekFails, WriteFails, idle
  <2>2. QED
    BY <2>1, Zenon DEF ListKept, Offered, Listed
<1>10. ASSUME CloseIdleOne PROVE ListKept
  <2>1. UNCHANGED idleConn
    BY <1>10, Zenon DEF CloseIdleOne, idle
  <2>2. QED
    BY <2>1, Zenon DEF ListKept, Offered, Listed
<1>11. QED
  BY <1>1, <1>2, <1>3, <1>4, <1>5, <1>6, <1>7, <1>8, <1>9, <1>10, Zenon DEF Next, ReqStep,
     DialStep, LoopStep, PeerStep

\* CloseIdleConnections closes what it took from the list.
CloserKept == \A x \in Range(closer) : x \in Range(closer') \/ closed'[x]

\* Every step keeps CloserKept.
LEMMA CloserKeeps ==
    ASSUME Typed, Places, Queued, Next
    PROVE  CloserKept
<1> USE DEF Typed
<1>1. ASSUME CloseIdleOne PROVE CloserKept
  <2>0. closer # <<>> /\ closer \in Seq(Wants) /\ Head(closer) \in Wants
    BY <1>1 DEF CloseIdleOne, HistTyped
  <2>1. Range(closer) = Range(Tail(closer)) \cup {Head(closer)}
    BY <2>0, RangeOfTail, Zenon
  <2>2. dialer \in [Wants -> DialPlaces] /\ close(Head(closer), dialer) /\ closer' = Tail(closer)
    BY <1>1, Zenon DEF CloseIdleOne, QueueTyped
  <2>3. closed'[Head(closer)]
    BY <2>0, <2>2, CloseProperties, Zenon
  <2>4. QED
    BY <2>1, <2>2, <2>3, Zenon DEF CloserKept
<1>2. ASSUME CloseIdleConnections PROVE CloserKept
  BY <1>2 DEF CloseIdleConnections, Range, CloserKept
<1>3. ASSUME NEW r \in Reqs, StartCancelled(r) \/ QueueForIdleConn(r) \/ QueueForDial(r) \/ GotConn(r) \/ GotErr(r) \/
                             CancelWant(r) \/ CancelPutIdle(r) \/ CancelClose(r) \/ ConnClosed(r) \/
                             CtxDone(r) \/ CancelRequest(r) \/ HeaderTimeout(r)
      PROVE CloserKept
  <2>1. UNCHANGED closer
    BY <1>3, Zenon DEF StartCancelled, QueueForIdleConn, QueueForDial, GotConn, GotErr,
       CancelWant, CancelPutIdle, CancelClose, ConnClosed, CtxDone, CancelRequest,
       HeaderTimeout, misc, hist
  <2>2. QED
    BY <2>1, Zenon DEF CloserKept
<1>4. ASSUME NEW c \in Wants, Dial(c) \/ DialUnwanted(c) \/ DialConn(c) \/ DialFails(c) \/ DialDec(c) \/ Deliver(c) \/
                              DialPutIdle(c) \/ DialClose(c) \/ LoopPut(c) \/ LoopPutIdle(c) \/
                              Reply(c) \/ CallerGone(c) \/ BodyDone(c) \/ BodyCancelled(c) \/
                              BodyConnClosed(c) \/ LoopClose(c) \/ RemoveIdleConn(c) \/ Response(c)
                              \/ ReadFails(c) \/ PeekFails(c) \/ WriteFails(c) \/ IdleTimer(c) \/
                              CloseTooOld(c)
      PROVE CloserKept
  <2>1. UNCHANGED closer
    BY <1>4, Zenon DEF Dial, DialUnwanted, DialConn, DialFails, DialDec, Deliver, DialPutIdle,
       DialClose, LoopPut, LoopPutIdle, Reply, CallerGone, BodyDone, BodyCancelled,
       BodyConnClosed, LoopClose, RemoveIdleConn, Response, ReadFails, PeekFails, WriteFails,
       IdleTimer, CloseTooOld, misc, hist
  <2>2. QED
    BY <2>1, Zenon DEF CloserKept
<1>5. QED
  BY <1>1, <1>2, <1>3, <1>4, Zenon DEF Next, ReqStep, DialStep, LoopStep, PeerStep

\* A connection that was delivered stays so until its request takes it.
GivenKept ==
  \A w, x \in Wants : Given(w, x) => Given(w, x)' \/ \E r \in Reqs : conn'[r] = x /\ pc[r] = "select"

\* Every step keeps GivenKept.
LEMMA ResultKeeps ==
    ASSUME Typed, Places, Queued, Next
    PROVE  GivenKept
<1> USE DEF Typed
<1>0. ASSUME NEW v \in Wants, NEW y \in Results, ~done[v], tryDeliver(v, y)
      PROVE  \A w, x \in Wants : result[w] = x => result'[w] = x
  <2>1. result[v] = NoConn /\ \A w \in Wants \ {v} : result'[w] = result[w]
    BY <1>0, DeliverProperties, Zenon DEF Places
  <2>2. QED
    BY <2>1, Numbers, Zenon
<1>1. ASSUME NEW r \in Reqs, GotConn(r) \/ GotErr(r) \/ CancelWant(r) PROVE GivenKept
  <2>1. want[r] \in Wants /\ pc[r] = "select"
    BY <1>1, WantOfRequest, Zenon DEF GotConn, GotErr, CancelWant
  <2>2. \A v \in Wants \ {want[r]} : result'[v] = result[v]
    BY <1>1, <2>1, Zenon DEF GotConn, GotErr, CancelWant, WantTyped
  <2>3. result[want[r]] \in Wants => conn'[r] = result[want[r]]
    BY <1>1, Numbers, Zenon DEF GotConn, GotErr, CancelWant, ReqTyped
  <2>4. QED
    BY <2>1, <2>2, <2>3, Zenon DEF GivenKept, Given
<1>2. ASSUME NEW r \in Reqs, QueueForIdleConn(r) PROVE GivenKept
  <2>1. UNCHANGED result \/ \E v \in Wants, y \in Results : ~done[v] /\ tryDeliver(v, y)
    <3>1. MaxWants \in Nat /\ wants + 1 \in Wants /\ wants + 1 > wants /\ Range(idleConn) \subseteq Results
      BY <1>2, TransportAssumption, Numbers DEF QueueForIdleConn, WantTyped, IdleTyped, Range,
         Results, Conns
    <3>2. UNCHANGED result \/ \E c \in Range(idleConn) : tryDeliver(wants + 1, c)
      BY <1>2, <3>1, QueueForIdleProperties, Zenon DEF IdleTyped, WantTyped
    <3>3. ~done[wants + 1]
      BY <3>1, Zenon DEF Places
    <3>4. QED
      BY <3>1, <3>2, <3>3, Zenon
  <2>2. QED
    BY <2>1, <1>0, Zenon DEF GivenKept, Given
<1>3. ASSUME NEW r \in Reqs, CancelPutIdle(r) PROVE GivenKept
  <2>1. UNCHANGED result \/ \E v \in Wants, y \in Results : ~done[v] /\ tryDeliver(v, y)
    <3>1. conn[r] \in Wants /\ conn[r] \in Results /\ Putting(conn[r])
      BY <1>3, PutProperties, Zenon DEF CancelPutIdle, Results, Conns, ReqTyped, Places
    <3>2. QED
      BY <3>1, Zenon DEF Putting
  <2>2. QED
    BY <2>1, <1>0, Zenon DEF GivenKept, Given
<1>4. ASSUME NEW w \in Wants, DialPutIdle(w) PROVE GivenKept
  <2>1. UNCHANGED result \/ \E v \in Wants, y \in Results : ~done[v] /\ tryDeliver(v, y)
    <3>1. w \in Wants /\ w \in Results /\ Putting(w)
      BY <1>4, PutProperties, Zenon DEF DialPutIdle, Results, Conns
    <3>2. QED
      BY <3>1, Zenon DEF Putting
  <2>2. QED
    BY <2>1, <1>0, Zenon DEF GivenKept, Given
<1>5. ASSUME NEW c \in Wants, LoopPutIdle(c) PROVE GivenKept
  <2>1. UNCHANGED result \/ \E v \in Wants, y \in Results : ~done[v] /\ tryDeliver(v, y)
    <3>1. c \in Wants /\ c \in Results /\ Putting(c)
      BY <1>5, PutProperties, Zenon DEF LoopPutIdle, Results, Conns
    <3>2. QED
      BY <3>1, Zenon DEF Putting
  <2>2. QED
    BY <2>1, <1>0, Zenon DEF GivenKept, Given
<1>6. ASSUME NEW w \in Wants, Deliver(w) \/ DialFails(w) PROVE GivenKept
  <2>1. UNCHANGED result \/ \E v \in Wants, y \in Results : ~done[v] /\ tryDeliver(v, y)
    BY <1>6, Zenon DEF Deliver, DialFails, Waiting, wc, Results, Conns
  <2>2. QED
    BY <2>1, <1>0, Zenon DEF GivenKept, Given
<1>7. ASSUME NEW r \in Reqs, StartCancelled(r) \/ QueueForDial(r) \/ CancelClose(r) \/ ConnClosed(r) \/ CtxDone(r) \/
                             CancelRequest(r) \/ HeaderTimeout(r)
      PROVE GivenKept
  <2>1. UNCHANGED result
    BY <1>7, Zenon DEF StartCancelled, QueueForDial, CancelClose, ConnClosed, CtxDone,
       CancelRequest, HeaderTimeout, wc
  <2>2. QED
    BY <2>1, Zenon DEF GivenKept, Given
<1>8. ASSUME NEW c \in Wants, Dial(c) \/ DialUnwanted(c) \/ DialConn(c) \/ DialDec(c) \/ DialClose(c) \/ LoopPut(c) \/ Reply(c) \/
                              CallerGone(c) \/ BodyDone(c) \/ BodyCancelled(c) \/ BodyConnClosed(c)
                              \/ LoopClose(c) \/ RemoveIdleConn(c) \/ Response(c) \/ ReadFails(c) \/
                              PeekFails(c) \/ WriteFails(c) \/ IdleTimer(c) \/ CloseTooOld(c)
      PROVE GivenKept
  <2>1. UNCHANGED result
    BY <1>8, Zenon DEF Dial, DialUnwanted, DialConn, DialDec, DialClose, LoopPut, Reply,
       CallerGone, BodyDone, BodyCancelled, BodyConnClosed, LoopClose, RemoveIdleConn, Response,
       ReadFails, PeekFails, WriteFails, IdleTimer, CloseTooOld, wc
  <2>2. QED
    BY <2>1, Zenon DEF GivenKept, Given
<1>9. ASSUME CloseIdleConnections \/ CloseIdleOne PROVE GivenKept
  <2>1. UNCHANGED result
    BY <1>9, Zenon DEF CloseIdleConnections, CloseIdleOne, wc
  <2>2. QED
    BY <2>1, Zenon DEF GivenKept, Given
<1>10. QED
  BY <1>1, <1>2, <1>3, <1>4, <1>5, <1>6, <1>7, <1>8, <1>9, Zenon DEF Next, ReqStep, DialStep,
     LoopStep, PeerStep

\* A request gives its connection up when readLoop has served it, when the
\* connection is closed, or by putting it back.
ConnKept ==
  \A r \in Reqs : conn[r] \in Wants =>
    \/ conn'[r] = conn[r] \/ closed'[conn[r]]
    \/ \E x \in Wants : x = conn[r] /\ Offered(x)'
    \/ r = rc[conn[r]] /\ loop[conn[r]] \in {"reply", "replyErr", "body"}

\* Every step keeps ConnKept.
LEMMA RequestKeeps ==
    ASSUME Typed, Places, Queued, Made, Served, Next
    PROVE  ConnKept
<1> USE DEF Typed
<1>1. ASSUME NEW r \in Reqs, StartCancelled(r) \/ GotErr(r) PROVE ConnKept
  <2>1. conn[r] = NoConn /\ \A q \in Reqs \ {r} : conn'[q] = conn[q]
    BY <1>1, Zenon DEF StartCancelled, GotErr, Ends, ReqTyped, Places
  <2>2. QED
    BY <2>1, Numbers, Zenon DEF ConnKept
<1>2. ASSUME NEW r \in Reqs, GotConn(r) \/ CancelWant(r) PROVE ConnKept
  <2>1. conn[r] = NoConn /\ \A q \in Reqs \ {r} : conn'[q] = conn[q]
    BY <1>2, Zenon DEF GotConn, CancelWant, Ends, ReqTyped, Places
  <2>2. QED
    BY <2>1, Numbers, Zenon DEF ConnKept
<1>3. ASSUME NEW r \in Reqs, CancelPutIdle(r) PROVE ConnKept
  <2>1. PICK c \in Wants : c = conn[r]
    BY <1>3, Zenon DEF CancelPutIdle, ReqTyped, Places, Conns
  <2>2. (PutDelivers(c) \/ PutIdles(c)) \/ conn' = conn
    BY <1>3, <2>1, Zenon DEF CancelPutIdle
  <2>3. Offered(c)' \/ conn' = conn
    BY <2>2, PutOffers, Zenon
  <2>4. \A q \in Reqs \ {r} : conn'[q] = conn[q]
    BY <1>3, Zenon DEF CancelPutIdle, Ends, ReqTyped
  <2>5. QED
    BY <2>1, <2>3, <2>4, Zenon DEF ConnKept
<1>4. ASSUME NEW r \in Reqs, CancelClose(r) \/ HeaderTimeout(r) PROVE ConnKept
  <2>1. conn[r] \in Wants /\ dialer \in [Wants -> DialPlaces] /\ close(conn[r], dialer)
    BY <1>4, Zenon DEF CancelClose, HeaderTimeout, QueueTyped, ReqTyped, Places, Conns
  <2>2. closed'[conn[r]]
    BY <2>1, CloseProperties, Zenon
  <2>3. \A q \in Reqs \ {r} : conn'[q] = conn[q]
    BY <1>4, Zenon DEF CancelClose, HeaderTimeout, Ends, ReqTyped
  <2>4. QED
    BY <2>2, <2>3, Zenon DEF ConnKept
<1>5. ASSUME NEW r \in Reqs, ConnClosed(r) PROVE ConnKept
  <2>1. closed[conn[r]] /\ closed' = closed /\ \A q \in Reqs \ {r} : conn'[q] = conn[q]
    BY <1>5, Zenon DEF ConnClosed, TripFails, Ends, ReqTyped, pers
  <2>2. QED
    BY <2>1, Zenon DEF ConnKept
<1>6. ASSUME NEW c \in Wants, Reply(c) PROVE ConnKept
  <2>1. /\ loop[c] \in {"reply", "replyErr"} \/ conn' = conn
        /\ conn[rc[c]] = c /\ \A q \in Reqs \ {rc[c]} : conn'[q] = conn[q]
    BY <1>6, Zenon DEF Reply, Loop, TripFails, Ends, ReqTyped
  <2>2. QED
    BY <2>1, Zenon DEF ConnKept
<1>7. ASSUME NEW c \in Wants, BodyDone(c) \/ BodyCancelled(c) \/ BodyConnClosed(c) PROVE ConnKept
  <2>1. loop[c] = "body" /\ \A q \in Reqs \ {rc[c]} : conn'[q] = conn[q]
    BY <1>7, Zenon DEF BodyDone, BodyCancelled, BodyConnClosed, Loop, Ends, ReqTyped
  <2>2. rc[c] \in Reqs /\ conn[rc[c]] = c
    BY <2>1, Zenon DEF Served, ServedBy
  <2>3. QED
    BY <2>1, <2>2, Zenon DEF ConnKept
<1>8. ASSUME NEW r \in Reqs, QueueForIdleConn(r) \/ QueueForDial(r) \/ CtxDone(r) \/ CancelRequest(r)
      PROVE ConnKept
  <2>1. UNCHANGED conn
    BY <1>8, Zenon DEF QueueForIdleConn, QueueForDial, CtxDone, CancelRequest, reqs
  <2>2. QED
    BY <2>1, Zenon DEF ConnKept
<1>9. ASSUME NEW c \in Wants, Dial(c) \/ DialUnwanted(c) \/ DialConn(c) \/ DialFails(c) \/ DialDec(c) \/ Deliver(c) \/
                              DialPutIdle(c) \/ DialClose(c) \/ LoopPut(c) \/ LoopPutIdle(c) \/
                              CallerGone(c) \/ LoopClose(c) \/ RemoveIdleConn(c) \/ Response(c) \/
                              ReadFails(c) \/ PeekFails(c) \/ WriteFails(c) \/ IdleTimer(c) \/
                              CloseTooOld(c)
      PROVE ConnKept
  <2>1. UNCHANGED conn
    BY <1>9, Zenon DEF Dial, DialUnwanted, DialConn, DialFails, DialDec, Deliver, DialPutIdle,
       DialClose, LoopPut, LoopPutIdle, CallerGone, LoopClose, RemoveIdleConn, Response,
       ReadFails, PeekFails, WriteFails, IdleTimer, CloseTooOld, reqs
  <2>2. QED
    BY <2>1, Zenon DEF ConnKept
<1>10. ASSUME CloseIdleConnections \/ CloseIdleOne PROVE ConnKept
  <2>1. UNCHANGED conn
    BY <1>10, Zenon DEF CloseIdleConnections, CloseIdleOne, reqs
  <2>2. QED
    BY <2>1, Zenon DEF ConnKept
<1>11. QED
  BY <1>1, <1>2, <1>3, <1>4, <1>5, <1>6, <1>7, <1>8, <1>9, <1>10, Zenon DEF Next, ReqStep,
     DialStep, LoopStep, PeerStep

\* readLoop goes on waiting, has an answer to give or has given it, or a new
\* connection or one that was put back begins to wait.
Enters ==
  \A x \in Wants : Between(x)' =>
    \/ loop[x] = "peek" /\ loop'[x] = "peek"
    \/ Between(x) /\ (loop'[x] = "reply" => loop[x] = "reply" /\ rc'[x] = rc[x])
    \/ Late(x)' \/ Offered(x)'

\* Every step keeps Enters.
LEMMA LoopEnters ==
    ASSUME Typed, Next
    PROVE  Enters
<1> USE DEF Typed
<1>1. ASSUME NEW w \in Wants, DialConn(w) PROVE Enters
  BY <1>1, Zenon DEF DialConn, Dialer, QueueTyped, LoopTyped, Enters, Between, Late
<1>2. ASSUME NEW c \in Wants, LoopPut(c) PROVE Enters
  <2>1. /\ loop'[c] # "peek" /\ (loop'[c] = "reply" => ~alive'[c])
        /\ \A x \in Wants \ {c} : loop'[x] = loop[x] /\ alive'[x] = alive[x]
    BY <1>2, Zenon DEF LoopPut, Loop, LoopTyped
  <2>2. rc' = rc
    BY <1>2, Zenon DEF LoopPut
  <2>3. QED
    BY <2>1, <2>2, Zenon DEF Enters, Between
<1>3. ASSUME NEW c \in Wants, LoopPutIdle(c) PROVE Enters
  <2>1. /\ \A x \in Wants \ {c} : loop'[x] = loop[x] /\ alive'[x] = alive[x]
        /\ rc' = rc
    BY <1>3, Zenon DEF LoopPutIdle, Loop, LoopTyped
  <2>2. PutDelivers(c) \/ PutIdles(c) \/ ~alive'[c]
    BY <1>3, Zenon DEF LoopPutIdle, LoopTyped
  <2>3. loop'[c] = "reply" \/ (loop'[c] = "peek" /\ alive'[c]) \/ loop'[c] = "close"
    BY <1>3, Zenon DEF LoopPutIdle, Loop, LoopTyped
  <2>4. Between(c)' => Offered(c)'
    BY <2>2, <2>3, PutOffers, Zenon DEF Between
  <2>5. QED
    BY <2>1, <2>4, Zenon DEF Enters, Between
<1>4. ASSUME NEW c \in Wants, Reply(c) \/ CallerGone(c) PROVE Enters
  BY <1>4 DEF Reply, CallerGone, Loop, LoopTyped, Enters, Between
<1>5. ASSUME NEW c \in Wants, BodyDone(c) \/ BodyCancelled(c) \/ BodyConnClosed(c) \/ LoopClose(c) \/ PeekFails(c)
      PROVE Enters
  BY <1>5, Zenon DEF BodyDone, BodyCancelled, BodyConnClosed, LoopClose, PeekFails, Loop,
     LoopTyped, Enters, Between
<1>6. ASSUME NEW c \in Wants, RemoveIdleConn(c) \/ Response(c) \/ ReadFails(c) PROVE Enters
  BY <1>6, Zenon DEF RemoveIdleConn, Response, ReadFails, Loop, LoopTyped, Enters, Between
<1>7. ASSUME NEW r \in Reqs, StartCancelled(r) \/ QueueForIdleConn(r) \/ QueueForDial(r) \/ GotConn(r) \/ GotErr(r) \/
                             CancelWant(r) \/ CancelPutIdle(r) \/ CancelClose(r) \/ ConnClosed(r) \/
                             CtxDone(r) \/ CancelRequest(r) \/ HeaderTimeout(r)
      PROVE Enters
  <2>1. UNCHANGED <<loop, rc, alive>>
    BY <1>7, Zenon DEF StartCancelled, QueueForIdleConn, QueueForDial, GotConn, GotErr,
       CancelWant, CancelPutIdle, CancelClose, ConnClosed, CtxDone, CancelRequest,
       HeaderTimeout, rl
  <2>2. QED
    BY <2>1, Zenon DEF Enters, Between
<1>8. ASSUME NEW c \in Wants, Dial(c) \/ DialUnwanted(c) \/ DialFails(c) \/ DialDec(c) \/ Deliver(c) \/ DialPutIdle(c) \/
                              DialClose(c) \/ WriteFails(c) \/ IdleTimer(c) \/ CloseTooOld(c)
      PROVE Enters
  <2>1. UNCHANGED <<loop, rc, alive>>
    BY <1>8, Zenon DEF Dial, DialUnwanted, DialFails, DialDec, Deliver, DialPutIdle, DialClose,
       WriteFails, IdleTimer, CloseTooOld, rl
  <2>2. QED
    BY <2>1, Zenon DEF Enters, Between
<1>9. ASSUME CloseIdleConnections \/ CloseIdleOne PROVE Enters
  <2>1. UNCHANGED <<loop, rc, alive>>
    BY <1>9, Zenon DEF CloseIdleConnections, CloseIdleOne, rl
  <2>2. QED
    BY <2>1, Zenon DEF Enters, Between
<1>10. QED
  BY <1>1, <1>2, <1>3, <1>4, <1>5, <1>6, <1>7, <1>8, <1>9, Zenon DEF Next, ReqStep, DialStep,
     LoopStep, PeerStep

\* What is too old stays so.
LEMMA TooOldStays ==
    ASSUME Typed, Next
    PROVE  tooOld \subseteq tooOld'
<1> USE DEF Typed
<1>1. ASSUME NEW r \in Reqs, QueueForIdleConn(r) PROVE tooOld \subseteq tooOld'
  <2>1. MaxWants \in Nat
    BY TransportAssumption, Zenon
  <2>2. tooOld' = tooOld \/ \E old : tooOld' = tooOld \cup old
    BY <1>1, <2>1, QueueForIdleProperties, Zenon DEF IdleTyped, WantTyped
  <2>3. QED
    BY <2>2, Zenon
<1>2. ASSUME NEW r \in Reqs, StartCancelled(r) \/ QueueForDial(r) \/ GotConn(r) \/ GotErr(r) \/ CancelWant(r) \/ CancelPutIdle(r)
                             \/ CancelClose(r) \/ ConnClosed(r) \/ CtxDone(r) \/ CancelRequest(r) \/
                             HeaderTimeout(r)
      PROVE tooOld \subseteq tooOld'
  <2>1. tooOld' = tooOld
    BY <1>2, Zenon DEF StartCancelled, QueueForDial, GotConn, GotErr, CancelWant, CancelPutIdle,
       CancelClose, ConnClosed, CtxDone, CancelRequest, HeaderTimeout, misc, hist
  <2>2. QED
    BY <2>1, Zenon
<1>3. ASSUME NEW c \in Wants, Dial(c) \/ DialUnwanted(c) \/ DialConn(c) \/ DialFails(c) \/ DialDec(c) \/ Deliver(c) \/
                              DialPutIdle(c) \/ DialClose(c) \/ LoopPut(c) \/ LoopPutIdle(c) \/
                              Reply(c) \/ CallerGone(c) \/ BodyDone(c) \/ BodyCancelled(c) \/
                              BodyConnClosed(c) \/ LoopClose(c) \/ RemoveIdleConn(c) \/ Response(c)
                              \/ ReadFails(c) \/ PeekFails(c) \/ WriteFails(c) \/ IdleTimer(c) \/
                              CloseTooOld(c)
      PROVE tooOld \subseteq tooOld'
  <2>1. tooOld' = tooOld
    BY <1>3, Zenon DEF Dial, DialUnwanted, DialConn, DialFails, DialDec, Deliver, DialPutIdle,
       DialClose, LoopPut, LoopPutIdle, Reply, CallerGone, BodyDone, BodyCancelled,
       BodyConnClosed, LoopClose, RemoveIdleConn, Response, ReadFails, PeekFails, WriteFails,
       IdleTimer, CloseTooOld, misc, hist
  <2>2. QED
    BY <2>1, Zenon
<1>4. ASSUME CloseIdleConnections \/ CloseIdleOne PROVE tooOld \subseteq tooOld'
  <2>1. tooOld' = tooOld
    BY <1>4, Zenon DEF CloseIdleConnections, CloseIdleOne, misc, hist
  <2>2. QED
    BY <2>1, Zenon
<1>5. QED
  BY <1>1, <1>2, <1>3, <1>4, Zenon DEF Next, ReqStep, DialStep, LoopStep, PeerStep

\* Nobody lets go of an open connection before somebody else has it.
LEMMA HoldingStep ==
    ASSUME Typed, Places, Queued, Made, Timers, Served, Holding, Next
    PROVE  Holding'
<1>1. /\ \A x \in Wants : closed[x] => closed'[x]
      /\ tooOld \subseteq tooOld'
      /\ LateKept /\ ListKept /\ CloserKept /\ GivenKept /\ ConnKept /\ Enters
  BY ClosedStays, TooOldStays, DialKeeps, ListKeeps, CloserKeeps, ResultKeeps, RequestKeeps,
     LoopEnters, Zenon
<1> SUFFICES ASSUME NEW x \in Wants, Between(x)', ~Late(x)', ~Offered(x)' PROVE Has(x)'
  BY Zenon DEF Holding, Has
<1>2. Between(x) /\ (loop'[x] = "reply" => loop[x] = "reply" /\ rc'[x] = rc[x])
  BY <1>1, Zenon DEF Enters, Between
<1>3. CASE closed[x] \/ x \in tooOld \/ x \in Range(closer) \/ Late(x) \/ Listed(x)
  BY <1>1, <1>3, Zenon DEF Has, LateKept, ListKept, CloserKept
<1>4. ASSUME NEW w \in Wants, Given(w, x), ~closed[x] PROVE Has(x)'
  <2>1. PICK r \in Reqs : conn'[r] = x /\ pc[r] = "select"
    BY <1>1, <1>4, Zenon DEF GivenKept, Offered
  <2>2. loop[x] = "reply" => r # rc[x]
    BY <1>4, <2>1, Zenon DEF Served, ServedBy, Replies
  <2>3. QED
    BY <1>2, <2>1, <2>2, Zenon DEF Has
<1>5. ASSUME NEW r \in Reqs, conn[r] = x, loop[x] = "reply" => r # rc[x] PROVE Has(x)'
  <2>1. conn'[r] = x \/ closed'[x]
    BY <1>1, <1>2, <1>5, Zenon DEF ConnKept, Between
  <2>2. QED
    BY <1>2, <1>5, <2>1, Zenon DEF Has
<1>6. QED
  BY <1>2, <1>3, <1>4, <1>5, Zenon DEF Holding, Has, Offered

-----------------------------------------------------------------------------
HeldInv == CountInv /\ Exclusive /\ Timers /\ Served /\ Holding

\* There is no connection at first.
LEMMA HeldInit == Init => HeldInv
<1> SUFFICES ASSUME Init PROVE HeldInv
  BY Zenon
<1>1. CountInv /\ Range(<<>>) = {} /\ IsInjective(<<>>)
  BY CountInit DEF Range, IsInjective
<1>2. /\ idleConn = <<>> /\ idleLRU = {}
      /\ \A x \in Wants :
            dialer[x] = "none" /\ loop[x] = "none" /\ expects[x] = None /\ result[x] = NoConn
      /\ \A r \in Reqs : pc[r] = "start"
  BY Zenon DEF Init
<1>3. Exclusive
  BY <1>1, <1>2, Numbers, Zenon DEF Exclusive, OneOwner, WithDial, WithTrip, WithLoop, Listed,
     Given, Backs
<1>4. Timers /\ Served /\ Holding
  BY <1>1, <1>2, Zenon DEF Timers, Served, ServedBy, WithTrip, Replies, Holding, Between
<1>5. QED
  BY <1>1, <1>3, <1>4, Zenon DEF HeldInv

\* The parts of the invariant together are inductive.
LEMMA HeldStep == HeldInv /\ [Next]_vars => HeldInv'
<1> SUFFICES ASSUME HeldInv, [Next]_vars PROVE HeldInv'
  BY Zenon
<1>1. CountInv'
  BY CountStep, Zenon DEF HeldInv
<1>2. CASE Next
  <2>1. Typed /\ Places /\ Queued /\ Made /\ Exclusive /\ Timers /\ Served /\ Holding /\ IsInjective(idleConn)
    BY Zenon DEF HeldInv, CountInv, Timers
  <2>2. Exclusive'
    BY <1>2, <2>1, ExclusiveStep, Zenon
  <2>3. Timers' /\ Served' /\ Holding'
    BY <1>2, <2>1, TimersStep, ServedStep, HoldingStep, Zenon
  <2>4. QED
    BY <1>1, <2>2, <2>3, Zenon DEF HeldInv
<1>3. CASE UNCHANGED vars
  <2>1. /\ UNCHANGED <<idleConn, idleLRU, tooOld, closed, loop, expects, rc, alive, pc, conn, closer>>
        /\ UNCHANGED <<dialer, result>>
    BY <1>3, Zenon DEF vars, queue, idle, pers, rl, reqs, wc, misc, hist
  <2>2. Exclusive'
    <3>1. \A x \in Wants : NoNewOwner(x)
      BY <2>1, Zenon DEF NoNewOwner, WithDial, WithTrip, WithLoop, Listed, Given, Backs
    <3>2. QED
      BY <3>1, NoNewOwnerKeepsOne, Zenon DEF HeldInv, Exclusive
  <2>6. Timers'
    BY <2>1, Zenon DEF HeldInv, Timers
  <2>3. Served'
    BY <2>1, Zenon DEF HeldInv, Served, ServedBy, WithTrip
  <2>4. Holding'
    BY <2>1, Zenon DEF HeldInv, Holding, Has, Between, Late, Offered, Listed, Given
  <2>5. QED
    BY <1>1, <2>2, <2>3, <2>4, <2>6, Zenon DEF HeldInv
<1>4. QED
  BY <1>2, <1>3, Zenon

\* An open connection is always with somebody who will use it or close it:
\* the idle list, a result, a request, the dial or readLoop; but for one that
\* queueForIdleConn dropped as too old.  A listed connection is listed once,
\* has its timer and was given to nobody.
THEOREM NeverStranded == Spec => []NothingStranded
<1>1. ASSUME HeldInv PROVE NothingStranded
  <2>1. Typed /\ Exclusive /\ Timers /\ Served /\ Holding
    BY <1>1, Zenon DEF HeldInv, CountInv
  <2>2. ASSUME NEW c \in Stranded PROVE c \in tooOld
    <3>1. c \in Wants /\ ~closed[c] /\ ~Held(c) /\ loop[c] \in {"peek", "gone"}
      BY Zenon DEF Stranded, Live, Held
    <3>2. loop[c] = "peek"
      BY <2>1, <3>1, Zenon DEF Served, ServedBy
    <3>3. Has(c)
      BY <2>1, <3>1, <3>2, Zenon DEF Holding, Between
    <3>4. QED
      BY <3>1, <3>3, Zenon DEF Has, Held, Late, Offered, Listed, Given
  <2>3. \A c \in Range(idleConn) : c \in Wants
    BY <2>1 DEF Typed, IdleTyped, Range
  <2>4. \A c \in Range(idleConn) : c \in idleLRU /\ \A w \in Wants : result[w] # c
    BY <2>1, <2>3, Zenon DEF Timers, Exclusive, OneOwner, Listed, Given
  <2>5. QED
    BY <2>1, <2>2, <2>4, Zenon DEF NothingStranded, Timers
<1>2. QED
  BY HeldInit, HeldStep, <1>1, PTL DEF Spec
=============================================================================
