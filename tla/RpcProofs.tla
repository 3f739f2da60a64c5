----------------------------- MODULE RpcProofs -----------------------------
(***************************************************************************)
(* Proofs about the RPC client and its server: a call is completed once,   *)
(* with the answer to its own request, for any set of calls.               *)
(***************************************************************************)
EXTENDS MCSessions, TLAPS

(***************************************************************************)
(* A call that is in pending, or that input has just taken out of it, has  *)
(* not been completed; when input has ended the pending calls, no call is  *)
(* between its registration and the end of send, because input holds       *)
(* reqMutex for that; and a number belongs to one call, so that the entry  *)
(* a number finds is the call's own.                                       *)
(***************************************************************************)
RpcNumbers ==
    /\ \A k \in RpcCalls : num[k] < seq
    /\ \A j, k \in RpcCalls : num[j] = num[k] /\ num[j] # 0 => j = k
    /\ \A p \in pending : p[1] # 0 /\ num[p[2]] = p[1]
    /\ \A k \in RpcCalls : kpc[k] \in {"new", "lock"} => num[k] = 0 /\ kdone[k] = 0
    /\ \A k \in RpcCalls : kpc[k] \in {"write", "fail"} => num[k] # 0

RpcMutex == \A k \in RpcCalls : kpc[k] \in {"write", "fail"} => reqMutex = k

RpcEnded ==
    /\ shutdown <=> input = "ended"
    /\ input = "ended" => \A k \in RpcCalls : kpc[k] \notin {"write", "fail"}

RpcUncompleted ==
    /\ input # "ended" => \A p \in pending : kdone[p[2]] = 0
    /\ call \in RpcCalls => /\ kdone[call] = 0 /\ num[call] = response.seq /\ num[call] # 0
                            /\ \A p \in pending : p[2] # call
    /\ input # "body" => call = NoCall

RpcResults ==
    \A k \in RpcCalls :
        /\ kdone[k] <= 1
        /\ kdone[k] = 0 => result[k][1] = "none"
        /\ result[k][1] \in {"reply", "server"} => result[k][2] = num[k]
        /\ result[k][1] = "ErrShutdown" => closing \/ shutdown

RpcInv == K!TypeOK /\ RpcNumbers /\ RpcMutex /\ RpcEnded /\ RpcUncompleted /\ RpcResults

\* A new client and server satisfy the inductive invariant.
LEMMA RpcInit ==
  ASSUME NoCall \notin RpcCalls, K!Init
  PROVE  RpcInv
<1>1. K!TypeOK
  BY DEF K!Init, K!TypeOK
<1>2. RpcNumbers /\ RpcMutex
  BY DEF K!Init, RpcNumbers, RpcMutex
<1>3. RpcEnded
  BY Zenon DEF K!Init, RpcEnded
<1>4. RpcUncompleted
  <2>1. pending = {} /\ call = NoCall /\ input = "header"
    BY Zenon DEF K!Init
  <2>2. call \notin RpcCalls
    BY <2>1, Zenon
  <2>3. QED
    BY <2>1, <2>2, Zenon DEF RpcUncompleted
<1>5. RpcResults
  BY DEF K!Init, RpcResults
<1>6. QED
  BY <1>1, <1>2, <1>3, <1>4, <1>5, Zenon DEF RpcInv

\* No step of a caller, of Close, of input or of the server breaks it.
LEMMA RpcStep ==
  ASSUME NoCall \notin RpcCalls, RpcInv, [K!Next]_(K!vars)
  PROVE  RpcInv'
<1> USE DEF RpcInv, K!Goto
<1>1. ASSUME NEW k \in RpcCalls, K!Go(k) PROVE RpcInv'
  <2>1. K!TypeOK'
    BY <1>1, Zenon DEF K!Go, K!reading, K!wire, K!server, K!TypeOK
  <2>2. RpcNumbers'
    BY <1>1, Zenon DEF K!Go, K!reading, K!wire, K!server, K!TypeOK, RpcNumbers
  <2>3. RpcMutex'
    BY <1>1, Zenon DEF K!Go, K!reading, K!wire, K!server, K!TypeOK, RpcMutex
  <2>4. RpcEnded'
    BY <1>1, Zenon DEF K!Go, K!reading, K!wire, K!server, K!TypeOK, RpcMutex, RpcEnded
  <2>5. RpcUncompleted'
    BY <1>1, Zenon DEF K!Go, K!reading, K!wire, K!server, K!TypeOK, RpcNumbers, RpcMutex,
       RpcEnded, RpcUncompleted
  <2>6. RpcResults'
    BY <1>1, Zenon DEF K!Go, K!reading, K!wire, K!server, K!TypeOK, RpcNumbers, RpcMutex,
       RpcEnded, RpcUncompleted, RpcResults
  <2>7. QED
    BY <2>1, <2>2, <2>3, <2>4, <2>5, <2>6, Zenon
<1>2. ASSUME NEW k \in RpcCalls, K!Register(k) PROVE RpcInv'
  <2>1. CASE shutdown \/ closing
    <3>1. K!TypeOK'
      BY <1>2, <2>1 DEF K!Register, K!Complete, K!reading, K!wire, K!server, K!TypeOK
    <3>2. RpcNumbers'
      BY <1>2, <2>1 DEF K!Register, K!Complete, K!reading, K!wire, K!server, K!TypeOK, RpcNumbers
    <3>3. RpcMutex'
      BY <1>2, <2>1, Zenon DEF K!Register, K!Complete, K!reading, K!wire, K!server, K!TypeOK,
         RpcMutex
    <3>4. RpcEnded'
      BY <1>2, <2>1, Zenon DEF K!Register, K!Complete, K!reading, K!wire, K!server, K!TypeOK,
         RpcMutex, RpcEnded
    <3>5. RpcUncompleted'
      BY <1>2, <2>1 DEF K!Register, K!Complete, K!reading, K!wire, K!server, K!TypeOK,
         RpcNumbers, RpcMutex, RpcEnded, RpcUncompleted
    <3>6. RpcResults'
      BY <1>2, <2>1 DEF K!Register, K!Complete, K!reading, K!wire, K!server, K!TypeOK,
         RpcNumbers, RpcMutex, RpcEnded, RpcUncompleted, RpcResults
    <3>7. QED
      BY <3>1, <3>2, <3>3, <3>4, <3>5, <3>6, Zenon
  <2>2. CASE ~(shutdown \/ closing)
    <3>1. K!TypeOK'
      BY <1>2, <2>2 DEF K!Register, K!Complete, K!reading, K!wire, K!server, K!TypeOK
    <3>2. RpcNumbers'
      BY <1>2, <2>2 DEF K!Register, K!Complete, K!reading, K!wire, K!server, K!TypeOK, RpcNumbers
    <3>3. RpcMutex'
      BY <1>2, <2>2, Zenon DEF K!Register, K!Complete, K!reading, K!wire, K!server, K!TypeOK,
         RpcMutex
    <3>4. RpcEnded'
      BY <1>2, <2>2, Zenon DEF K!Register, K!Complete, K!reading, K!wire, K!server, K!TypeOK,
         RpcMutex, RpcEnded
    <3>5. RpcUncompleted'
      BY <1>2, <2>2 DEF K!Register, K!Complete, K!reading, K!wire, K!server, K!TypeOK,
         RpcNumbers, RpcMutex, RpcEnded, RpcUncompleted
    <3>6. RpcResults'
      BY <1>2, <2>2 DEF K!Register, K!Complete, K!reading, K!wire, K!server, K!TypeOK,
         RpcNumbers, RpcMutex, RpcEnded, RpcUncompleted, RpcResults
    <3>7. QED
      BY <3>1, <3>2, <3>3, <3>4, <3>5, <3>6, Zenon
  <2>3. QED
    BY <2>1, <2>2, Zenon
<1>3. ASSUME NEW k \in RpcCalls, K!WriteRequest(k) PROVE RpcInv'
  <2>1. K!TypeOK'
    BY <1>3, Zenon DEF K!WriteRequest, K!reading, K!server, K!TypeOK
  <2>2. RpcNumbers'
    BY <1>3, Zenon DEF K!WriteRequest, K!reading, K!server, K!TypeOK, RpcNumbers
  <2>3. RpcMutex'
    BY <1>3, Zenon DEF K!WriteRequest, K!reading, K!server, K!TypeOK, RpcMutex
  <2>4. RpcEnded'
    BY <1>3, Zenon DEF K!WriteRequest, K!reading, K!server, K!TypeOK, RpcMutex, RpcEnded
  <2>5. RpcUncompleted'
    BY <1>3, Zenon DEF K!WriteRequest, K!reading, K!server, K!TypeOK, RpcNumbers, RpcMutex,
       RpcEnded, RpcUncompleted
  <2>6. RpcResults'
    BY <1>3, Zenon DEF K!WriteRequest, K!reading, K!server, K!TypeOK, RpcNumbers, RpcMutex,
       RpcEnded, RpcUncompleted, RpcResults
  <2>7. QED
    BY <2>1, <2>2, <2>3, <2>4, <2>5, <2>6, Zenon
<1>4. ASSUME NEW k \in RpcCalls, NEW partly \in BOOLEAN, K!WriteFails(k, partly) PROVE RpcInv'
  <2>1. K!TypeOK'
    BY <1>4, Zenon DEF K!WriteFails, K!reading, K!server, K!TypeOK
  <2>2. RpcNumbers'
    BY <1>4, Zenon DEF K!WriteFails, K!reading, K!server, K!TypeOK, RpcNumbers
  <2>3. RpcMutex'
    BY <1>4, Zenon DEF K!WriteFails, K!reading, K!server, K!TypeOK, RpcMutex
  <2>4. RpcEnded'
    BY <1>4, Zenon DEF K!WriteFails, K!reading, K!server, K!TypeOK, RpcMutex, RpcEnded
  <2>5. RpcUncompleted'
    BY <1>4, Zenon DEF K!WriteFails, K!reading, K!server, K!TypeOK, RpcNumbers, RpcMutex,
       RpcEnded, RpcUncompleted
  <2>6. RpcResults'
    BY <1>4, Zenon DEF K!WriteFails, K!reading, K!server, K!TypeOK, RpcNumbers, RpcMutex,
       RpcEnded, RpcUncompleted, RpcResults
  <2>7. QED
    BY <2>1, <2>2, <2>3, <2>4, <2>5, <2>6, Zenon
<1>5. ASSUME NEW k \in RpcCalls, K!SendFails(k) PROVE RpcInv'
  <2>1. K!TypeOK'
    BY <1>5 DEF K!SendFails, K!Complete, K!At, K!reading, K!wire, K!server, K!TypeOK
  <2>2. RpcNumbers'
    BY <1>5 DEF K!SendFails, K!Complete, K!At, K!reading, K!wire, K!server, K!TypeOK, RpcNumbers
  <2>3. RpcMutex'
    BY <1>5, Zenon DEF K!SendFails, K!Complete, K!At, K!reading, K!wire, K!server, K!TypeOK,
       RpcMutex
  <2>4. RpcEnded'
    BY <1>5, Zenon DEF K!SendFails, K!Complete, K!At, K!reading, K!wire, K!server, K!TypeOK,
       RpcMutex, RpcEnded
  <2>5. RpcUncompleted'
    BY <1>5 DEF K!SendFails, K!Complete, K!At, K!reading, K!wire, K!server, K!TypeOK,
       RpcNumbers, RpcMutex, RpcEnded, RpcUncompleted
  <2>6. RpcResults'
    BY <1>5 DEF K!SendFails, K!Complete, K!At, K!reading, K!wire, K!server, K!TypeOK,
       RpcNumbers, RpcMutex, RpcEnded, RpcUncompleted, RpcResults
  <2>7. QED
    BY <2>1, <2>2, <2>3, <2>4, <2>5, <2>6, Zenon
<1>6. ASSUME K!Close PROVE RpcInv'
  BY <1>6, Zenon DEF K!Close, K!reading, K!TypeOK, RpcNumbers, RpcMutex, RpcEnded,
     RpcUncompleted, RpcResults
<1>7. ASSUME UNCHANGED <<K!client, K!reading>> PROVE RpcInv'
  BY <1>7, Zenon DEF K!client, K!reading, K!TypeOK, RpcNumbers, RpcMutex, RpcEnded,
     RpcUncompleted, RpcResults
<1>8. ASSUME K!ReadResponseHeader \/ K!HeaderFails PROVE RpcInv'
  <2>1. K!TypeOK'
    BY <1>8, Zenon DEF K!ReadResponseHeader, K!HeaderFails, K!client, K!TypeOK
  <2>2. RpcNumbers'
    BY <1>8 DEF K!ReadResponseHeader, K!HeaderFails, K!client, K!TypeOK, RpcNumbers
  <2>3. RpcMutex'
    BY <1>8, Zenon DEF K!ReadResponseHeader, K!HeaderFails, K!client, K!TypeOK, RpcMutex
  <2>4. RpcEnded'
    BY <1>8 DEF K!ReadResponseHeader, K!HeaderFails, K!client, K!TypeOK, RpcMutex, RpcEnded
  <2>5. RpcUncompleted'
    BY <1>8, Zenon DEF K!ReadResponseHeader, K!HeaderFails, K!client, K!TypeOK, RpcNumbers,
       RpcMutex, RpcEnded, RpcUncompleted
  <2>6. RpcResults'
    BY <1>8 DEF K!ReadResponseHeader, K!HeaderFails, K!client, K!TypeOK, RpcNumbers, RpcMutex,
       RpcEnded, RpcUncompleted, RpcResults
  <2>7. QED
    BY <2>1, <2>2, <2>3, <2>4, <2>5, <2>6, Zenon
<1>9. ASSUME K!Lookup PROVE RpcInv'
  <2>1. K!TypeOK'
    BY <1>9, Zenon DEF K!Lookup, K!At, K!TypeOK
  <2>2. RpcNumbers'
    BY <1>9, Zenon DEF K!Lookup, K!At, K!TypeOK, RpcNumbers
  <2>3. RpcMutex'
    BY <1>9, Zenon DEF K!Lookup, K!At, K!TypeOK, RpcMutex
  <2>4. RpcEnded'
    BY <1>9, Zenon DEF K!Lookup, K!At, K!TypeOK, RpcMutex, RpcEnded
  <2>5. RpcUncompleted'
    BY <1>9 DEF K!Lookup, K!At, K!TypeOK, RpcNumbers, RpcMutex, RpcEnded, RpcUncompleted
  <2>6. RpcResults'
    BY <1>9, Zenon DEF K!Lookup, K!At, K!TypeOK, RpcNumbers, RpcMutex, RpcEnded, RpcUncompleted,
       RpcResults
  <2>7. QED
    BY <2>1, <2>2, <2>3, <2>4, <2>5, <2>6, Zenon
<1>10. ASSUME NEW ok \in BOOLEAN, K!ReadResponseBody(ok) PROVE RpcInv'
  <2>1. K!TypeOK'
    BY <1>10 DEF K!ReadResponseBody, K!Complete, K!TypeOK
  <2>2. RpcNumbers'
    BY <1>10, Zenon DEF K!ReadResponseBody, K!Complete, K!TypeOK, RpcNumbers, RpcUncompleted
  <2>3. RpcMutex'
    BY <1>10, Zenon DEF K!ReadResponseBody, K!Complete, K!TypeOK, RpcMutex
  <2>4. RpcEnded'
    BY <1>10, Zenon DEF K!ReadResponseBody, K!Complete, K!TypeOK, RpcMutex, RpcEnded
  <2>5. RpcUncompleted'
    BY <1>10, Zenon DEF K!ReadResponseBody, K!Complete, K!TypeOK, RpcNumbers, RpcMutex, RpcEnded,
       RpcUncompleted
  <2>6. RpcResults'
    BY <1>10 DEF K!ReadResponseBody, K!Complete, K!TypeOK, RpcNumbers, RpcMutex, RpcEnded,
       RpcUncompleted, RpcResults
  <2>7. QED
    BY <2>1, <2>2, <2>3, <2>4, <2>5, <2>6, Zenon
<1>11. ASSUME K!Terminate PROVE RpcInv'
  <2>1. K!TypeOK'
    BY <1>11 DEF K!Terminate, K!Complete, K!TypeOK
  <2>2. RpcNumbers'
    BY <1>11 DEF K!Terminate, K!Complete, K!TypeOK, RpcNumbers
  <2>3. RpcMutex'
    BY <1>11, Zenon DEF K!Terminate, K!Complete, K!TypeOK, RpcMutex
  <2>4. RpcEnded'
    BY <1>11, Zenon DEF K!Terminate, K!Complete, K!TypeOK, RpcMutex, RpcEnded
  <2>5. RpcUncompleted'
    BY <1>11, Zenon DEF K!Terminate, K!Complete, K!TypeOK, RpcNumbers, RpcMutex, RpcEnded,
       RpcUncompleted
  <2>6. RpcResults'
    BY <1>11 DEF K!Terminate, K!Complete, K!TypeOK, RpcNumbers, RpcMutex, RpcEnded,
       RpcUncompleted, RpcResults
  <2>7. QED
    BY <2>1, <2>2, <2>3, <2>4, <2>5, <2>6, Zenon
<1> HIDE DEF RpcInv, K!Goto
<1>12. ASSUME \/ K!CloseCodec \/ K!Break \/ K!Reader \/ K!Over \/ UNCHANGED K!vars
              \/ \E s \in serving : K!ServiceCall(s)
       PROVE  UNCHANGED <<K!client, K!reading>>
  <2>1. ASSUME NEW s, NEW good, K!SendResponse(s, good) \/ K!SendResponseFails(s)
        PROVE  UNCHANGED <<K!client, K!reading>>
    BY <2>1, Zenon DEF K!SendResponse, K!SendResponseFails
  <2>2. CASE K!CloseCodec \/ K!Break \/ K!Over \/ UNCHANGED K!vars
    BY <2>2, Zenon DEF K!CloseCodec, K!Break, K!Over, K!vars
  <2>3. CASE K!Reader
    BY <2>1, <2>3, Zenon DEF K!Reader, K!ReadRequest, K!ReadEOF, K!Reject, K!ServerClose
  <2>4. CASE \E s \in serving : K!ServiceCall(s)
    BY <2>1, <2>4, Zenon DEF K!ServiceCall
  <2>5. QED
    BY <1>12, <2>2, <2>3, <2>4, Zenon
<1>13. QED
  BY <1>1, <1>2, <1>3, <1>4, <1>5, <1>6, <1>7, <1>8, <1>9, <1>10, <1>11, <1>12, Zenon
     DEF K!Next, K!CallStep, K!Input, K!Service

\* A call on a Client is completed once, whoever of send and input completes
\* it and wherever the connection breaks, and a reply it gets is the one to
\* its own request, for any number of calls.
THEOREM RpcCompletesOnce ==
  ASSUME NoCall \notin RpcCalls
  PROVE  K!Spec => []CompletesOnce
<1>1. K!Init => RpcInv
  BY RpcInit, Zenon
<1>2. RpcInv /\ [K!Next]_(K!vars) => RpcInv'
  BY RpcStep, Zenon
<1>3. RpcInv => CompletesOnce
  BY Zenon DEF RpcInv, RpcResults, CompletesOnce, K!CompletesOnce
<1>4. QED
  BY <1>1, <1>2, <1>3, PTL DEF K!Spec
=============================================================================
