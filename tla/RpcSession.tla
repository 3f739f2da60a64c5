------------------------------ MODULE RpcSession ------------------------------
(***************************************************************************)
(* One connection of net/rpc: a Client with concurrent calls and its input *)
(* goroutine, the server's ServeCodec loop and the goroutines that serve   *)
(* the requests, over a connection that may break at any time.  The codec  *)
(* is the gob codec of the package; a message is the sequence number of    *)
(* its request and whether it is good.                                     *)
(*                                                                         *)
(* A call is at new, lock (it waits for reqMutex), write, fail (the write  *)
(* failed), sent; mutex is held in single actions only.  input is at       *)
(* header, lookup, body, stop (it waits for reqMutex) or ended.  The       *)
(* server's reader is at read, reject, wait (for the WaitGroup) or closed. *)
(***************************************************************************)
EXTENDS Naturals, Sequences, FiniteSets

CONSTANTS RpcCalls, NoCall

VARIABLES
    pc, num,            \* of each call, and its number
    reqMutex,           \* its holder: a call or NoCall
    seq, pending, closing, shutdown,
    done, result,       \* how often a call was completed, and with what
    input, response, call,      \* the input goroutine and its variables
    requests, responses,        \* on their way
    broken, clientClosed, serverClosed,
    reader, request, serving    \* the server: its reader, and its goroutines

client == <<pc, num, reqMutex, seq, pending, closing, shutdown, done, result>>
reading == <<input, response, call>>
wire == <<requests, responses, broken, clientClosed, serverClosed>>
server == <<reader, request, serving>>
vars == <<client, reading, wire, server>>

None == [seq |-> 0, good |-> FALSE]

Init ==
    /\ pc = [k \in RpcCalls |-> "new"] /\ num = [k \in RpcCalls |-> 0] /\ reqMutex = NoCall
    /\ seq = 1 /\ pending = {} /\ closing = FALSE /\ shutdown = FALSE
    /\ done = [k \in RpcCalls |-> 0] /\ result = [k \in RpcCalls |-> <<"none", 0>>]
    /\ input = "header" /\ response = None /\ call = NoCall
    /\ requests = <<>> /\ responses = <<>>
    /\ broken = FALSE /\ clientClosed = FALSE /\ serverClosed = FALSE
    /\ reader = "read" /\ request = None /\ serving = {}

Goto(k, from, to) == pc[k] = from /\ pc' = [pc EXCEPT ![k] = to]
\* pending is a set of <<seq, call>>.
At(s) == {p \in pending : p[1] = s}
\* The calls of S get their result; Done has room for it.
Complete(S, r) ==
    /\ done' = [k \in RpcCalls |-> IF k \in S THEN done[k] + 1 ELSE done[k]]
    /\ result' = [k \in RpcCalls |-> IF k \in S THEN r ELSE result[k]]

-----------------------------------------------------------------------------
(* Client.send and Client.Close *)

Go(k) ==
    /\ Goto(k, "new", "lock")
    /\ UNCHANGED <<num, reqMutex, seq, pending, closing, shutdown, done, result, reading, wire, server>>

\* Mutant: a call is registered although nobody reads responses any more.
RegisterUnchecked(k) ==
    /\ reqMutex = NoCall
    /\ Goto(k, "lock", "write")
    /\ reqMutex' = k
    /\ num' = [num EXCEPT ![k] = seq] /\ pending' = pending \cup {<<seq, k>>} /\ seq' = seq + 1
    /\ UNCHANGED <<done, result, closing, shutdown, reading, wire, server>>

Register(k) ==
    /\ reqMutex = NoCall
    /\ IF shutdown \/ closing
       THEN /\ Goto(k, "lock", "sent")
            /\ Complete({k}, <<"ErrShutdown", 0>>)
            /\ UNCHANGED <<num, reqMutex, pending, seq>>
       ELSE /\ Goto(k, "lock", "write")
            /\ reqMutex' = k
            /\ num' = [num EXCEPT ![k] = seq] /\ pending' = pending \cup {<<seq, k>>} /\ seq' = seq + 1
            /\ UNCHANGED <<done, result>>
    /\ UNCHANGED <<closing, shutdown, reading, wire, server>>

\* A request is good when the server knows its method and can read its body.
WriteRequest(k) ==
    /\ ~broken /\ ~clientClosed
    /\ Goto(k, "write", "sent")
    /\ reqMutex' = NoCall
    /\ \E good \in BOOLEAN : requests' = Append(requests, [seq |-> num[k], good |-> good])
    /\ UNCHANGED <<num, seq, pending, closing, shutdown, done, result, reading,
                   responses, broken, clientClosed, serverClosed, server>>

\* A request that cannot be encoded may have left with a header.
WriteFails(k, partly) ==
    /\ Goto(k, "write", "fail")
    /\ partly => ~broken /\ ~clientClosed
    /\ requests' = IF partly THEN Append(requests, [seq |-> num[k], good |-> FALSE]) ELSE requests
    /\ UNCHANGED <<num, reqMutex, seq, pending, closing, shutdown, done, result, reading,
                   responses, broken, clientClosed, serverClosed, server>>

\* Mutant: the call is completed even if input has taken it out of pending.
SendFailsAnyway(k) ==
    /\ Goto(k, "fail", "sent")
    /\ reqMutex' = NoCall
    /\ pending' = pending \ At(num[k])
    /\ Complete({k}, <<"write", 0>>)
    /\ UNCHANGED <<num, seq, closing, shutdown, reading, wire, server>>

SendFails(k) ==
    /\ Goto(k, "fail", "sent")
    /\ reqMutex' = NoCall
    /\ pending' = pending \ At(num[k])
    /\ Complete({p[2] : p \in At(num[k])}, <<"write", 0>>)
    /\ UNCHANGED <<num, seq, closing, shutdown, reading, wire, server>>

Close ==
    /\ ~closing /\ closing' = TRUE
    /\ UNCHANGED <<pc, num, reqMutex, seq, pending, shutdown, done, result, reading, wire, server>>

CloseCodec ==
    /\ closing /\ ~clientClosed /\ clientClosed' = TRUE
    /\ UNCHANGED <<client, reading, requests, responses, broken, serverClosed, server>>

-----------------------------------------------------------------------------
(* Client.input *)

ReadResponseHeader ==
    /\ input = "header" /\ responses # <<>> /\ ~clientClosed /\ ~broken
    /\ input' = "lookup" /\ response' = Head(responses) /\ responses' = Tail(responses)
    /\ UNCHANGED <<client, call, requests, broken, clientClosed, serverClosed, server>>

HeaderFails ==
    /\ input = "header" /\ input' = "stop"
    /\ broken \/ clientClosed \/ (serverClosed /\ responses = <<>>)
    /\ UNCHANGED <<client, response, call, wire, server>>

Lookup ==
    /\ input = "lookup" /\ input' = "body"
    /\ pending' = pending \ At(response.seq)
    /\ call' = IF At(response.seq) = {} THEN NoCall ELSE (CHOOSE p \in At(response.seq) : TRUE)[2]
    /\ UNCHANGED <<pc, num, reqMutex, seq, closing, shutdown, done, result, response, wire, server>>

\* The reply, or the server's error; a body that cannot be read ends input,
\* after the call has got its own error.
ReadResponseBody(ok) ==
    /\ input = "body" /\ input' = IF ok THEN "header" ELSE "stop"
    /\ ok => ~clientClosed /\ ~broken
    /\ Complete({call} \cap RpcCalls,
                <<IF ~response.good THEN "server" ELSE IF ok THEN "reply" ELSE "body", response.seq>>)
    /\ response' = None /\ call' = NoCall
    /\ UNCHANGED <<pc, num, reqMutex, seq, pending, closing, shutdown, wire, server>>

\* "Terminate pending calls", under both mutexes.
Terminate ==
    /\ input = "stop" /\ input' = "ended"
    /\ reqMutex = NoCall
    /\ shutdown' = TRUE
    /\ Complete({p[2] : p \in pending}, <<IF closing THEN "ErrShutdown" ELSE "EOF", 0>>)
    /\ UNCHANGED <<pc, num, reqMutex, seq, pending, closing, response, call, wire, server>>

-----------------------------------------------------------------------------
(* Server.ServeCodec and service.call *)

Break ==
    /\ ~broken /\ broken' = TRUE
    /\ UNCHANGED <<client, reading, requests, responses, clientClosed, serverClosed, server>>

\* readRequest: a good request gets a goroutine, another an answer at once.
ReadRequest ==
    /\ reader = "read" /\ requests # <<>> /\ ~broken /\ ~serverClosed
    /\ requests' = Tail(requests)
    /\ IF Head(requests).good
       THEN serving' = serving \cup {Head(requests).seq} /\ UNCHANGED <<reader, request>>
       ELSE reader' = "reject" /\ request' = Head(requests) /\ UNCHANGED serving
    /\ UNCHANGED <<client, reading, responses, broken, clientClosed, serverClosed>>

ReadEOF ==
    /\ reader = "read" /\ reader' = "wait"
    /\ broken \/ serverClosed \/ (clientClosed /\ requests = <<>>)
    /\ UNCHANGED <<client, reading, wire, request, serving>>

\* sendResponse, under the mutex sending.  If the codec cannot write the
\* response it closes the connection.
SendResponse(s, good) ==
    /\ responses' = IF broken \/ serverClosed THEN responses
                    ELSE Append(responses, [seq |-> s, good |-> good])
    /\ UNCHANGED <<client, reading, requests, broken, clientClosed, serverClosed>>

SendResponseFails(s) ==
    /\ serverClosed' = TRUE
    /\ UNCHANGED <<client, reading, requests, responses, broken, clientClosed>>

Reject ==
    /\ reader = "reject" /\ reader' = "read" /\ request' = None
    /\ SendResponse(request.seq, FALSE) \/ SendResponseFails(request.seq)
    /\ UNCHANGED serving

\* The method returns, with or without an error, and its goroutine is done.
ServiceCall(s) ==
    /\ s \in serving /\ serving' = serving \ {s}
    /\ (\E good \in BOOLEAN : SendResponse(s, good)) \/ SendResponseFails(s)
    /\ UNCHANGED <<reader, request>>

\* wg.Wait, then the codec is closed.
ServerClose ==
    /\ reader = "wait" /\ serving = {} /\ reader' = "closed"
    /\ serverClosed' = TRUE
    /\ UNCHANGED <<client, reading, requests, responses, broken, clientClosed, request, serving>>

-----------------------------------------------------------------------------
CallStep(k) ==
    Register(k) \/ WriteRequest(k) \/ (\E partly \in BOOLEAN : WriteFails(k, partly)) \/ SendFails(k)
Input ==
    ReadResponseHeader \/ HeaderFails \/ Lookup \/ (\E ok \in BOOLEAN : ReadResponseBody(ok)) \/ Terminate
Reader == ReadRequest \/ ReadEOF \/ Reject \/ ServerClose
Service(s) == ServiceCall(s)

\* Everything is over: all calls made, both ends closed.
Over == UNCHANGED vars /\ clientClosed /\ input = "ended" /\ reader = "closed" /\ \A k \in RpcCalls : pc[k] = "sent"

Next ==
    \/ \E k \in RpcCalls : Go(k) \/ CallStep(k)
    \/ Close \/ CloseCodec \/ Break
    \/ Input \/ Reader \/ (\E s \in serving : Service(s))
    \/ Over

Spec == Init /\ [][Next]_vars

\* Goroutines run on and the methods of the service return.
\* Nobody has to make a call or close, and the connection need not break.
Fairness ==
    /\ \A k \in RpcCalls : WF_vars(CallStep(k))
    /\ WF_vars(Input) /\ WF_vars(Reader) /\ WF_vars(CloseCodec)
    /\ \A s \in 1 .. Cardinality(RpcCalls) : WF_vars(Service(s))

FairSpec == Spec /\ Fairness

-----------------------------------------------------------------------------
(* Properties *)

TypeOK ==
    /\ pc \in [RpcCalls -> {"new", "lock", "write", "fail", "sent"}]
    /\ num \in [RpcCalls -> Nat] /\ done \in [RpcCalls -> Nat]
    /\ reqMutex \in RpcCalls \cup {NoCall} /\ call \in RpcCalls \cup {NoCall}
    /\ seq \in Nat \ {0} /\ pending \subseteq Nat \X RpcCalls
    /\ input \in {"header", "lookup", "body", "stop", "ended"}

\* A call is completed once, whoever of send and input does it and whatever
\* fails; it gets the reply to its own request, and one that was completed with
\* ErrShutdown found the client closed or shut down.
CompletesOnce ==
    /\ TypeOK
    /\ \A k \in RpcCalls :
        /\ done[k] <= 1
        /\ result[k][1] \in {"reply", "server"} => result[k][2] = num[k]
        /\ result[k][1] = "ErrShutdown" => closing \/ shutdown

\* Every call that was made is completed: by its response, by its own failure,
\* or by the end of the connection.
CallsComplete == \A k \in RpcCalls : pc[k] = "lock" ~> done[k] = 1
=============================================================================
