------------------------- MODULE HttpTransportProofs -------------------------
(***************************************************************************)
(* Proofs about the connection pool of net/http's Transport, for any       *)
(* number of requests, connections and events and for any limits.          *)
(***************************************************************************)
EXTENDS HttpTransport, SequenceTheorems, FiniteSetTheorems, WellFoundedInduction, TLAPS

-----------------------------------------------------------------------------
(* Sets of numbers and sequences *)

\* A nonempty set of numbers has a least element, which is its Min.
LEMMA MinOfNats ==
    ASSUME NEW S, S \subseteq Nat, S # {}
    PROVE  Min(S) \in S /\ \A y \in S : Min(S) <= y
<1>1. PICK x \in S : \A y \in S : ~(<<y, x>> \in OpToRel(<, Nat))
  BY NatLessThanWellFounded, WFMin, Zenon
<1>2. \A y \in S : x <= y
  <2> SUFFICES ASSUME NEW y \in S, y < x PROVE FALSE
    OBVIOUS
  <2>1. <<y, x>> \in Nat \X Nat
    BY Zenon
  <2>2. QED
    BY <1>1, <2>1, Zenon DEF OpToRel
<1>3. \E m \in S : \A y \in S : m <= y
  BY <1>2, Zenon
<1>4. QED
  BY <1>3, Zenon DEF Min

\* A nonempty set of numbers with an upper bound has a greatest element.
LEMMA MaxOfNats ==
    ASSUME NEW S, NEW n \in Nat, S \subseteq 0 .. n, S # {}
    PROVE  Max(S) \in S /\ \A y \in S : y <= Max(S)
<1> DEFINE T == {m \in Nat : \A y \in S : y <= m}
           b == Min(T)
<1>1. n \in T /\ T \subseteq Nat
  OBVIOUS
<1>2. b \in T /\ \A m \in T : b <= m
  BY <1>1, MinOfNats, Zenon
<1> HIDE DEF b
<1>3. b \in S
  <2> SUFFICES ASSUME b \notin S PROVE FALSE
    BY Zenon
  <2>1. b \in Nat /\ \A z \in S : z \in Nat /\ z <= b /\ z # b
    BY <1>2
  <2>5. PICK z0 \in S : TRUE
    BY Zenon
  <2>2. b - 1 \in Nat /\ \A z \in S : z <= b - 1
    BY <2>1, <2>5
  <2>3. b - 1 \in T
    BY <2>2, Zenon
  <2>4. QED
    BY <1>2, <2>3
<1>4. \E m \in S : \A y \in S : m >= y
  BY <1>2, <1>3, Zenon
<1>5. Max(S) \in S /\ \A y \in S : Max(S) >= y
  BY <1>4, Zenon DEF Max
<1>6. QED
  BY <1>5, Zenon

\* What Append, Tail and slicing out an element do to the elements of a sequence.
LEMMA RangeOfAppend ==
    ASSUME NEW S, NEW s \in Seq(S), NEW e \in S
    PROVE  /\ Range(Append(s, e)) = Range(s) \cup {e}
           /\ IsInjective(s) /\ e \notin Range(s) => IsInjective(Append(s, e))
<1> DEFINE t == Append(s, e)
<1>1. /\ t \in Seq(S) /\ Len(t) = Len(s) + 1 /\ t[Len(s) + 1] = e
      /\ \A i \in 1 .. Len(s) : t[i] = s[i]
  BY AppendProperties
<1> HIDE DEF t
<1>2. Range(t) = Range(s) \cup {e}
  <2>1. DOMAIN s = 1 .. Len(s) /\ DOMAIN t = 1 .. Len(s) + 1 /\ Len(s) \in Nat
    BY <1>1
  <2>2. QED
    BY <1>1, <2>1 DEF Range
<1>3. IsInjective(s) /\ e \notin Range(s) => IsInjective(t)
  BY <1>1 DEF IsInjective, Range
<1>4. QED
  BY <1>2, <1>3, Zenon DEF t

\* The head leaves, and with it the only element that leaves.
LEMMA RangeOfTail ==
    ASSUME NEW S, NEW s \in Seq(S), s # <<>>
    PROVE  /\ Head(s) \in Range(s) /\ Range(s) = Range(Tail(s)) \cup {Head(s)}
           /\ IsInjective(s) => IsInjective(Tail(s)) /\ Head(s) \notin Range(Tail(s))
<1> DEFINE t == Tail(s)
<1>1. /\ t \in Seq(S) /\ Len(t) = Len(s) - 1 /\ Head(s) = s[1] /\ Len(s) >= 1
      /\ \A i \in 1 .. Len(s) - 1 : t[i] = s[i + 1]
  OBVIOUS
<1> HIDE DEF t
<1>2. DOMAIN s = 1 .. Len(s) /\ DOMAIN t = 1 .. Len(s) - 1 /\ Len(s) \in Nat
  BY <1>1
<1>3. Head(s) \in Range(s) /\ Range(t) \subseteq Range(s)
  BY <1>1, <1>2 DEF Range
<1>4. ASSUME NEW i \in 1 .. Len(s) PROVE s[i] \in Range(t) \cup {Head(s)}
  <2>1. CASE i = 1
    BY <1>1, <2>1, Zenon
  <2>2. CASE i # 1
    <3>1. i - 1 \in DOMAIN t /\ t[i - 1] = s[i]
      BY <1>1, <1>2, <2>2
    <3>2. QED
      BY <3>1, Zenon DEF Range
  <2>3. QED
    BY <2>1, <2>2, Zenon
<1>5. Range(s) \subseteq Range(t) \cup {Head(s)}
  BY <1>2, <1>4, Zenon DEF Range
<1>6. ASSUME IsInjective(s) PROVE IsInjective(t) /\ Head(s) \notin Range(t)
  <2>1. \A i, j \in 1 .. Len(s) : s[i] = s[j] => i = j
    BY <1>2, <1>6, Zenon DEF IsInjective
  <2>2. \A i \in 1 .. Len(s) - 1 : i + 1 \in 1 .. Len(s) /\ i + 1 # 1
    BY <1>2
  <2>3. \A i, j \in 1 .. Len(s) - 1 : t[i] = t[j] => i = j
    BY <1>1, <1>2, <2>1, <2>2
  <2>4. \A i \in 1 .. Len(s) - 1 : t[i] # s[1]
    BY <1>1, <1>2, <2>1, <2>2
  <2>5. QED
    BY <1>1, <1>2, <2>3, <2>4 DEF IsInjective, Range
<1>7. QED
  BY <1>3, <1>5, <1>6, Zenon DEF t

Without(s, i) == SubSeq(s, 1, i - 1) \o SubSeq(s, i + 1, Len(s))

\* Sliding one element out of a sequence keeps the others and their order.
LEMMA WithoutProperties ==
    ASSUME NEW S, NEW s \in Seq(S), NEW i \in 1 .. Len(s)
    PROVE  /\ Without(s, i) \in Seq(S) /\ Len(Without(s, i)) = Len(s) - 1
           /\ \A j \in 1 .. Len(s) - 1 : Without(s, i)[j] = IF j < i THEN s[j] ELSE s[j + 1]
           /\ Range(Without(s, i)) \subseteq Range(s)
           /\ IsInjective(s) => /\ IsInjective(Without(s, i))
                                /\ Range(Without(s, i)) = Range(s) \ {s[i]}
<1> DEFINE a == SubSeq(s, 1, i - 1)
           b == SubSeq(s, i + 1, Len(s))
           t == Without(s, i)
<1>1. a \in Seq(S) /\ Len(a) = i - 1 /\ \A j \in 1 .. i - 1 : a[j] = s[j]
  BY SubSeqProperties
<1>2. b \in Seq(S) /\ Len(b) = Len(s) - i /\ \A j \in 1 .. Len(s) - i : b[j] = s[i + j]
  BY SubSeqProperties
<1>3. t = a \o b
  BY Zenon DEF Without
<1> HIDE DEF a, b, t
<1>4. /\ t \in Seq(S) /\ Len(t) = Len(s) - 1
      /\ \A j \in 1 .. Len(s) - 1 : t[j] = IF j <= i - 1 THEN a[j] ELSE b[j - (i - 1)]
  <2>1. Len(a) + Len(b) = Len(s) - 1
    BY <1>1, <1>2
  <2>2. /\ a \o b \in Seq(S) /\ Len(a \o b) = Len(a) + Len(b)
        /\ \A j \in 1 .. Len(a) + Len(b) : (a \o b)[j] = IF j <= Len(a) THEN a[j] ELSE b[j - Len(a)]
    BY <1>1, <1>2, ConcatProperties, Zenon
  <2>3. QED
    BY <1>1, <1>3, <2>1, <2>2, Zenon
<1>8. DOMAIN s = 1 .. Len(s) /\ DOMAIN t = 1 .. Len(s) - 1 /\ Len(s) \in Nat
  BY <1>4
<1>5. \A j \in 1 .. Len(s) - 1 : t[j] = IF j < i THEN s[j] ELSE s[j + 1]
  BY <1>1, <1>2, <1>4
<1>9. Range(t) \subseteq Range(s)
  <2>1. \A j \in 1 .. Len(s) - 1 : \E k \in 1 .. Len(s) : t[j] = s[k]
    BY <1>5, <1>8
  <2>2. QED
    BY <1>8, <2>1, Zenon DEF Range
<1>6. ASSUME IsInjective(s) PROVE IsInjective(t) /\ Range(t) = Range(s) \ {s[i]}
  <2>1. IsInjective(t)
    <3> SUFFICES ASSUME NEW j \in 1 .. Len(s) - 1, NEW k \in 1 .. Len(s) - 1, t[j] = t[k], j # k
                 PROVE  FALSE
      BY <1>8, Zenon DEF IsInjective
    <3> DEFINE up(n) == IF n < i THEN n ELSE n + 1
    <3>1. up(j) \in DOMAIN s /\ up(k) \in DOMAIN s /\ up(j) # up(k)
      BY <1>8
    <3>2. s[up(j)] = s[up(k)]
      BY <1>5, <1>8, Zenon
    <3>3. QED
      BY <1>6, <3>1, <3>2, Zenon DEF IsInjective
  <2>2. ASSUME NEW j \in 1 .. Len(s) - 1 PROVE t[j] \in Range(s) \ {s[i]}
    <3>1. \E k \in 1 .. Len(s) : t[j] = s[k] /\ k # i
      BY <1>5, <1>8
    <3>2. QED
      BY <1>6, <1>8, <3>1, Zenon DEF IsInjective, Range
  <2>3. ASSUME NEW x \in Range(s) \ {s[i]} PROVE x \in Range(t)
    <3>1. PICK j \in 1 .. Len(s) : s[j] = x
      BY DEF Range
    <3>2. CASE j < i
      BY <1>5, <1>8, <3>1, <3>2 DEF Range
    <3>3. CASE j > i
      <4>1. j - 1 \in 1 .. Len(s) - 1 /\ t[j - 1] = x
        BY <1>5, <3>1, <3>3
      <4>2. QED
        BY <1>8, <4>1, Zenon DEF Range
    <3>4. QED
      BY <3>1, <3>2, <3>3
  <2>5. Range(t) \subseteq Range(s) \ {s[i]}
    BY <1>8, <2>2, Zenon DEF Range
  <2>4. QED
    BY <2>1, <2>3, <2>5, Zenon
<1>7. QED
  BY <1>4, <1>5, <1>6, <1>9, Zenon DEF t

-----------------------------------------------------------------------------
(***************************************************************************)
(* The inductive invariant, in parts.  Typed completes TypeOK.             *)
(***************************************************************************)
DialPlaces == {"none", "start", "dialing", "dec", "dialed", "putIdle", "close", "gone"}
LoopPlaces == {"none", "peek", "put", "reply", "replyBody", "replyErr", "putIdle", "putEOF",
               "putIdleEOF", "body", "close", "remove", "gone"}
ReqPlaces == {"start", "dial", "select", "putIdle", "close", "wait", "body", "end", "canceled"}

Conns   == Wants \cup {NoConn}
Results == Conns \cup {Failed}

WantTyped == wants \in 0 .. MaxWants /\ done \in [Wants -> BOOLEAN] /\ result \in [Wants -> Results]
QueueTyped == dialer \in [Wants -> DialPlaces] /\ connsPerHostWait \in Seq(Wants)
IdleTyped == idleConn \in Seq(Wants) /\ idleLRU \subseteq Wants /\ idleConnWait \in Seq(Wants)
PersTyped ==
  /\ closed \in [Wants -> BOOLEAN] /\ canceledErr \in [Wants -> BOOLEAN]
  /\ reused \in [Wants -> BOOLEAN]
LoopTyped ==
  /\ loop \in [Wants -> LoopPlaces] /\ alive \in [Wants -> BOOLEAN]
  /\ expects \in [Wants -> Reqs \cup {None}] /\ rc \in [Wants -> Reqs \cup {None}]
ReqTyped ==
  /\ pc \in [Reqs -> ReqPlaces] /\ want \in [Reqs -> Conns] /\ conn \in [Reqs -> Conns]
HistTyped == stillIdle \subseteq Wants /\ closer \in Seq(Wants) /\ tooOld \subseteq Wants

Typed ==
  WantTyped /\ QueueTyped /\ IdleTyped /\ PersTyped /\ LoopTyped /\ ReqTyped /\ HistTyped

\* No connection and a failed dial are told apart from connections.
LEMMA Numbers ==
    /\ NoConn \notin Wants /\ Failed \notin Wants /\ Failed # NoConn
    /\ Conns = 0 .. MaxWants /\ Results = 0 .. Failed
    /\ \A n \in 0 .. MaxWants : n < MaxWants => n + 1 \in Wants
BY TransportAssumption DEF Wants, NoConn, Failed, Conns, Results

\* Typed says at least what TypeOK says.
LEMMA TypedIsTypeOK == Typed => TypeOK
BY Numbers, Zenon DEF Typed, WantTyped, IdleTyped, LoopTyped, ReqTyped, TypeOK

\* A connection is there, and its readLoop runs, from dialConn on.
Made ==
  /\ \A c \in Wants : dialer[c] \in {"none", "start", "dialing", "dec"} => loop[c] = "none"
  /\ \A c \in Wants : dialer[c] \in {"dialed", "putIdle", "close"} \/ closed[c] => loop[c] # "none"
  /\ \A c \in Range(idleConn) \cup Range(closer) \cup idleLRU \cup stillIdle : loop[c] # "none"
  /\ \A w \in Wants : result[w] \in Wants => loop[result[w]] # "none"
  /\ \A r \in Reqs : conn[r] \in Wants => loop[conn[r]] # "none"
  /\ \A c \in Wants : expects[c] # None => loop[c] # "none"

\* Where a request has a wantConn or a connection.
Places ==
  /\ \A r \in Reqs : pc[r] \in {"dial", "select"} => want[r] \in 1 .. wants
  /\ \A r \in Reqs : pc[r] \in {"wait", "body", "putIdle", "close"} <=> conn[r] # NoConn
  /\ \A w \in Wants : w > wants => ~done[w]
  /\ \A w \in Wants : ~done[w] => result[w] = NoConn

\* The queue for dials holds each wantConn once, before its dial.
Queued ==
  /\ IsInjective(connsPerHostWait)
  /\ \A w \in Range(connsPerHostWait) : w <= wants /\ dialer[w] = "none"
  /\ \A w \in Wants : w > wants => dialer[w] = "none"
  /\ \A w \in Range(idleConnWait) : w <= wants
  /\ \A r \in Reqs : pc[r] = "dial" =>
       /\ dialer[want[r]] = "none" /\ want[r] \notin Range(connsPerHostWait)
       /\ \A q \in Reqs : pc[q] = "dial" /\ want[q] = want[r] => q = r

\* What close and decConnsPerHost leave of the queue and the dials, when
\* their caller leaves dialer as d: at most one dial is started.
HandsOn(d) ==
  /\ connsPerHostWait' \in Seq(Wants) /\ IsInjective(connsPerHostWait')
  /\ Range(connsPerHostWait') \subseteq Range(connsPerHostWait)
  /\ dialer' \in [Wants -> DialPlaces]
  /\ \A w \in Wants : dialer'[w] = d[w] \/ (w \in Range(connsPerHostWait) /\ dialer'[w] = "start")
  /\ \A w \in Range(connsPerHostWait') : dialer'[w] = d[w]

-----------------------------------------------------------------------------
(* What the helpers of the model do *)

\* FromWaiting leaves a suffix of the queue that begins with a wantConn that
\* still waits; when nothing is left, none of the queue waits.
LEMMA FromWaitingProperties ==
    ASSUME NEW q \in Seq(Wants)
    PROVE  /\ FromWaiting(q) \in Seq(Wants) /\ Range(FromWaiting(q)) \subseteq Range(q)
           /\ IsInjective(q) => IsInjective(FromWaiting(q))
           /\ FromWaiting(q) # <<>> => Waiting(Head(FromWaiting(q)))
<1> DEFINE first == {i \in 1 .. Len(q) : Waiting(q[i])}
<1>1. CASE first = {}
  <2>1. FromWaiting(q) = <<>>
    BY <1>1, Zenon DEF FromWaiting
  <2>2. Range(<<>>) = {} /\ IsInjective(<<>>) /\ <<>> \in Seq(Wants)
    BY DEF Range, IsInjective
  <2>3. QED
    BY <2>1, <2>2, Zenon
<1>2. CASE first # {}
  <2> DEFINE m == Min(first)
             t == SubSeq(q, m, Len(q))
  <2>0. first \subseteq Nat
    OBVIOUS
  <2>1. m \in first
    BY <1>2, <2>0, MinOfNats, Zenon
  <2> HIDE DEF m
  <2>2. FromWaiting(q) = t
    BY <1>2, Zenon DEF FromWaiting, m
  <2>3. m \in 1 .. Len(q) /\ Waiting(q[m])
    BY <2>1, Zenon
  <2> HIDE DEF first
  <2>4. \A i \in m .. Len(q) : q[i] \in Wants
    BY <2>3
  <2>5. t \in Seq(Wants) /\ Len(t) = Len(q) - m + 1 /\ \A i \in 1 .. Len(q) - m + 1 : t[i] = q[m + i - 1]
    BY <2>3, <2>4, SubSeqProperties
  <2> HIDE DEF t
  <2>6. DOMAIN t = 1 .. Len(q) - m + 1 /\ DOMAIN q = 1 .. Len(q)
    BY <2>5
  <2>7. \A i \in 1 .. Len(q) - m + 1 : m + i - 1 \in 1 .. Len(q)
    BY <2>3
  <2>8. Range(t) \subseteq Range(q)
    BY <2>5, <2>6, <2>7, Zenon DEF Range
  <2>9. ASSUME IsInjective(q) PROVE IsInjective(t)
    <3> SUFFICES ASSUME NEW i \in 1 .. Len(q) - m + 1, NEW j \in 1 .. Len(q) - m + 1, t[i] = t[j]
                 PROVE  i = j
      BY <2>6, Zenon DEF IsInjective
    <3>1. q[m + i - 1] = q[m + j - 1]
      BY <2>5, Zenon
    <3>2. m + i - 1 = m + j - 1
      BY <2>6, <2>7, <2>9, <3>1, Zenon DEF IsInjective
    <3>3. QED
      BY <2>3, <3>2
  <2>10. Head(t) = t[1] /\ t[1] = q[m]
    BY <2>3, <2>5
  <2>11. QED
    BY <2>2, <2>3, <2>5, <2>8, <2>9, <2>10, Zenon
<1>3. QED
  BY <1>1, <1>2, Zenon

\* decConnsPerHost hands the count to a wantConn of the queue, which leaves
\* it, or lowers the count and empties the queue.
LEMMA DecProperties ==
    ASSUME NEW d, connsPerHostWait \in Seq(Wants), IsInjective(connsPerHostWait), decConnsPerHost(d)
    PROVE  /\ connsPerHostWait' \in Seq(Wants) /\ IsInjective(connsPerHostWait')
           /\ Range(connsPerHostWait') \subseteq Range(connsPerHostWait)
           /\ \/ \E h \in Range(connsPerHostWait) :
                     /\ dialer' = [d EXCEPT ![h] = "start"] /\ connsPerHost' = connsPerHost
                     /\ h \notin Range(connsPerHostWait')
              \/ dialer' = d /\ connsPerHost' = connsPerHost - 1
<1> DEFINE q == FromWaiting(connsPerHostWait)
<1>1. /\ q \in Seq(Wants) /\ Range(q) \subseteq Range(connsPerHostWait) /\ IsInjective(q)
  BY FromWaitingProperties, Zenon
<1>2. CASE q # <<>>
  <2>1. /\ dialer' = [d EXCEPT ![Head(q)] = "start"] /\ connsPerHost' = connsPerHost
        /\ connsPerHostWait' = Tail(q)
    BY <1>2, Zenon DEF decConnsPerHost
  <2> HIDE DEF q
  <2>2. /\ Head(q) \in Range(q) /\ Range(Tail(q)) \subseteq Range(q) /\ IsInjective(Tail(q))
        /\ Head(q) \notin Range(Tail(q)) /\ Tail(q) \in Seq(Wants)
    BY <1>1, <1>2, RangeOfTail
  <2>3. QED
    BY <1>1, <2>1, <2>2, Zenon
<1>3. CASE q = <<>>
  <2>1. dialer' = d /\ connsPerHost' = connsPerHost - 1 /\ connsPerHostWait' = <<>>
    BY <1>3, Zenon DEF decConnsPerHost
  <2>2. Range(<<>>) = {} /\ IsInjective(<<>>) /\ <<>> \in Seq(Wants)
    BY DEF Range, IsInjective
  <2>3. QED
    BY <2>1, <2>2, Zenon
<1>4. QED
  BY <1>2, <1>3, Zenon

\* removeIdleConnLocked takes c, and nothing else, out of the list.
LEMMA RemoveProperties ==
    ASSUME NEW c, idleConn \in Seq(Wants), removeIdleConnLocked(c)
    PROVE  /\ idleConn' \in Seq(Wants) /\ idleLRU' = idleLRU \ {c}
           /\ Range(idleConn') \subseteq Range(idleConn)
           /\ IsInjective(idleConn) => IsInjective(idleConn') /\ Range(idleConn') = Range(idleConn) \ {c}
<1>1. CASE c \notin Range(idleConn) /\ UNCHANGED idleConn
  BY <1>1, Zenon DEF removeIdleConnLocked
<1>2. ASSUME NEW i \in DOMAIN idleConn, idleConn[i] = c, idleConn' = Without(idleConn, i)
      PROVE  /\ idleConn' \in Seq(Wants) /\ Range(idleConn') \subseteq Range(idleConn)
             /\ IsInjective(idleConn) => IsInjective(idleConn') /\ Range(idleConn') = Range(idleConn) \ {c}
  <2>1. i \in 1 .. Len(idleConn)
    OBVIOUS
  <2>2. QED
    BY <1>2, <2>1, WithoutProperties
<1>3. QED
  BY <1>1, <1>2, Zenon DEF removeIdleConnLocked, Without

\* tryPutIdleConn gives c to a wantConn that waits, or to the end of the list.
LEMMA PutDeliversProperties ==
    ASSUME NEW c, idleConnWait \in Seq(Wants), PutDelivers(c)
    PROVE  /\ idleConnWait' \in Seq(Wants) /\ Range(idleConnWait') \subseteq Range(idleConnWait)
           /\ \E w \in Range(idleConnWait) : w \in Wants /\ ~done[w] /\ tryDeliver(w, c)
<1> DEFINE q == FromWaiting(idleConnWait)
<1>1. /\ q \in Seq(Wants) /\ Range(q) \subseteq Range(idleConnWait)
      /\ q # <<>> => Waiting(Head(q))
  BY FromWaitingProperties, Zenon
<1>2. q # <<>> /\ tryDeliver(Head(q), c) /\ idleConnWait' = Tail(q)
  BY Zenon DEF PutDelivers
<1> HIDE DEF q
<1>3. Head(q) \in Range(q) /\ Range(Tail(q)) \subseteq Range(q) /\ Tail(q) \in Seq(Wants) /\ Head(q) \in Wants
  BY <1>1, <1>2, RangeOfTail
<1>4. QED
  BY <1>1, <1>2, <1>3, Zenon DEF Waiting

\* A connection put into the list is its last entry and has its timer.
LEMMA PutIdlesProperties ==
    ASSUME NEW c \in Wants, idleConn \in Seq(Wants), PutIdles(c)
    PROVE  /\ idleConn' \in Seq(Wants) /\ Range(idleConn') = Range(idleConn) \cup {c}
           /\ IsInjective(idleConn) /\ c \notin Range(idleConn) => IsInjective(idleConn')
           /\ idleLRU' = idleLRU \cup {c} /\ idleConnWait' = <<>>
           /\ UNCHANGED <<closeIdle, done, result>>
<1>1. idleConn' = Append(idleConn, c)
  BY Zenon DEF PutIdles
<1>2. idleConn' \in Seq(Wants)
  BY <1>1
<1>3. QED
  BY <1>1, <1>2, RangeOfAppend DEF PutIdles, wc

\* queueForIdleConn delivers a connection of the list that is open, and takes
\* it and only closed connections out; or it empties the list, of closed and
\* of too old connections, and w waits.
LEMMA QueueForIdleProperties ==
    ASSUME NEW r \in Reqs, idleConn \in Seq(Wants), idleConnWait \in Seq(Wants), wants \in 0 .. MaxWants,
           MaxWants \in Nat, QueueForIdleConn(r)
    PROVE  /\ idleConn' \in Seq(Wants) /\ Range(idleConn') \subseteq Range(idleConn)
           /\ IsInjective(idleConn) => IsInjective(idleConn')
           /\ idleConnWait' \in Seq(Wants)
           /\ Range(idleConnWait') \subseteq Range(idleConnWait) \cup {wants + 1}
           /\ \/ \E c \in Range(idleConn) :
                    /\ ~closed[c] /\ tryDeliver(wants + 1, c)
                    /\ IsInjective(idleConn) => c \notin Range(idleConn')
                    /\ \A x \in Range(idleConn) \ Range(idleConn') : x = c \/ closed[x]
                    /\ idleLRU' = idleLRU \ {c} /\ pc' = [pc EXCEPT ![r] = "select"]
                    /\ UNCHANGED <<stillIdle, tooOld>>
              \/ \E old \in SUBSET Range(idleConn) :
                    /\ idleConn' = <<>> /\ \A x \in Range(idleConn) \ old : closed[x]
                    /\ stillIdle' = stillIdle \cup old /\ tooOld' = tooOld \cup old
                    /\ pc' = [pc EXCEPT ![r] = "dial"] /\ UNCHANGED <<idleLRU, done, result>>
<1>1. PICK k \in 0 .. Len(idleConn) :
        LET w   == wants + 1
            fit == {i \in k + 1 .. Len(idleConn) : ~closed[idleConn[i]]}
        IN
        /\ wants < MaxWants
        /\ IF fit # {}
           THEN LET c == idleConn[Max(fit)] IN
                /\ tryDeliver(w, c)
                /\ idleConn' = SubSeq(idleConn, 1, Max(fit) - 1) /\ idleLRU' = idleLRU \ {c}
                /\ pc' = [pc EXCEPT ![r] = "select"]
                /\ UNCHANGED <<idleConnWait, stillIdle, tooOld>>
           ELSE /\ idleConn' = <<>>
                /\ stillIdle' = stillIdle \cup {idleConn[i] : i \in 1 .. k}
                /\ tooOld' = tooOld \cup {idleConn[i] : i \in 1 .. k}
                /\ idleConnWait' = Append(FromWaiting(idleConnWait), w)
                /\ pc' = [pc EXCEPT ![r] = "dial"]
                /\ UNCHANGED <<idleLRU, wc>>
  BY Zenon DEF QueueForIdleConn
<1> DEFINE fit == {i \in k + 1 .. Len(idleConn) : ~closed[idleConn[i]]}
<1>2. wants + 1 \in Wants
  BY <1>1 DEF Wants
<1>3. CASE fit # {}
  <2> DEFINE m == Max(fit)
             c == idleConn[m]
  <2>1. fit \subseteq 0 .. Len(idleConn) /\ Len(idleConn) \in Nat
    OBVIOUS
  <2>2. m \in fit /\ \A i \in fit : i <= m
    BY <1>3, <2>1, MaxOfNats, Zenon
  <2>3. /\ tryDeliver(wants + 1, c) /\ idleLRU' = idleLRU \ {c} /\ pc' = [pc EXCEPT ![r] = "select"]
        /\ UNCHANGED <<idleConnWait, stillIdle, tooOld>> /\ idleConn' = SubSeq(idleConn, 1, m - 1)
    BY <1>1, <1>3, Zenon
  <2> HIDE DEF m
  <2>4. m \in 1 .. Len(idleConn) /\ ~closed[c] /\ \A i \in m + 1 .. Len(idleConn) : closed[idleConn[i]]
    BY <2>2
  <2> HIDE DEF fit
  <2>5. \A i \in 1 .. m - 1 : idleConn[i] \in Wants
    BY <2>4
  <2>6. idleConn' \in Seq(Wants) /\ Len(idleConn') = m - 1 /\ \A i \in 1 .. m - 1 : idleConn'[i] = idleConn[i]
    BY <2>3, <2>4, <2>5, SubSeqProperties
  <2>7. DOMAIN idleConn' = 1 .. m - 1 /\ DOMAIN idleConn = 1 .. Len(idleConn)
    BY <2>6
  <2>12. m \in DOMAIN idleConn /\ \A i \in DOMAIN idleConn' :
            i \in DOMAIN idleConn /\ i # m /\ idleConn'[i] = idleConn[i]
    BY <2>4, <2>6, <2>7
  <2>8. Range(idleConn') \subseteq Range(idleConn) /\ c \in Range(idleConn)
    BY <2>12, Zenon DEF Range
  <2>9. IsInjective(idleConn) => IsInjective(idleConn') /\ c \notin Range(idleConn')
    BY <2>12, Zenon DEF Range, IsInjective
  <2>10. ASSUME NEW x \in Range(idleConn) \ Range(idleConn') PROVE x = c \/ closed[x]
    <3>1. PICK i \in 1 .. Len(idleConn) : idleConn[i] = x
      BY <2>7, Zenon DEF Range
    <3>2. i \notin 1 .. m - 1
      BY <2>6, <2>7, <3>1, Zenon DEF Range
    <3>3. QED
      BY <2>4, <3>1, <3>2
  <2> HIDE DEF c
  <2>11. QED
    BY <2>3, <2>4, <2>6, <2>8, <2>9, <2>10, Zenon
<1>4. CASE fit = {}
  <2> DEFINE old == {idleConn[i] : i \in 1 .. k}
  <2>1. /\ idleConn' = <<>> /\ stillIdle' = stillIdle \cup old /\ tooOld' = tooOld \cup old
        /\ idleConnWait' = Append(FromWaiting(idleConnWait), wants + 1)
        /\ pc' = [pc EXCEPT ![r] = "dial"] /\ UNCHANGED <<idleLRU, wc>>
    BY <1>1, <1>4, Zenon
  <2>2. old \subseteq Range(idleConn) /\ \A x \in Range(idleConn) \ old : closed[x]
    BY <1>4 DEF Range
  <2> HIDE DEF old, fit
  <2>3. Range(<<>>) = {} /\ IsInjective(<<>>) /\ <<>> \in Seq(Wants)
    BY DEF Range, IsInjective
  <2>4. FromWaiting(idleConnWait) \in Seq(Wants) /\ Range(FromWaiting(idleConnWait)) \subseteq Range(idleConnWait)
    BY FromWaitingProperties, Zenon
  <2>5. idleConnWait' \in Seq(Wants) /\ Range(idleConnWait') \subseteq Range(idleConnWait) \cup {wants + 1}
    BY <1>2, <2>1, <2>4, RangeOfAppend, AppendProperties
  <2>6. QED
    BY <2>1, <2>2, <2>3, <2>5, Zenon DEF wc
<1>5. QED
  BY <1>3, <1>4, Zenon

\* decConnsPerHost starts at most the dial of a wantConn that waited for it.
LEMMA DecHandsOn ==
    ASSUME Typed, Queued, NEW d \in [Wants -> DialPlaces], decConnsPerHost(d)
    PROVE  HandsOn(d)
<1>1. connsPerHostWait \in Seq(Wants) /\ IsInjective(connsPerHostWait) /\ Range(connsPerHostWait) \subseteq Wants
  BY DEF Typed, QueueTyped, Queued, Range
<1>2. /\ connsPerHostWait' \in Seq(Wants) /\ IsInjective(connsPerHostWait')
      /\ Range(connsPerHostWait') \subseteq Range(connsPerHostWait)
      /\ \/ \E h \in Range(connsPerHostWait) :
                /\ dialer' = [d EXCEPT ![h] = "start"] /\ h \notin Range(connsPerHostWait')
         \/ dialer' = d
  BY <1>1, DecProperties, Zenon
<1>3. QED
  BY <1>1, <1>2, Zenon DEF HandsOn, DialPlaces

\* persistConn.close closes c and no other connection, for good.
LEMMA CloseProperties ==
    ASSUME Typed, Queued, NEW c \in Wants, NEW d \in [Wants -> DialPlaces], close(c, d)
    PROVE  /\ HandsOn(d) /\ closed' \in [Wants -> BOOLEAN]
           /\ \A x \in Wants : closed'[x] = (closed[x] \/ x = c)
<1>1. CASE closed[c]
  <2>1. dialer' = d /\ UNCHANGED <<closed, connsPerHostWait>>
    BY <1>1, Zenon DEF close
  <2>2. HandsOn(d)
    BY <2>1, Zenon DEF HandsOn, Typed, QueueTyped, Queued
  <2>3. QED
    BY <1>1, <2>1, <2>2, Zenon DEF Typed, PersTyped
<1>2. CASE ~closed[c]
  <2>1. closed' = [closed EXCEPT ![c] = TRUE] /\ decConnsPerHost(d)
    BY <1>2, Zenon DEF close
  <2>2. QED
    BY <2>1, DecHandsOn, Zenon DEF Typed, PersTyped
<1>3. QED
  BY <1>1, <1>2, Zenon

\* tryPutIdleConn for connection c: it is delivered to a wantConn that waits,
\* it goes into the idle list, or it is refused.
Putting(c) ==
  /\ idleConnWait' \in Seq(Wants) /\ Range(idleConnWait') \subseteq Range(idleConnWait)
  /\ idleConn' \in Seq(Wants) /\ closeIdle' = closeIdle
  /\ \/ /\ PutDelivers(c) /\ UNCHANGED <<idleConn, idleLRU>>
        /\ \E w \in Range(idleConnWait) : w \in Wants /\ ~done[w] /\ tryDeliver(w, c)
     \/ /\ PutIdles(c) /\ UNCHANGED <<done, result>>
        /\ Range(idleConn') = Range(idleConn) \cup {c} /\ idleLRU' = idleLRU \cup {c}
        /\ IsInjective(idleConn) /\ c \notin Range(idleConn) => IsInjective(idleConn')
     \/ PutRefused(c) /\ UNCHANGED <<idleConn, idleLRU, done, result>>

\* The three ends of tryPutIdleConn, in one statement.
LEMMA PutProperties ==
    ASSUME Typed, NEW c \in Wants, PutDelivers(c) \/ PutIdles(c) \/ PutRefused(c)
    PROVE  Putting(c)
<1>1. idleConn \in Seq(Wants) /\ idleConnWait \in Seq(Wants) /\ <<>> \in Seq(Wants) /\ Range(<<>>) = {}
  BY DEF Typed, IdleTyped, Range
<1>2. CASE PutDelivers(c)
  <2>1. UNCHANGED <<idleConn, idleLRU, closeIdle>>
    BY <1>2, Zenon DEF PutDelivers
  <2>2. QED
    BY <1>1, <1>2, <2>1, PutDeliversProperties, Zenon DEF Putting
<1>3. CASE PutIdles(c)
  BY <1>1, <1>3, PutIdlesProperties, Zenon DEF Putting
<1>4. CASE PutRefused(c)
  BY <1>1, <1>4, Zenon DEF Putting, PutRefused, wc
<1>5. QED
  BY <1>2, <1>3, <1>4, Zenon

\* closeConnIfStillIdle takes c out of the list and closes it, or does nothing.
LEMMA StillIdleProperties ==
    ASSUME Typed, Queued, NEW c \in Wants, closeConnIfStillIdle(c)
    PROVE  /\ idleConn' \in Seq(Wants) /\ HandsOn(dialer)
           /\ closed' \in [Wants -> BOOLEAN] /\ Range(idleConn') \subseteq Range(idleConn)
           /\ \/ /\ idleLRU' = idleLRU \ {c}
                 /\ IsInjective(idleConn) => IsInjective(idleConn') /\ Range(idleConn') = Range(idleConn) \ {c}
                 /\ \A x \in Wants : closed'[x] = (closed[x] \/ x = c)
              \/ UNCHANGED <<idleConn, idleLRU, closed>>
<1>1. dialer \in [Wants -> DialPlaces] /\ idleConn \in Seq(Wants)
  BY Zenon DEF Typed, QueueTyped, IdleTyped
<1>2. CASE c \in idleLRU
  BY <1>1, <1>2, RemoveProperties, CloseProperties, Zenon DEF closeConnIfStillIdle
<1>3. CASE c \notin idleLRU
  <2>1. UNCHANGED <<idleLRU, idleConn, closed, connsPerHostWait, dialer>>
    BY <1>3, Zenon DEF closeConnIfStillIdle, queue
  <2>2. QED
    BY <1>1, <2>1, Zenon DEF HandsOn, Typed, QueueTyped, PersTyped, Queued
<1>4. QED
  BY <1>2, <1>3, Zenon

\* Every step keeps the types.
LEMMA TypedStep ==
    ASSUME Typed, Places, Queued, Next
    PROVE  Typed'
<1> USE DEF Typed
<1>1. ReqTyped'
  <2>1. ASSUME NEW r \in Reqs, StartCancelled(r) \/ GotErr(r) \/ CancelClose(r) \/ HeaderTimeout(r) \/ ConnClosed(r)
        PROVE ReqTyped'
    BY <2>1 DEF StartCancelled, GotErr, CancelClose, HeaderTimeout, ConnClosed, Ends, TripFails,
      ReqTyped, ReqPlaces, Conns
  <2>2. ASSUME NEW r \in Reqs, QueueForDial(r) PROVE ReqTyped'
    BY <2>2, Zenon DEF QueueForDial, GotoR, ReqTyped, ReqPlaces
  <2>3. ASSUME NEW r \in Reqs, GotConn(r) \/ CancelWant(r) PROVE ReqTyped'
    BY <2>3 DEF GotConn, CancelWant, Ends, ReqTyped, ReqPlaces, Conns
  <2>4. ASSUME NEW r \in Reqs, CancelPutIdle(r) PROVE ReqTyped'
    BY <2>4, Zenon DEF CancelPutIdle, Ends, GotoR, ReqTyped, ReqPlaces, Conns
  <2>5. ASSUME NEW r \in Reqs, QueueForIdleConn(r) PROVE ReqTyped'
    <3>1. wants < MaxWants /\ want' = [want EXCEPT ![r] = wants + 1] /\ conn' = conn
      BY <2>5, Zenon DEF QueueForIdleConn
    <3>2. \E x \in {"select", "dial"} : pc' = [pc EXCEPT ![r] = x]
      BY <2>5, Zenon DEF QueueForIdleConn
    <3>3. wants + 1 \in Conns
      BY <3>1, Numbers, Zenon DEF WantTyped, Conns
    <3>4. QED
      BY <3>1, <3>2, <3>3, Zenon DEF ReqTyped, ReqPlaces
  <2>6. ASSUME NEW c \in Wants, Reply(c) PROVE ReqTyped'
    BY <2>6, Zenon DEF Reply, Ends, TripFails, ReqTyped, ReqPlaces, Conns
  <2>7. ASSUME NEW c \in Wants, BodyDone(c) \/ BodyCancelled(c) \/ BodyConnClosed(c) PROVE ReqTyped'
    BY <2>7, Zenon DEF BodyDone, BodyCancelled, BodyConnClosed, Ends, ReqTyped, ReqPlaces, Conns
  <2>8. ASSUME NEW r \in Reqs, CtxDone(r) \/ CancelRequest(r) PROVE ReqTyped'
    <3>1. UNCHANGED reqs
      BY <2>8, Zenon DEF CtxDone, CancelRequest
    <3>2. QED
      BY <3>1, Zenon DEF ReqTyped, reqs
  <2>9. ASSUME NEW c \in Wants, Dial(c) \/ DialUnwanted(c) \/ DialConn(c) \/ DialFails(c) \/ DialDec(c) \/ Deliver(c) \/
                                DialPutIdle(c) \/ DialClose(c) \/ LoopPut(c) \/ LoopPutIdle(c) \/
                                CallerGone(c) \/ LoopClose(c) \/ RemoveIdleConn(c) \/ Response(c) \/
                                ReadFails(c) \/ PeekFails(c) \/ WriteFails(c) \/ IdleTimer(c) \/
                                CloseTooOld(c)
        PROVE ReqTyped'
    <3>1. UNCHANGED reqs
      BY <2>9, Zenon DEF Dial, DialUnwanted, DialConn, DialFails, DialDec, Deliver, DialPutIdle,
         DialClose, LoopPut, LoopPutIdle, CallerGone, LoopClose, RemoveIdleConn, Response,
         ReadFails, PeekFails, WriteFails, IdleTimer, CloseTooOld
    <3>2. QED
      BY <3>1, Zenon DEF ReqTyped, reqs
  <2>10. ASSUME CloseIdleConnections \/ CloseIdleOne PROVE ReqTyped'
    <3>1. UNCHANGED reqs
      BY <2>10, Zenon DEF CloseIdleConnections, CloseIdleOne
    <3>2. QED
      BY <3>1, Zenon DEF ReqTyped, reqs
  <2>11. QED
    BY <2>1, <2>2, <2>3, <2>4, <2>5, <2>6, <2>7, <2>8, <2>9, <2>10, Zenon DEF Next, ReqStep,
       DialStep, LoopStep, PeerStep
<1>2. LoopTyped'
  <2>1. ASSUME NEW r \in Reqs, GotConn(r) PROVE LoopTyped'
    BY <2>1, Zenon DEF GotConn, LoopTyped
  <2>2. ASSUME NEW w \in Wants, DialConn(w) PROVE LoopTyped'
    BY <2>2, Zenon DEF DialConn, LoopTyped, LoopPlaces
  <2>3. ASSUME NEW c \in Wants, LoopPut(c) PROVE LoopTyped'
    BY <2>3, Zenon DEF LoopPut, Loop, LoopTyped, LoopPlaces
  <2>4. ASSUME NEW c \in Wants, LoopPutIdle(c) PROVE LoopTyped'
    BY <2>4, Zenon DEF LoopPutIdle, Loop, LoopTyped, LoopPlaces
  <2>5. ASSUME NEW c \in Wants, Reply(c) \/ CallerGone(c) PROVE LoopTyped'
    BY <2>5 DEF Reply, CallerGone, Loop, LoopTyped, LoopPlaces
  <2>6. ASSUME NEW c \in Wants, BodyDone(c) \/ BodyCancelled(c) \/ BodyConnClosed(c) \/ LoopClose(c)
        PROVE LoopTyped'
    BY <2>6 DEF BodyDone, BodyCancelled, BodyConnClosed, LoopClose, Loop, LoopTyped, LoopPlaces
  <2>7. ASSUME NEW c \in Wants, RemoveIdleConn(c) \/ PeekFails(c) PROVE LoopTyped'
    BY <2>7 DEF RemoveIdleConn, PeekFails, Loop, LoopTyped, LoopPlaces
  <2>8. ASSUME NEW c \in Wants, Response(c) PROVE LoopTyped'
    BY <2>8 DEF Response, Loop, LoopTyped, LoopPlaces
  <2>9. ASSUME NEW c \in Wants, ReadFails(c) PROVE LoopTyped'
    BY <2>9, Zenon DEF ReadFails, Loop, LoopTyped, LoopPlaces
  <2>10. ASSUME NEW r \in Reqs, StartCancelled(r) \/ QueueForIdleConn(r) \/ QueueForDial(r) \/ GotErr(r) \/ CancelWant(r) \/
                                CancelPutIdle(r) \/ CancelClose(r) \/ ConnClosed(r) \/ CtxDone(r) \/
                                CancelRequest(r) \/ HeaderTimeout(r)
         PROVE LoopTyped'
    <3>1. UNCHANGED rl
      BY <2>10, Zenon DEF StartCancelled, QueueForIdleConn, QueueForDial, GotErr, CancelWant,
         CancelPutIdle, CancelClose, ConnClosed, CtxDone, CancelRequest, HeaderTimeout
    <3>2. QED
      BY <3>1, Zenon DEF LoopTyped, rl
  <2>11. ASSUME NEW c \in Wants, Dial(c) \/ DialUnwanted(c) \/ DialFails(c) \/ DialDec(c) \/ Deliver(c) \/ DialPutIdle(c) \/
                                 DialClose(c) \/ WriteFails(c) \/ IdleTimer(c) \/ CloseTooOld(c)
         PROVE LoopTyped'
    <3>1. UNCHANGED rl
      BY <2>11, Zenon DEF Dial, DialUnwanted, DialFails, DialDec, Deliver, DialPutIdle,
         DialClose, WriteFails, IdleTimer, CloseTooOld
    <3>2. QED
      BY <3>1, Zenon DEF LoopTyped, rl
  <2>12. ASSUME CloseIdleConnections \/ CloseIdleOne PROVE LoopTyped'
    <3>1. UNCHANGED rl
      BY <2>12, Zenon DEF CloseIdleConnections, CloseIdleOne
    <3>2. QED
      BY <3>1, Zenon DEF LoopTyped, rl
  <2>13. QED
    BY <2>1, <2>2, <2>3, <2>4, <2>5, <2>6, <2>7, <2>8, <2>9, <2>10, <2>11, <2>12, Zenon DEF Next,
      ReqStep, DialStep, LoopStep, PeerStep
<1>3. QueueTyped' /\ PersTyped'
  <2>1. ASSUME NEW w \in Wants, DialUnwanted(w) \/ DialDec(w) PROVE QueueTyped' /\ PersTyped'
    <3>1. [dialer EXCEPT ![w] = "gone"] \in [Wants -> DialPlaces]
      BY Zenon DEF QueueTyped, DialPlaces
    <3>2. HandsOn([dialer EXCEPT ![w] = "gone"])
      BY <2>1, <3>1, DecHandsOn, Zenon DEF DialUnwanted, DialDec
    <3>3. QED
      BY <2>1, <3>2, Zenon DEF DialUnwanted, DialDec, HandsOn, QueueTyped, PersTyped, pers
  <2>2. ASSUME NEW w \in Wants, DialClose(w) PROVE QueueTyped' /\ PersTyped'
    <3>1. [dialer EXCEPT ![w] = "gone"] \in [Wants -> DialPlaces]
      BY Zenon DEF QueueTyped, DialPlaces
    <3>2. HandsOn([dialer EXCEPT ![w] = "gone"]) /\ closed' \in [Wants -> BOOLEAN]
      BY <2>2, <3>1, CloseProperties, Zenon DEF DialClose
    <3>3. QED
      BY <2>2, <3>2, Zenon DEF DialClose, HandsOn, QueueTyped, PersTyped
  <2>3. ASSUME NEW r \in Reqs, CancelClose(r) \/ CtxDone(r) \/ HeaderTimeout(r)
        PROVE QueueTyped' /\ PersTyped'
    <3>1. conn[r] \in Wants /\ dialer \in [Wants -> DialPlaces] /\ close(conn[r], dialer)
      BY <2>3, Zenon DEF CancelClose, CtxDone, HeaderTimeout, ReqTyped, QueueTyped, Places, Conns
    <3>2. HandsOn(dialer) /\ closed' \in [Wants -> BOOLEAN]
      BY <3>1, CloseProperties, Zenon
    <3>3. QED
      BY <2>3, <3>2, Zenon DEF CancelClose, CtxDone, HeaderTimeout, HandsOn, QueueTyped, PersTyped
  <2>4. ASSUME NEW c \in Wants, BodyCancelled(c) \/ LoopClose(c) \/ PeekFails(c) \/ WriteFails(c)
        PROVE QueueTyped' /\ PersTyped'
    <3>1. dialer \in [Wants -> DialPlaces] /\ close(c, dialer)
      BY <2>4, Zenon DEF BodyCancelled, LoopClose, PeekFails, WriteFails, QueueTyped
    <3>2. HandsOn(dialer) /\ closed' \in [Wants -> BOOLEAN]
      BY <3>1, CloseProperties, Zenon
    <3>3. QED
      BY <2>4, <3>2, Zenon DEF BodyCancelled, LoopClose, PeekFails, WriteFails, HandsOn,
         QueueTyped, PersTyped
  <2>5. ASSUME CloseIdleOne PROVE QueueTyped' /\ PersTyped'
    <3>1. dialer \in [Wants -> DialPlaces] /\ close(Head(closer), dialer) /\ Head(closer) \in Wants
      BY <2>5 DEF CloseIdleOne, QueueTyped, HistTyped
    <3>2. HandsOn(dialer) /\ closed' \in [Wants -> BOOLEAN]
      BY <3>1, CloseProperties, Zenon
    <3>3. QED
      BY <2>5, <3>2, Zenon DEF CloseIdleOne, HandsOn, QueueTyped, PersTyped
  <2>6. ASSUME NEW c \in Wants, IdleTimer(c) \/ CloseTooOld(c) PROVE QueueTyped' /\ PersTyped'
    <3>1. HandsOn(dialer) /\ closed' \in [Wants -> BOOLEAN]
      BY <2>6, StillIdleProperties, Zenon DEF IdleTimer, CloseTooOld
    <3>2. QED
      BY <2>6, <3>1, Zenon DEF IdleTimer, CloseTooOld, HandsOn, QueueTyped, PersTyped
  <2>7. ASSUME NEW r \in Reqs, QueueForDial(r) PROVE QueueTyped' /\ PersTyped'
    <3>1. want[r] \in Wants
      BY <2>7, TransportAssumption DEF QueueForDial, GotoR, WantTyped, Places, Wants
    <3>2. FromWaiting(connsPerHostWait) \in Seq(Wants)
      BY FromWaitingProperties, Zenon DEF QueueTyped
    <3>3. Append(FromWaiting(connsPerHostWait), want[r]) \in Seq(Wants)
      BY <3>1, <3>2
    <3>4. QED
      BY <2>7, <3>1, <3>3, Zenon DEF QueueForDial, QueueTyped, DialPlaces, PersTyped, pers
  <2>8. ASSUME NEW w \in Wants, Dial(w) \/ DialConn(w) \/ DialFails(w)
        PROVE QueueTyped' /\ PersTyped'
    BY <2>8, Zenon DEF Dial, DialConn, DialFails, Dialer, QueueTyped, DialPlaces, PersTyped, pers
  <2>9. ASSUME NEW w \in Wants, Deliver(w) PROVE QueueTyped' /\ PersTyped'
    BY <2>9, Zenon DEF Deliver, Dialer, QueueTyped, DialPlaces, PersTyped
  <2>10. ASSUME NEW w \in Wants, DialPutIdle(w) PROVE QueueTyped' /\ PersTyped'
    BY <2>10, Zenon DEF DialPutIdle, Dialer, QueueTyped, DialPlaces, PersTyped, pers
  <2>11. ASSUME NEW r \in Reqs, CancelWant(r) PROVE QueueTyped' /\ PersTyped'
    BY <2>11, Zenon DEF CancelWant, QueueTyped, queue, PersTyped
  <2>12. ASSUME NEW c \in Wants, LoopPut(c) PROVE QueueTyped' /\ PersTyped'
    BY <2>12, Zenon DEF LoopPut, QueueTyped, queue, PersTyped
  <2>13. ASSUME NEW r \in Reqs, StartCancelled(r) \/ QueueForIdleConn(r) \/ GotConn(r) \/ GotErr(r) \/ CancelPutIdle(r) \/
                                ConnClosed(r) \/ CancelRequest(r)
         PROVE QueueTyped' /\ PersTyped'
    <3>1. UNCHANGED <<queue, pers>>
      BY <2>13, Zenon DEF StartCancelled, QueueForIdleConn, GotConn, GotErr, CancelPutIdle,
         ConnClosed, CancelRequest
    <3>2. QED
      BY <3>1, Zenon DEF QueueTyped, PersTyped, queue, pers
  <2>14. ASSUME NEW c \in Wants, LoopPutIdle(c) \/ Reply(c) \/ CallerGone(c) \/ BodyDone(c) \/ BodyConnClosed(c) \/ RemoveIdleConn(c)
                                 \/ Response(c) \/ ReadFails(c)
         PROVE QueueTyped' /\ PersTyped'
    <3>1. UNCHANGED <<queue, pers>>
      BY <2>14, Zenon DEF LoopPutIdle, Reply, CallerGone, BodyDone, BodyConnClosed,
         RemoveIdleConn, Response, ReadFails
    <3>2. QED
      BY <3>1, Zenon DEF QueueTyped, PersTyped, queue, pers
  <2>15. ASSUME CloseIdleConnections PROVE QueueTyped' /\ PersTyped'
    <3>1. UNCHANGED <<queue, pers>>
      BY <2>15, Zenon DEF CloseIdleConnections
    <3>2. QED
      BY <3>1, Zenon DEF QueueTyped, PersTyped, queue, pers
  <2>16. QED
    BY <2>1, <2>2, <2>3, <2>4, <2>5, <2>6, <2>7, <2>8, <2>9, <2>10, <2>11, <2>12, <2>13, <2>14,
       <2>15, Zenon DEF Next, ReqStep, DialStep, LoopStep, PeerStep
<1>4. WantTyped' /\ IdleTyped' /\ HistTyped'
  <2>1. ASSUME NEW r \in Reqs, CancelPutIdle(r) PROVE WantTyped' /\ IdleTyped' /\ HistTyped'
    <3>1. conn[r] \in Wants
      BY <2>1, Zenon DEF CancelPutIdle, ReqTyped, Places, Conns
    <3>2. Putting(conn[r])
      BY <2>1, <3>1, PutProperties, Zenon DEF CancelPutIdle
    <3>3. IdleTyped' /\ done' \in [Wants -> BOOLEAN] /\ result' \in [Wants -> Results]
      BY <3>1, <3>2, Zenon DEF Putting, tryDeliver, IdleTyped, WantTyped, Results, Conns
    <3>4. QED
      BY <2>1, <3>3, Zenon DEF CancelPutIdle, WantTyped, HistTyped, misc, hist
  <2>2. ASSUME NEW w \in Wants, DialPutIdle(w) PROVE WantTyped' /\ IdleTyped' /\ HistTyped'
    <3>2. Putting(w)
      BY <2>2, PutProperties, Zenon DEF DialPutIdle
    <3>3. IdleTyped' /\ done' \in [Wants -> BOOLEAN] /\ result' \in [Wants -> Results]
      BY <3>2, Zenon DEF Putting, tryDeliver, IdleTyped, WantTyped, Results, Conns
    <3>4. QED
      BY <2>2, <3>3, Zenon DEF DialPutIdle, WantTyped, HistTyped, misc, hist
  <2>3. ASSUME NEW c \in Wants, LoopPutIdle(c) PROVE WantTyped' /\ IdleTyped' /\ HistTyped'
    <3>2. Putting(c)
      BY <2>3, PutProperties, Zenon DEF LoopPutIdle
    <3>3. IdleTyped' /\ done' \in [Wants -> BOOLEAN] /\ result' \in [Wants -> Results]
      BY <3>2, Zenon DEF Putting, tryDeliver, IdleTyped, WantTyped, Results, Conns
    <3>4. QED
      BY <2>3, <3>3, Zenon DEF LoopPutIdle, WantTyped, HistTyped, misc, hist
  <2>4. ASSUME NEW r \in Reqs, QueueForIdleConn(r) PROVE WantTyped' /\ IdleTyped' /\ HistTyped'
    <3>1. MaxWants \in Nat /\ Range(idleConn) \subseteq Wants
      BY TransportAssumption DEF IdleTyped, Range
    <3>2. /\ idleConn' \in Seq(Wants) /\ idleConnWait' \in Seq(Wants)
          /\ \/ \E c \in Range(idleConn) :
                   /\ tryDeliver(wants + 1, c) /\ idleLRU' = idleLRU \ {c} /\ UNCHANGED <<stillIdle, tooOld>>
             \/ \E old \in SUBSET Range(idleConn) :
                   /\ stillIdle' = stillIdle \cup old /\ tooOld' = tooOld \cup old
                   /\ UNCHANGED <<idleLRU, done, result>>
      BY <2>4, <3>1, QueueForIdleProperties, Zenon DEF IdleTyped, WantTyped
    <3>3. wants < MaxWants /\ wants' = wants + 1 /\ closer' = closer
      BY <2>4, Zenon DEF QueueForIdleConn
    <3>4. done' \in [Wants -> BOOLEAN] /\ result' \in [Wants -> Results]
      BY <3>1, <3>2, Zenon DEF WantTyped, tryDeliver, Conns, Results
    <3>5. WantTyped'
      BY <3>1, <3>3, <3>4 DEF WantTyped
    <3>6. QED
      BY <3>1, <3>2, <3>3, <3>5, Zenon DEF IdleTyped, HistTyped
  <2>5. ASSUME NEW r \in Reqs, GotConn(r) \/ GotErr(r) \/ CancelWant(r)
        PROVE WantTyped' /\ IdleTyped' /\ HistTyped'
    BY <2>5, Zenon DEF GotConn, GotErr, CancelWant, Results, Conns, WantTyped, IdleTyped,
       HistTyped, idle, misc, hist
  <2>6. ASSUME NEW w \in Wants, DialFails(w) \/ Deliver(w)
        PROVE WantTyped' /\ IdleTyped' /\ HistTyped'
    BY <2>6, Zenon DEF DialFails, Deliver, wc, tryDeliver, Results, Conns, WantTyped, IdleTyped,
       HistTyped, idle, misc, hist
  <2>7. ASSUME NEW c \in Wants, RemoveIdleConn(c) PROVE WantTyped' /\ IdleTyped' /\ HistTyped'
    <3>1. idleConn' \in Seq(Wants) /\ idleLRU' = idleLRU \ {c}
      BY <2>7, RemoveProperties, Zenon DEF RemoveIdleConn, IdleTyped
    <3>2. QED
      BY <2>7, <3>1, Zenon DEF RemoveIdleConn, wc, WantTyped, IdleTyped, HistTyped, misc, hist
  <2>8. ASSUME NEW c \in Wants, IdleTimer(c) \/ CloseTooOld(c)
        PROVE WantTyped' /\ IdleTyped' /\ HistTyped'
    <3>1. idleConn' \in Seq(Wants) /\ idleLRU' \subseteq idleLRU
      BY <2>8, StillIdleProperties, Zenon DEF IdleTimer, CloseTooOld
    <3>2. QED
      BY <2>8, <3>1, Zenon DEF IdleTimer, CloseTooOld, wc, WantTyped, IdleTyped, HistTyped, hist
  <2>9. ASSUME CloseIdleConnections PROVE WantTyped' /\ IdleTyped' /\ HistTyped'
    BY <2>9, Zenon DEF CloseIdleConnections, wc, WantTyped, IdleTyped, HistTyped
  <2>10. ASSUME CloseIdleOne PROVE WantTyped' /\ IdleTyped' /\ HistTyped'
    BY <2>10 DEF CloseIdleOne, wc, idle, WantTyped, IdleTyped, HistTyped
  <2>11. ASSUME NEW r \in Reqs, StartCancelled(r) \/ QueueForDial(r) \/ CancelClose(r) \/ ConnClosed(r) \/ CtxDone(r) \/
                                CancelRequest(r) \/ HeaderTimeout(r)
         PROVE WantTyped' /\ IdleTyped' /\ HistTyped'
    <3>1. UNCHANGED <<wants, wc, idle, stillIdle, closer, tooOld>>
      BY <2>11, Zenon DEF StartCancelled, QueueForDial, CancelClose, ConnClosed, CtxDone,
         CancelRequest, HeaderTimeout, misc, hist
    <3>2. QED
      BY <3>1, Zenon DEF WantTyped, IdleTyped, HistTyped, wc, idle
  <2>12. ASSUME NEW c \in Wants, Dial(c) \/ DialUnwanted(c) \/ DialConn(c) \/ DialDec(c) \/ DialClose(c) \/ LoopPut(c) \/ Reply(c) \/
                                 CallerGone(c) \/ BodyDone(c) \/ BodyCancelled(c) \/
                                 BodyConnClosed(c) \/ LoopClose(c) \/ Response(c) \/ ReadFails(c) \/
                                 PeekFails(c) \/ WriteFails(c)
         PROVE WantTyped' /\ IdleTyped' /\ HistTyped'
    <3>1. UNCHANGED <<wants, wc, idle, stillIdle, closer, tooOld>>
      BY <2>12, Zenon DEF Dial, DialUnwanted, DialConn, DialDec, DialClose, LoopPut, Reply,
         CallerGone, BodyDone, BodyCancelled, BodyConnClosed, LoopClose, Response, ReadFails,
         PeekFails, WriteFails, misc, hist
    <3>2. QED
      BY <3>1, Zenon DEF WantTyped, IdleTyped, HistTyped, wc, idle
  <2>13. QED
    BY <2>1, <2>2, <2>3, <2>4, <2>5, <2>6, <2>7, <2>8, <2>9, <2>10, <2>11, <2>12, Zenon DEF Next,
      ReqStep, DialStep, LoopStep, PeerStep
<1>5. QED
  BY <1>1, <1>2, <1>3, <1>4, Zenon

-----------------------------------------------------------------------------
(* Every step keeps each part of the invariant.                             *)

\* A delivery settles one wantConn.
LEMMA DeliverProperties ==
    ASSUME WantTyped, NEW v \in Wants, NEW x, tryDeliver(v, x)
    PROVE  /\ done'[v] /\ result'[v] = x
           /\ \A y \in Wants \ {v} : done'[y] = done[y] /\ result'[y] = result[y]
BY Zenon DEF WantTyped, tryDeliver

\* Only a wantConn that was made is settled, and an unsettled one holds nothing.
LEMMA DeliverPlaces ==
    ASSUME WantTyped, Places, NEW v \in Wants, NEW x, tryDeliver(v, x),
           wants' \in {wants, wants + 1}, v <= wants'
    PROVE  \A y \in Wants : (y > wants' => ~done'[y]) /\ (~done'[y] => result'[y] = NoConn)
<1>1. /\ done'[v] /\ \A y \in Wants \ {v} : done'[y] = done[y] /\ result'[y] = result[y]
  BY DeliverProperties, Zenon
<1>2. \A y \in Wants : y \in Nat
  BY DEF Wants
<1>3. \A y \in Wants : y > wants' => y # v /\ y > wants
  BY <1>2 DEF WantTyped
<1>4. QED
  BY <1>1, <1>3, Zenon DEF Places

\* Every step keeps each request's wantConn and connection where they belong.
LEMMA PlacesStep ==
    ASSUME Typed, Places, Queued, Next
    PROVE  Places'
<1> DEFINE OfReqs(r) == /\ pc[r] \in {"dial", "select"} => want[r] \in 1 .. wants
                        /\ pc[r] \in {"wait", "body", "putIdle", "close"} <=> conn[r] # NoConn
           OfWants(w) == (w > wants => ~done[w]) /\ (~done[w] => result[w] = NoConn)
<1> USE Numbers DEF Typed
<1>1. \A q \in Reqs : OfReqs(q)'
  <2>1. ASSUME NEW r \in Reqs, StartCancelled(r) \/ GotErr(r) \/ CancelClose(r) \/ HeaderTimeout(r)
        PROVE \A q \in Reqs : OfReqs(q)'
    BY <2>1 DEF StartCancelled, GotErr, CancelClose, HeaderTimeout, Ends, wc, misc, hist,
       ReqTyped, Places, NoConn
  <2>2. ASSUME NEW r \in Reqs, ConnClosed(r) PROVE \A q \in Reqs : OfReqs(q)'
    BY <2>2 DEF ConnClosed, Ends, TripFails, misc, hist, ReqTyped, Places, NoConn
  <2>3. ASSUME NEW r \in Reqs, QueueForDial(r) PROVE \A q \in Reqs : OfReqs(q)'
    BY <2>3, Zenon DEF QueueForDial, GotoR, misc, hist, ReqTyped, Places, NoConn
  <2>4. ASSUME NEW r \in Reqs, GotConn(r) \/ CancelWant(r) PROVE \A q \in Reqs : OfReqs(q)'
    BY <2>4 DEF GotConn, CancelWant, Ends, misc, hist, ReqTyped, Places, NoConn
  <2>5. ASSUME NEW r \in Reqs, CancelPutIdle(r) PROVE \A q \in Reqs : OfReqs(q)'
    BY <2>5 DEF CancelPutIdle, Ends, GotoR, misc, hist, ReqTyped, Places, NoConn
  <2>6. ASSUME NEW r \in Reqs, QueueForIdleConn(r) PROVE \A q \in Reqs : OfReqs(q)'
    <3>1. wants' = wants + 1 /\ want' = [want EXCEPT ![r] = wants + 1] /\ conn' = conn /\ pc[r] = "start"
      BY <2>6, Zenon DEF QueueForIdleConn
    <3>2. \E x \in {"select", "dial"} : pc' = [pc EXCEPT ![r] = x]
      BY <2>6, Zenon DEF QueueForIdleConn
    <3>3. QED
      BY <3>1, <3>2 DEF ReqTyped, WantTyped, Places
  <2>7. ASSUME NEW c \in Wants, Reply(c) PROVE \A q \in Reqs : OfReqs(q)'
    BY <2>7 DEF Reply, Ends, TripFails, misc, hist, ReqTyped, Places, NoConn
  <2>8. ASSUME NEW c \in Wants, BodyDone(c) \/ BodyCancelled(c) \/ BodyConnClosed(c)
        PROVE \A q \in Reqs : OfReqs(q)'
    BY <2>8 DEF BodyDone, BodyCancelled, BodyConnClosed, Ends, misc, hist, ReqTyped, Places,
       NoConn
  <2>9. ASSUME NEW r \in Reqs, CtxDone(r) \/ CancelRequest(r) PROVE \A q \in Reqs : OfReqs(q)'
    <3>1. UNCHANGED <<reqs, wants>>
      BY <2>9, Zenon DEF CtxDone, CancelRequest, misc, hist
    <3>2. QED
      BY <3>1, Zenon DEF Places, reqs
  <2>10. ASSUME NEW c \in Wants, Dial(c) \/ DialUnwanted(c) \/ DialConn(c) \/ DialFails(c) \/ DialDec(c) \/ Deliver(c) \/
                                 DialPutIdle(c) \/ DialClose(c) \/ LoopPut(c) \/ LoopPutIdle(c) \/
                                 CallerGone(c) \/ LoopClose(c) \/ RemoveIdleConn(c) \/ Response(c)
                                 \/ ReadFails(c) \/ PeekFails(c) \/ WriteFails(c) \/ IdleTimer(c) \/
                                 CloseTooOld(c)
         PROVE \A q \in Reqs : OfReqs(q)'
    <3>1. UNCHANGED <<reqs, wants>>
      BY <2>10, Zenon DEF Dial, DialUnwanted, DialConn, DialFails, DialDec, Deliver,
         DialPutIdle, DialClose, LoopPut, LoopPutIdle, CallerGone, LoopClose, RemoveIdleConn,
         Response, ReadFails, PeekFails, WriteFails, IdleTimer, CloseTooOld, misc, hist
    <3>2. QED
      BY <3>1, Zenon DEF Places, reqs
  <2>11. ASSUME CloseIdleConnections \/ CloseIdleOne PROVE \A q \in Reqs : OfReqs(q)'
    <3>1. UNCHANGED <<reqs, wants>>
      BY <2>11, Zenon DEF CloseIdleConnections, CloseIdleOne, misc, hist
    <3>2. QED
      BY <3>1, Zenon DEF Places, reqs
  <2>12. QED
    BY <2>1, <2>2, <2>3, <2>4, <2>5, <2>6, <2>7, <2>8, <2>9, <2>10, <2>11, Zenon DEF Next,
       ReqStep, DialStep, LoopStep, PeerStep
<1>2. \A x \in Wants : OfWants(x)'
  <2>1. ASSUME NEW r \in Reqs, QueueForIdleConn(r) PROVE \A x \in Wants : OfWants(x)'
    <3>1. wants' = wants + 1 /\ wants < MaxWants /\ wants + 1 \in Wants
      BY <2>1, Zenon DEF QueueForIdleConn, WantTyped
    <3>2. CASE UNCHANGED <<done, result>>
      BY <3>1, <3>2 DEF WantTyped, Places, Wants
    <3>3. CASE \E c : tryDeliver(wants + 1, c)
      BY <3>1, <3>3, DeliverPlaces DEF WantTyped
    <3>4. QED
      BY <2>1, <3>2, <3>3, Zenon DEF QueueForIdleConn, wc
  <2>2. ASSUME NEW r \in Reqs, GotConn(r) \/ GotErr(r) \/ CancelWant(r)
        PROVE \A x \in Wants : OfWants(x)'
    <3>1. want[r] \in 1 .. wants /\ wants' = wants
      BY <2>2, Zenon DEF GotConn, GotErr, CancelWant, Places, misc, hist
    <3>2. result' = [result EXCEPT ![want[r]] = NoConn] /\ done' \in {done, [done EXCEPT ![want[r]] = TRUE]}
      BY <2>2, Zenon DEF GotConn, GotErr, CancelWant
    <3>3. QED
      BY <3>1, <3>2 DEF WantTyped, Places
  <2>3. ASSUME NEW w \in Wants, DialFails(w) \/ Deliver(w) PROVE \A x \in Wants : OfWants(x)'
    <3>1. dialer[w] # "none" /\ wants' = wants
      BY <2>3, Zenon DEF DialFails, Deliver, Dialer, misc, hist
    <3>4. w <= wants
      BY <3>1 DEF Queued, WantTyped, Wants
    <3>2. UNCHANGED <<done, result>> \/ \E x : tryDeliver(w, x)
      BY <2>3, Zenon DEF DialFails, Deliver, wc
    <3>3. QED
      BY <3>1, <3>2, <3>4, DeliverPlaces, Zenon DEF Places, WantTyped, Wants
  <2>4. ASSUME NEW r \in Reqs, CancelPutIdle(r) PROVE \A x \in Wants : OfWants(x)'
    <3>1. conn[r] \in Wants /\ Putting(conn[r]) /\ wants' = wants
      BY <2>4, PutProperties, Zenon DEF CancelPutIdle, ReqTyped, Places, Conns, misc, hist
    <3>2. UNCHANGED <<done, result>> \/ \E v \in Wants : v <= wants /\ tryDeliver(v, conn[r])
      BY <3>1, Zenon DEF Putting, Queued
    <3>3. QED
      BY <3>1, <3>2, DeliverPlaces, Zenon DEF Places, WantTyped, Wants
  <2>5. ASSUME NEW w \in Wants, DialPutIdle(w) PROVE \A x \in Wants : OfWants(x)'
    <3>1. Putting(w) /\ wants' = wants
      BY <2>5, PutProperties, Zenon DEF DialPutIdle, misc, hist
    <3>2. UNCHANGED <<done, result>> \/ \E v \in Wants : v <= wants /\ tryDeliver(v, w)
      BY <3>1, Zenon DEF Putting, Queued
    <3>3. QED
      BY <3>1, <3>2, DeliverPlaces, Zenon DEF Places, WantTyped, Wants
  <2>6. ASSUME NEW c \in Wants, LoopPutIdle(c) PROVE \A x \in Wants : OfWants(x)'
    <3>1. Putting(c) /\ wants' = wants
      BY <2>6, PutProperties, Zenon DEF LoopPutIdle, misc, hist
    <3>2. UNCHANGED <<done, result>> \/ \E v \in Wants : v <= wants /\ tryDeliver(v, c)
      BY <3>1, Zenon DEF Putting, Queued
    <3>3. QED
      BY <3>1, <3>2, DeliverPlaces, Zenon DEF Places, WantTyped, Wants
  <2>7. ASSUME NEW r \in Reqs, StartCancelled(r) \/ QueueForDial(r) \/ CancelClose(r) \/ ConnClosed(r) \/ CtxDone(r) \/
                               CancelRequest(r) \/ HeaderTimeout(r)
        PROVE \A x \in Wants : OfWants(x)'
    <3>1. UNCHANGED <<wc, wants>>
      BY <2>7, Zenon DEF StartCancelled, QueueForDial, CancelClose, ConnClosed, CtxDone,
         CancelRequest, HeaderTimeout, misc, hist
    <3>2. QED
      BY <3>1, Zenon DEF Places, wc
  <2>8. ASSUME NEW c \in Wants, Dial(c) \/ DialUnwanted(c) \/ DialConn(c) \/ DialDec(c) \/ DialClose(c) \/ LoopPut(c) \/ Reply(c) \/
                                CallerGone(c) \/ BodyDone(c) \/ BodyCancelled(c) \/
                                BodyConnClosed(c) \/ LoopClose(c) \/ RemoveIdleConn(c) \/
                                Response(c) \/ ReadFails(c) \/ PeekFails(c) \/ WriteFails(c) \/
                                IdleTimer(c) \/ CloseTooOld(c)
        PROVE \A x \in Wants : OfWants(x)'
    <3>1. UNCHANGED <<wc, wants>>
      BY <2>8, Zenon DEF Dial, DialUnwanted, DialConn, DialDec, DialClose, LoopPut, Reply,
         CallerGone, BodyDone, BodyCancelled, BodyConnClosed, LoopClose, RemoveIdleConn,
         Response, ReadFails, PeekFails, WriteFails, IdleTimer, CloseTooOld, misc, hist
    <3>2. QED
      BY <3>1, Zenon DEF Places, wc
  <2>9. ASSUME CloseIdleConnections \/ CloseIdleOne PROVE \A x \in Wants : OfWants(x)'
    <3>1. UNCHANGED <<wc, wants>>
      BY <2>9, Zenon DEF CloseIdleConnections, CloseIdleOne, misc, hist
    <3>2. QED
      BY <3>1, Zenon DEF Places, wc
  <2>10. QED
    BY <2>1, <2>2, <2>3, <2>4, <2>5, <2>6, <2>7, <2>8, <2>9, Zenon DEF Next, ReqStep, DialStep,
      LoopStep, PeerStep
<1>3. QED
  BY <1>1, <1>2, Zenon DEF Places

\* A request in getConn has a wantConn.
LEMMA WantOfRequest ==
    ASSUME Typed, Places, NEW r \in Reqs, pc[r] \in {"dial", "select"}
    PROVE  want[r] \in Wants /\ want[r] <= wants
BY TransportAssumption DEF Typed, WantTyped, Places, Wants

\* A step that hands on at most one count keeps the queue in order.
LEMMA QueuedKept ==
    ASSUME Typed, Places, Queued, wants' = wants, Range(idleConnWait') \subseteq Range(idleConnWait),
           \A r \in Reqs : pc'[r] = "dial" => pc[r] = "dial" /\ want'[r] = want[r],
           NEW d, \A w \in Wants : dialer[w] = "none" => d[w] = "none", HandsOn(d)
    PROVE  Queued'
<1>1. Range(connsPerHostWait) \subseteq Wants
  BY DEF Typed, QueueTyped, Range
<1>2. \A w \in Wants : w \in Nat
  BY DEF Wants
<1>3. /\ IsInjective(connsPerHostWait') /\ Range(connsPerHostWait') \subseteq Range(connsPerHostWait)
      /\ \A w \in Wants : dialer'[w] = d[w] \/ w \in Range(connsPerHostWait)
      /\ \A w \in Range(connsPerHostWait') : dialer'[w] = d[w]
  BY Zenon DEF HandsOn
<1>4. \A w \in Range(connsPerHostWait') : w <= wants' /\ dialer'[w] = "none"
  BY <1>1, <1>3, Zenon DEF Queued
<1>5. \A w \in Wants : w > wants' => dialer'[w] = "none"
  BY <1>1, <1>2, <1>3 DEF Queued, Typed, WantTyped
<1>6. \A w \in Range(idleConnWait') : w <= wants'
  BY Zenon DEF Queued
<1>7. ASSUME NEW r \in Reqs, pc'[r] = "dial"
      PROVE  /\ dialer'[want'[r]] = "none" /\ want'[r] \notin Range(connsPerHostWait')
             /\ \A q \in Reqs : pc'[q] = "dial" /\ want'[q] = want'[r] => q = r
  <2>1. pc[r] = "dial" /\ want'[r] = want[r] /\ want[r] \in Wants
    BY <1>7, WantOfRequest, Zenon
  <2>2. QED
    BY <1>3, <2>1 DEF Queued
<1>8. QED
  BY <1>3, <1>4, <1>5, <1>6, <1>7, Zenon DEF Queued

\* A step that leaves the queue and the dials alone hands nothing on.
LEMMA NothingHandedOn ==
    ASSUME Typed, Queued, UNCHANGED <<dialer, connsPerHostWait>>
    PROVE  HandsOn(dialer)
BY Zenon DEF Typed, QueueTyped, Queued, HandsOn

\* Every step keeps the queue for dials in order.
LEMMA QueuedStep ==
    ASSUME Typed, Places, Queued, Next
    PROVE  Queued'
<1> DEFINE Quiet == /\ wants' = wants /\ Range(idleConnWait') \subseteq Range(idleConnWait)
                    /\ \A q \in Reqs : pc'[q] = "dial" => pc[q] = "dial" /\ want'[q] = want[q]
           Keeps(d) == \A w \in Wants : dialer[w] = "none" => d[w] = "none"
<1> USE DEF Typed
<1>1. Quiet \/ \E q \in Reqs : QueueForIdleConn(q)
  <2>1. ASSUME NEW r \in Reqs, QueueForIdleConn(r)
        PROVE Quiet \/ \E q \in Reqs : QueueForIdleConn(q)
    BY <2>1, Zenon
  <2>2. ASSUME NEW r \in Reqs, StartCancelled(r) \/ GotErr(r) \/ CancelClose(r) \/ HeaderTimeout(r)
        PROVE Quiet \/ \E q \in Reqs : QueueForIdleConn(q)
    BY <2>2, Zenon DEF StartCancelled, GotErr, CancelClose, HeaderTimeout, Ends, ReqTyped, idle,
       misc, hist
  <2>3. ASSUME NEW r \in Reqs, ConnClosed(r) PROVE Quiet \/ \E q \in Reqs : QueueForIdleConn(q)
    BY <2>3, Zenon DEF ConnClosed, Ends, TripFails, ReqTyped, idle, misc, hist
  <2>4. ASSUME NEW r \in Reqs, QueueForDial(r) PROVE Quiet \/ \E q \in Reqs : QueueForIdleConn(q)
    BY <2>4, Zenon DEF QueueForDial, GotoR, ReqTyped, idle, misc, hist
  <2>5. ASSUME NEW r \in Reqs, GotConn(r) \/ CancelWant(r)
        PROVE Quiet \/ \E q \in Reqs : QueueForIdleConn(q)
    BY <2>5, Zenon DEF GotConn, CancelWant, Ends, ReqTyped, idle, misc, hist
  <2>6. ASSUME NEW r \in Reqs, CancelPutIdle(r) PROVE Quiet \/ \E q \in Reqs : QueueForIdleConn(q)
    <3>1. conn[r] \in Wants /\ Putting(conn[r])
      BY <2>6, PutProperties, Zenon DEF CancelPutIdle, ReqTyped, Places, Conns
    <3>2. QED
      BY <2>6, <3>1, Zenon DEF CancelPutIdle, Putting, Ends, GotoR, ReqTyped, misc, hist
  <2>7. ASSUME NEW w \in Wants, DialPutIdle(w) PROVE Quiet \/ \E q \in Reqs : QueueForIdleConn(q)
    <3>1. Putting(w)
      BY <2>7, PutProperties, Zenon DEF DialPutIdle
    <3>2. QED
      BY <2>7, <3>1, Zenon DEF DialPutIdle, Putting, reqs, misc, hist
  <2>8. ASSUME NEW c \in Wants, LoopPutIdle(c) PROVE Quiet \/ \E q \in Reqs : QueueForIdleConn(q)
    <3>1. Putting(c)
      BY <2>8, PutProperties, Zenon DEF LoopPutIdle
    <3>2. QED
      BY <2>8, <3>1, Zenon DEF LoopPutIdle, Putting, reqs, misc, hist
  <2>9. ASSUME NEW c \in Wants, Reply(c) PROVE Quiet \/ \E q \in Reqs : QueueForIdleConn(q)
    BY <2>9, Zenon DEF Reply, Ends, TripFails, ReqTyped, idle, misc, hist
  <2>10. ASSUME NEW c \in Wants, BodyDone(c) \/ BodyCancelled(c) \/ BodyConnClosed(c)
         PROVE Quiet \/ \E q \in Reqs : QueueForIdleConn(q)
    BY <2>10, Zenon DEF BodyDone, BodyCancelled, BodyConnClosed, Ends, ReqTyped, idle, misc, hist
  <2>11. ASSUME NEW r \in Reqs, CtxDone(r) \/ CancelRequest(r)
         PROVE Quiet \/ \E q \in Reqs : QueueForIdleConn(q)
    <3>1. UNCHANGED <<reqs, wants, idleConnWait>>
      BY <2>11, Zenon DEF CtxDone, CancelRequest, idle, misc, hist
    <3>2. QED
      BY <3>1, Zenon DEF reqs
  <2>12. ASSUME NEW c \in Wants, Dial(c) \/ DialUnwanted(c) \/ DialConn(c) \/ DialFails(c) \/ DialDec(c) \/ Deliver(c) \/
                                 DialClose(c) \/ LoopPut(c) \/ CallerGone(c) \/ LoopClose(c) \/
                                 RemoveIdleConn(c) \/ Response(c) \/ ReadFails(c) \/ PeekFails(c) \/
                                 WriteFails(c) \/ IdleTimer(c) \/ CloseTooOld(c)
         PROVE Quiet \/ \E q \in Reqs : QueueForIdleConn(q)
    <3>1. UNCHANGED <<reqs, wants, idleConnWait>>
      BY <2>12, Zenon DEF Dial, DialUnwanted, DialConn, DialFails, DialDec, Deliver, DialClose,
         LoopPut, CallerGone, LoopClose, RemoveIdleConn, Response, ReadFails, PeekFails,
         WriteFails, IdleTimer, CloseTooOld, idle, misc, hist
    <3>2. QED
      BY <3>1, Zenon DEF reqs
  <2>13. ASSUME CloseIdleConnections \/ CloseIdleOne
         PROVE Quiet \/ \E q \in Reqs : QueueForIdleConn(q)
    <3>1. UNCHANGED <<reqs, wants, idleConnWait>>
      BY <2>13, Zenon DEF CloseIdleConnections, CloseIdleOne, idle, misc, hist
    <3>2. QED
      BY <3>1, Zenon DEF reqs
  <2>14. QED
    BY <2>1, <2>2, <2>3, <2>4, <2>5, <2>6, <2>7, <2>8, <2>9, <2>10, <2>11, <2>12, <2>13, Zenon
       DEF Next, ReqStep, DialStep, LoopStep, PeerStep
<1>2. (\E d : Keeps(d) /\ HandsOn(d)) \/ \E q \in Reqs : QueueForDial(q)
  <2>1. ASSUME NEW r \in Reqs, QueueForDial(r)
        PROVE (\E d : Keeps(d) /\ HandsOn(d)) \/ \E q \in Reqs : QueueForDial(q)
    BY <2>1, Zenon
  <2>2. ASSUME NEW w \in Wants, DialUnwanted(w) \/ DialDec(w) \/ DialClose(w)
        PROVE (\E d : Keeps(d) /\ HandsOn(d)) \/ \E q \in Reqs : QueueForDial(q)
    <3> DEFINE d == [dialer EXCEPT ![w] = "gone"]
    <3>1. d \in [Wants -> DialPlaces] /\ Keeps(d)
      BY <2>2, Zenon DEF DialUnwanted, DialDec, DialClose, QueueTyped, DialPlaces
    <3> HIDE DEF d
    <3>2. HandsOn(d)
      BY <2>2, <3>1, DecHandsOn, CloseProperties, Zenon DEF DialUnwanted, DialDec, DialClose, d
    <3>3. QED
      BY <3>1, <3>2, Zenon
  <2>3. ASSUME NEW r \in Reqs, CancelClose(r) \/ CtxDone(r) \/ HeaderTimeout(r)
        PROVE (\E d : Keeps(d) /\ HandsOn(d)) \/ \E q \in Reqs : QueueForDial(q)
    <3>1. conn[r] \in Wants /\ dialer \in [Wants -> DialPlaces] /\ close(conn[r], dialer)
      BY <2>3, Zenon DEF CancelClose, CtxDone, HeaderTimeout, ReqTyped, QueueTyped, Places, Conns
    <3>2. QED
      BY <3>1, CloseProperties, Zenon
  <2>4. ASSUME NEW c \in Wants, BodyCancelled(c) \/ LoopClose(c) \/ PeekFails(c) \/ WriteFails(c)
        PROVE (\E d : Keeps(d) /\ HandsOn(d)) \/ \E q \in Reqs : QueueForDial(q)
    <3>1. dialer \in [Wants -> DialPlaces] /\ close(c, dialer)
      BY <2>4, Zenon DEF BodyCancelled, LoopClose, PeekFails, WriteFails, QueueTyped
    <3>2. QED
      BY <3>1, CloseProperties, Zenon
  <2>5. ASSUME CloseIdleOne PROVE (\E d : Keeps(d) /\ HandsOn(d)) \/ \E q \in Reqs : QueueForDial(q)
    <3>1. dialer \in [Wants -> DialPlaces] /\ close(Head(closer), dialer) /\ Head(closer) \in Wants
      BY <2>5 DEF CloseIdleOne, QueueTyped, HistTyped
    <3>2. QED
      BY <3>1, CloseProperties, Zenon
  <2>6. ASSUME NEW c \in Wants, IdleTimer(c) \/ CloseTooOld(c)
        PROVE (\E d : Keeps(d) /\ HandsOn(d)) \/ \E q \in Reqs : QueueForDial(q)
    BY <2>6, StillIdleProperties, Zenon DEF IdleTimer, CloseTooOld
  <2>7. ASSUME NEW w \in Wants, Dial(w) \/ DialConn(w) \/ DialFails(w) \/ Deliver(w) \/ DialPutIdle(w)
        PROVE (\E d : Keeps(d) /\ HandsOn(d)) \/ \E q \in Reqs : QueueForDial(q)
    <3>1. /\ dialer[w] # "none" /\ connsPerHostWait' = connsPerHostWait
          /\ \E x \in DialPlaces : dialer' = [dialer EXCEPT ![w] = x]
      BY <2>7, Zenon DEF Dial, DialConn, DialFails, Deliver, DialPutIdle, Dialer, DialPlaces
    <3>2. Keeps(dialer')
      BY <3>1, Zenon DEF QueueTyped
    <3>3. HandsOn(dialer')
      BY <3>1, Zenon DEF QueueTyped, Queued, HandsOn
    <3>4. QED
      BY <3>2, <3>3, Zenon
  <2>8. ASSUME NEW r \in Reqs, StartCancelled(r) \/ QueueForIdleConn(r) \/ GotConn(r) \/ GotErr(r) \/ CancelWant(r) \/
                               CancelPutIdle(r) \/ ConnClosed(r) \/ CancelRequest(r)
        PROVE (\E d : Keeps(d) /\ HandsOn(d)) \/ \E q \in Reqs : QueueForDial(q)
    <3>1. UNCHANGED queue
      BY <2>8, Zenon DEF StartCancelled, QueueForIdleConn, GotConn, GotErr, CancelWant,
         CancelPutIdle, ConnClosed, CancelRequest
    <3>2. HandsOn(dialer)
      BY <3>1, NothingHandedOn, Zenon DEF queue
    <3>3. QED
      BY <3>2, Zenon
  <2>9. ASSUME NEW c \in Wants, LoopPut(c) \/ LoopPutIdle(c) \/ Reply(c) \/ CallerGone(c) \/ BodyDone(c) \/ BodyConnClosed(c) \/
                                RemoveIdleConn(c) \/ Response(c) \/ ReadFails(c)
        PROVE (\E d : Keeps(d) /\ HandsOn(d)) \/ \E q \in Reqs : QueueForDial(q)
    <3>1. UNCHANGED queue
      BY <2>9, Zenon DEF LoopPut, LoopPutIdle, Reply, CallerGone, BodyDone, BodyConnClosed,
         RemoveIdleConn, Response, ReadFails
    <3>2. HandsOn(dialer)
      BY <3>1, NothingHandedOn, Zenon DEF queue
    <3>3. QED
      BY <3>2, Zenon
  <2>10. ASSUME CloseIdleConnections
         PROVE (\E d : Keeps(d) /\ HandsOn(d)) \/ \E q \in Reqs : QueueForDial(q)
    <3>1. UNCHANGED queue
      BY <2>10, Zenon DEF CloseIdleConnections
    <3>2. HandsOn(dialer)
      BY <3>1, NothingHandedOn, Zenon DEF queue
    <3>3. QED
      BY <3>2, Zenon
  <2>11. QED
    BY <2>1, <2>2, <2>3, <2>4, <2>5, <2>6, <2>7, <2>8, <2>9, <2>10, Zenon DEF Next, ReqStep,
       DialStep, LoopStep, PeerStep
<1>3. ASSUME NEW r \in Reqs, QueueForIdleConn(r) PROVE Queued'
  <2>1. /\ wants' = wants + 1 /\ want' = [want EXCEPT ![r] = wants + 1] /\ UNCHANGED queue /\ wants < MaxWants
        /\ \E x \in {"select", "dial"} : pc' = [pc EXCEPT ![r] = x]
    BY <1>3, Zenon DEF QueueForIdleConn
  <2>2. Range(connsPerHostWait) \subseteq Wants /\ Range(idleConnWait) \subseteq Wants /\ MaxWants \in Nat
    BY TransportAssumption DEF QueueTyped, IdleTyped, Range
  <2>3. Range(idleConnWait') \subseteq Range(idleConnWait) \cup {wants + 1}
    BY <1>3, <2>2, QueueForIdleProperties, Zenon DEF IdleTyped, WantTyped
  <2>4. \A w \in Wants : w \in Nat
    BY DEF Wants
  <2>5. wants + 1 \in Wants
    BY <2>1, Numbers, Zenon DEF WantTyped
  <2>6. \A w \in Range(connsPerHostWait') \cup Range(idleConnWait') : w <= wants'
    BY <2>1, <2>2, <2>3, <2>4 DEF Queued, WantTyped, queue
  <2>7. \A w \in Wants : w > wants' => dialer'[w] = "none"
    BY <2>1, <2>4 DEF Queued, WantTyped, queue
  <2>8. dialer[wants + 1] = "none" /\ wants + 1 \notin Range(connsPerHostWait)
    BY <2>2, <2>4, <2>5 DEF Queued, WantTyped
  <2>9. \A q \in Reqs : pc[q] = "dial" => want[q] # wants + 1
    BY DEF Places, WantTyped
  <2>10. ASSUME NEW q \in Reqs, pc'[q] = "dial"
         PROVE  /\ dialer'[want'[q]] = "none" /\ want'[q] \notin Range(connsPerHostWait')
                /\ \A p \in Reqs : pc'[p] = "dial" /\ want'[p] = want'[q] => p = q
    BY <2>1, <2>8, <2>9, <2>10 DEF Queued, ReqTyped, queue
  <2>11. QED
    BY <2>1, <2>6, <2>7, <2>10, Zenon DEF Queued, queue
<1>4. ASSUME NEW r \in Reqs, QueueForDial(r) PROVE Queued'
  <2>1. /\ pc[r] = "dial" /\ pc' = [pc EXCEPT ![r] = "select"] /\ UNCHANGED <<want, idleConnWait, wants>>
        /\ \/ dialer' = [dialer EXCEPT ![want[r]] = "start"] /\ UNCHANGED connsPerHostWait
           \/ connsPerHostWait' = Append(FromWaiting(connsPerHostWait), want[r]) /\ UNCHANGED dialer
    BY <1>4, Zenon DEF QueueForDial, GotoR, idle, misc, hist
  <2>2. want[r] \in Wants /\ want[r] <= wants /\ dialer[want[r]] = "none" /\ want[r] \notin Range(connsPerHostWait)
    BY <2>1, WantOfRequest, Zenon DEF Queued
  <2>3. \A q \in Reqs : pc'[q] = "dial" => pc[q] = "dial" /\ want[q] # want[r]
    BY <2>1, Zenon DEF Queued, ReqTyped
  <2>4. CASE dialer' = [dialer EXCEPT ![want[r]] = "start"] /\ UNCHANGED connsPerHostWait
    <3>1. \A w \in Wants \ {want[r]} : dialer'[w] = dialer[w]
      BY <2>4, Zenon DEF QueueTyped
    <3>2. \A q \in Reqs : pc[q] = "dial" => want[q] \in Wants
      BY WantOfRequest, Zenon
    <3>3. Range(connsPerHostWait) \subseteq Wants
      BY DEF QueueTyped, Range
    <3>4. \A w \in Wants : w \in Nat
      BY DEF Wants
    <3>5. \A w \in Wants : w > wants => w # want[r] /\ dialer[w] = "none"
      BY <2>2, <3>4 DEF Queued, WantTyped
    <3>6. QED
      BY <2>1, <2>2, <2>3, <2>4, <3>1, <3>2, <3>3, <3>5, Zenon DEF Queued
  <2>5. CASE connsPerHostWait' = Append(FromWaiting(connsPerHostWait), want[r]) /\ UNCHANGED dialer
    <3>1. /\ FromWaiting(connsPerHostWait) \in Seq(Wants) /\ IsInjective(FromWaiting(connsPerHostWait))
          /\ Range(FromWaiting(connsPerHostWait)) \subseteq Range(connsPerHostWait)
      BY FromWaitingProperties, Zenon DEF QueueTyped, Queued
    <3>2. IsInjective(connsPerHostWait') /\ Range(connsPerHostWait') \subseteq Range(connsPerHostWait) \cup {want[r]}
      BY <2>2, <2>5, <3>1, RangeOfAppend
    <3>3. QED
      BY <2>1, <2>2, <2>3, <2>5, <3>2, Zenon DEF Queued
  <2>6. QED
    BY <2>1, <2>4, <2>5, Zenon
<1>5. QED
  BY <1>1, <1>2, <1>3, <1>4, QueuedKept, Zenon

\* A connection's goroutines start in dialConn, and a connection stays.
LEMMA LoopMoves ==
    ASSUME Typed, Next
    PROVE  \/ \A x \in Wants : loop'[x] = "none" <=> loop[x] = "none"
           \/ \E v \in Wants : DialConn(v)
<1> DEFINE Same == \A x \in Wants : loop'[x] = "none" <=> loop[x] = "none"
<1> USE DEF Typed
<1>1. ASSUME NEW w \in Wants, DialConn(w) PROVE Same \/ \E v \in Wants : DialConn(v)
  BY <1>1, Zenon
<1>2. ASSUME NEW c \in Wants, LoopPut(c) \/ LoopPutIdle(c) \/ Reply(c) \/ CallerGone(c)
      PROVE Same \/ \E v \in Wants : DialConn(v)
  BY <1>2, Zenon DEF LoopPut, LoopPutIdle, Reply, CallerGone, Loop, LoopTyped
<1>3. ASSUME NEW c \in Wants, BodyDone(c) \/ BodyCancelled(c) \/ BodyConnClosed(c) \/ LoopClose(c) \/ RemoveIdleConn(c)
      PROVE Same \/ \E v \in Wants : DialConn(v)
  BY <1>3, Zenon DEF BodyDone, BodyCancelled, BodyConnClosed, LoopClose, RemoveIdleConn, Loop,
     LoopTyped
<1>4. ASSUME NEW c \in Wants, Response(c) \/ ReadFails(c) \/ PeekFails(c)
      PROVE Same \/ \E v \in Wants : DialConn(v)
  BY <1>4, Zenon DEF Response, ReadFails, PeekFails, Loop, LoopTyped
<1>5. ASSUME NEW r \in Reqs, StartCancelled(r) \/ QueueForIdleConn(r) \/ QueueForDial(r) \/ GotConn(r) \/ GotErr(r) \/
                             CancelWant(r) \/ CancelPutIdle(r) \/ CancelClose(r) \/ ConnClosed(r) \/
                             CtxDone(r) \/ CancelRequest(r) \/ HeaderTimeout(r)
      PROVE Same \/ \E v \in Wants : DialConn(v)
  <2>1. UNCHANGED loop
    BY <1>5, Zenon DEF StartCancelled, QueueForIdleConn, QueueForDial, GotConn, GotErr,
       CancelWant, CancelPutIdle, CancelClose, ConnClosed, CtxDone, CancelRequest,
       HeaderTimeout, rl
  <2>2. QED
    BY <2>1, Zenon
<1>6. ASSUME NEW c \in Wants, Dial(c) \/ DialUnwanted(c) \/ DialFails(c) \/ DialDec(c) \/ Deliver(c) \/ DialPutIdle(c) \/
                              DialClose(c) \/ WriteFails(c) \/ IdleTimer(c) \/ CloseTooOld(c)
      PROVE Same \/ \E v \in Wants : DialConn(v)
  <2>1. UNCHANGED loop
    BY <1>6, Zenon DEF Dial, DialUnwanted, DialFails, DialDec, Deliver, DialPutIdle, DialClose,
       WriteFails, IdleTimer, CloseTooOld, rl
  <2>2. QED
    BY <2>1, Zenon
<1>7. ASSUME CloseIdleConnections \/ CloseIdleOne PROVE Same \/ \E v \in Wants : DialConn(v)
  <2>1. UNCHANGED loop
    BY <1>7, Zenon DEF CloseIdleConnections, CloseIdleOne, rl
  <2>2. QED
    BY <2>1, Zenon
<1>8. QED
  BY <1>1, <1>2, <1>3, <1>4, <1>5, <1>6, <1>7, Zenon DEF Next, ReqStep, DialStep, LoopStep,
     PeerStep

\* A dial makes its connection in dialConn and only then has it.
Dials ==
  \A x \in Wants :
    /\ dialer'[x] \in {"none", "start", "dialing", "dec"}
         => dialer[x] \in {"none", "start", "dialing", "dec"}
    /\ dialer'[x] \in {"dialed", "putIdle"} => dialer[x] \in {"dialed", "putIdle"}
    /\ dialer'[x] = "close" => dialer[x] \in {"dialed", "putIdle", "close"}

\* Only a connection that was made is closed, once and for all.
Closes == \A x \in Wants : (closed'[x] => loop[x] # "none") /\ (closed[x] => closed'[x])

\* Every step but dialConn leaves each dial's connection, made or not, as it is.
LEMMA DialMoves ==
    ASSUME Typed, Places, Queued, Made, Next
    PROVE  (Dials /\ Closes) \/ \E v \in Wants : DialConn(v)
<1> USE DEF Typed, Dials, Closes
<1>1. ASSUME NEW w \in Wants, DialConn(w) PROVE (Dials /\ Closes) \/ \E v \in Wants : DialConn(v)
  BY <1>1, Zenon
<1>2. ASSUME NEW r \in Reqs, QueueForDial(r) PROVE (Dials /\ Closes) \/ \E v \in Wants : DialConn(v)
  <2>1. want[r] \in Wants /\ dialer[want[r]] = "none"
    BY <1>2, WantOfRequest, Zenon DEF QueueForDial, GotoR, Queued
  <2>2. Dials
    BY <1>2, <2>1, Zenon DEF QueueForDial, QueueTyped
  <2>3. QED
    BY <1>2, <2>2, Zenon DEF QueueForDial, Made, pers
<1>3. ASSUME NEW w \in Wants, DialUnwanted(w) \/ DialDec(w)
      PROVE (Dials /\ Closes) \/ \E v \in Wants : DialConn(v)
  <2> DEFINE d == [dialer EXCEPT ![w] = "gone"]
  <2>1. d \in [Wants -> DialPlaces] /\ \A x \in Wants : d[x] \in {dialer[x], "gone"}
    BY Zenon DEF QueueTyped, DialPlaces
  <2> HIDE DEF d
  <2>2. HandsOn(d) /\ closed' = closed
    BY <1>3, <2>1, DecHandsOn, Zenon DEF DialUnwanted, DialDec, d, pers
  <2>3. QED
    BY <2>1, <2>2, Zenon DEF HandsOn, Queued, Made
<1>4. ASSUME NEW w \in Wants, DialClose(w) PROVE (Dials /\ Closes) \/ \E v \in Wants : DialConn(v)
  <2> DEFINE d == [dialer EXCEPT ![w] = "gone"]
  <2>1. d \in [Wants -> DialPlaces] /\ \A x \in Wants : d[x] \in {dialer[x], "gone"}
    BY Zenon DEF QueueTyped, DialPlaces
  <2> HIDE DEF d
  <2>2. HandsOn(d) /\ \A x \in Wants : closed'[x] = (closed[x] \/ x = w)
    BY <1>4, <2>1, CloseProperties, Zenon DEF DialClose, d
  <2>3. loop[w] # "none"
    BY <1>4, Zenon DEF DialClose, Made
  <2>4. QED
    BY <2>1, <2>2, <2>3, Zenon DEF HandsOn, Queued, Made
<1>5. ASSUME NEW r \in Reqs, CancelClose(r) \/ CtxDone(r) \/ HeaderTimeout(r)
      PROVE (Dials /\ Closes) \/ \E v \in Wants : DialConn(v)
  <2>1. conn[r] \in Wants /\ dialer \in [Wants -> DialPlaces] /\ close(conn[r], dialer) /\ loop[conn[r]] # "none"
    BY <1>5, Zenon DEF CancelClose, CtxDone, HeaderTimeout, QueueTyped, Made, ReqTyped, Places,
       Conns
  <2>2. HandsOn(dialer) /\ \A x \in Wants : closed'[x] = (closed[x] \/ x = conn[r])
    BY <2>1, CloseProperties, Zenon
  <2>3. QED
    BY <2>1, <2>2, Zenon DEF HandsOn, Queued, Made
<1>6. ASSUME NEW c \in Wants, BodyCancelled(c) \/ LoopClose(c) \/ PeekFails(c) \/ WriteFails(c)
      PROVE (Dials /\ Closes) \/ \E v \in Wants : DialConn(v)
  <2>1. c \in Wants /\ dialer \in [Wants -> DialPlaces] /\ close(c, dialer) /\ loop[c] # "none"
    BY <1>6, Zenon DEF BodyCancelled, LoopClose, PeekFails, WriteFails, QueueTyped, Made, Loop
  <2>2. HandsOn(dialer) /\ \A x \in Wants : closed'[x] = (closed[x] \/ x = c)
    BY <2>1, CloseProperties, Zenon
  <2>3. QED
    BY <2>1, <2>2, Zenon DEF HandsOn, Queued, Made
<1>7. ASSUME CloseIdleOne PROVE (Dials /\ Closes) \/ \E v \in Wants : DialConn(v)
  <2>1. Head(closer) \in Range(closer) /\ Range(closer) \subseteq Wants /\ close(Head(closer), dialer)
    BY <1>7, RangeOfTail DEF CloseIdleOne, HistTyped, Range
  <2>2. HandsOn(dialer) /\ \A x \in Wants : closed'[x] = (closed[x] \/ x = Head(closer))
    BY <2>1, CloseProperties, Zenon DEF QueueTyped
  <2>3. loop[Head(closer)] # "none"
    BY <2>1, Zenon DEF Made
  <2>4. QED
    BY <2>2, <2>3, Zenon DEF HandsOn, Queued, Made
<1>8. ASSUME NEW c \in Wants, IdleTimer(c) \/ CloseTooOld(c)
      PROVE (Dials /\ Closes) \/ \E v \in Wants : DialConn(v)
  <2>1. loop[c] # "none"
    BY <1>8, Zenon DEF IdleTimer, CloseTooOld, Made
  <2>2. HandsOn(dialer) /\ \A x \in Wants : (closed'[x] => closed[x] \/ x = c) /\ (closed[x] => closed'[x])
    BY <1>8, StillIdleProperties, Zenon DEF IdleTimer, CloseTooOld
  <2>3. QED
    BY <2>1, <2>2, Zenon DEF HandsOn, Queued, Made
<1>9. ASSUME NEW w \in Wants, Dial(w) \/ DialFails(w) \/ Deliver(w) \/ DialPutIdle(w)
      PROVE (Dials /\ Closes) \/ \E v \in Wants : DialConn(v)
  BY <1>9, Zenon DEF Dial, DialFails, Deliver, DialPutIdle, Dialer, QueueTyped, Made, pers
<1>10. ASSUME NEW r \in Reqs, StartCancelled(r) \/ QueueForIdleConn(r) \/ GotConn(r) \/ GotErr(r) \/ CancelWant(r) \/
                              CancelPutIdle(r) \/ ConnClosed(r) \/ CancelRequest(r)
       PROVE (Dials /\ Closes) \/ \E v \in Wants : DialConn(v)
  <2>1. UNCHANGED <<queue, closed>>
    BY <1>10, Zenon DEF StartCancelled, QueueForIdleConn, GotConn, GotErr, CancelWant,
       CancelPutIdle, ConnClosed, CancelRequest, pers
  <2>2. QED
    BY <2>1, Zenon DEF Made, queue
<1>11. ASSUME NEW c \in Wants, LoopPut(c) \/ LoopPutIdle(c) \/ Reply(c) \/ CallerGone(c) \/ BodyDone(c) \/ BodyConnClosed(c) \/
                               RemoveIdleConn(c) \/ Response(c) \/ ReadFails(c)
       PROVE (Dials /\ Closes) \/ \E v \in Wants : DialConn(v)
  <2>1. UNCHANGED <<queue, closed>>
    BY <1>11, Zenon DEF LoopPut, LoopPutIdle, Reply, CallerGone, BodyDone, BodyConnClosed,
       RemoveIdleConn, Response, ReadFails, pers
  <2>2. QED
    BY <2>1, Zenon DEF Made, queue
<1>12. ASSUME CloseIdleConnections PROVE (Dials /\ Closes) \/ \E v \in Wants : DialConn(v)
  <2>1. UNCHANGED <<queue, closed>>
    BY <1>12, Zenon DEF CloseIdleConnections, pers
  <2>2. QED
    BY <2>1, Zenon DEF Made, queue
<1>13. QED
  BY <1>1, <1>2, <1>3, <1>4, <1>5, <1>6, <1>7, <1>8, <1>9, <1>10, <1>11, <1>12, Zenon DEF Next,
     ReqStep, DialStep, LoopStep, PeerStep

\* A connection is there, in whatever state its goroutines are.
LEMMA MadeStep ==
    ASSUME Typed, Places, Queued, Made, Next
    PROVE  Made'
<1> DEFINE Same == \A x \in Wants : loop'[x] = "none" <=> loop[x] = "none"
           Lists == \A x \in Range(idleConn') \cup Range(closer') \cup idleLRU' \cup stillIdle' : loop[x] # "none"
           Given == \A w \in Wants : result'[w] \in Wants => loop[result'[w]] # "none"
           Taken == /\ \A q \in Reqs : conn'[q] \in Wants => loop[conn'[q]] # "none"
                    /\ \A x \in Wants : expects'[x] # None => loop[x] # "none"
<1> USE DEF Typed
<1>1. Same \/ \E v \in Wants : DialConn(v)
  BY LoopMoves, Zenon
<1>2. (Dials /\ Closes) \/ \E v \in Wants : DialConn(v)
  BY DialMoves, Zenon
<1>3. Lists /\ Given
  <2>1. ASSUME NEW r \in Reqs, CancelPutIdle(r) PROVE Lists /\ Given
    <3>1. conn[r] \in Wants /\ Putting(conn[r]) /\ loop[conn[r]] # "none" /\ UNCHANGED <<stillIdle, closer>>
      BY <2>1, PutProperties, Zenon DEF CancelPutIdle, Made, misc, hist, ReqTyped, Places, Conns
    <3>2. Lists
      BY <3>1, Zenon DEF Putting, Made
    <3>3. Given
      <4>1. CASE UNCHANGED result
        BY <4>1, Zenon DEF Made
      <4>2. ASSUME NEW v \in Wants, tryDeliver(v, conn[r]) PROVE Given
        <5>1. result'[v] = conn[r] /\ \A y \in Wants \ {v} : result'[y] = result[y]
          BY <4>2, DeliverProperties, Zenon
        <5>2. QED
          BY <3>1, <5>1, Zenon DEF Made
      <4>3. QED
        BY <3>1, <4>1, <4>2, Zenon DEF Putting
    <3>4. QED
      BY <3>2, <3>3, Zenon
  <2>2. ASSUME NEW w \in Wants, DialPutIdle(w) PROVE Lists /\ Given
    <3>1. w \in Wants /\ Putting(w) /\ loop[w] # "none" /\ UNCHANGED <<stillIdle, closer>>
      BY <2>2, PutProperties, Zenon DEF DialPutIdle, Made, misc, hist, Dialer
    <3>2. Lists
      BY <3>1, Zenon DEF Putting, Made
    <3>3. Given
      <4>1. CASE UNCHANGED result
        BY <4>1, Zenon DEF Made
      <4>2. ASSUME NEW v \in Wants, tryDeliver(v, w) PROVE Given
        <5>1. result'[v] = w /\ \A y \in Wants \ {v} : result'[y] = result[y]
          BY <4>2, DeliverProperties, Zenon
        <5>2. QED
          BY <3>1, <5>1, Zenon DEF Made
      <4>3. QED
        BY <3>1, <4>1, <4>2, Zenon DEF Putting
    <3>4. QED
      BY <3>2, <3>3, Zenon
  <2>3. ASSUME NEW c \in Wants, LoopPutIdle(c) PROVE Lists /\ Given
    <3>1. c \in Wants /\ Putting(c) /\ loop[c] # "none" /\ UNCHANGED <<stillIdle, closer>>
      BY <2>3, PutProperties, Zenon DEF LoopPutIdle, Made, misc, hist, Loop
    <3>2. Lists
      BY <3>1, Zenon DEF Putting, Made
    <3>3. Given
      <4>1. CASE UNCHANGED result
        BY <4>1, Zenon DEF Made
      <4>2. ASSUME NEW v \in Wants, tryDeliver(v, c) PROVE Given
        <5>1. result'[v] = c /\ \A y \in Wants \ {v} : result'[y] = result[y]
          BY <4>2, DeliverProperties, Zenon
        <5>2. QED
          BY <3>1, <5>1, Zenon DEF Made
      <4>3. QED
        BY <3>1, <4>1, <4>2, Zenon DEF Putting
    <3>4. QED
      BY <3>2, <3>3, Zenon
  <2>4. ASSUME NEW r \in Reqs, QueueForIdleConn(r) PROVE Lists /\ Given
    <3>1. MaxWants \in Nat /\ Range(idleConn) \subseteq Wants
      BY TransportAssumption DEF IdleTyped, Range
    <3>2. /\ Range(idleConn') \subseteq Range(idleConn)
          /\ \/ /\ \E c \in Range(idleConn) : tryDeliver(wants + 1, c) /\ idleLRU' = idleLRU \ {c}
                /\ UNCHANGED <<stillIdle, tooOld>>
             \/ \E old \in SUBSET Range(idleConn) :
                   stillIdle' = stillIdle \cup old /\ UNCHANGED <<idleLRU, done, result>>
      BY <2>4, <3>1, QueueForIdleProperties, Zenon DEF IdleTyped, WantTyped
    <3>3. wants + 1 \in Wants /\ closer' = closer
      BY <2>4, Numbers, Zenon DEF QueueForIdleConn, WantTyped
    <3>4. Lists
      BY <3>2, <3>3, Zenon DEF Made
    <3>5. Given
      BY <3>2, <3>3, DeliverProperties DEF Made
    <3>6. QED
      BY <3>4, <3>5, Zenon
  <2>5. ASSUME NEW r \in Reqs, GotConn(r) \/ GotErr(r) \/ CancelWant(r) PROVE Lists /\ Given
    BY <2>5, Numbers, Zenon DEF GotConn, GotErr, CancelWant, WantTyped, Made, idle, misc, hist
  <2>6. ASSUME NEW w \in Wants, DialFails(w) \/ Deliver(w) PROVE Lists /\ Given
    BY <2>6, Numbers, Zenon DEF DialFails, Deliver, Dialer, tryDeliver, WantTyped, Made, wc,
       idle, misc, hist
  <2>7. ASSUME NEW c \in Wants, RemoveIdleConn(c) PROVE Lists /\ Given
    <3>1. Range(idleConn') \subseteq Range(idleConn) /\ idleLRU' = idleLRU \ {c}
      BY <2>7, RemoveProperties, Zenon DEF RemoveIdleConn, IdleTyped
    <3>2. QED
      BY <2>7, <3>1, Zenon DEF RemoveIdleConn, Made, wc, misc, hist
  <2>8. ASSUME NEW c \in Wants, IdleTimer(c) \/ CloseTooOld(c) PROVE Lists /\ Given
    <3>1. Range(idleConn') \subseteq Range(idleConn) /\ idleLRU' \subseteq idleLRU
      BY <2>8, StillIdleProperties, Zenon DEF IdleTimer, CloseTooOld
    <3>2. QED
      BY <2>8, <3>1, Zenon DEF IdleTimer, CloseTooOld, Made, wc, hist
  <2>9. ASSUME CloseIdleConnections PROVE Lists /\ Given
    BY <2>9 DEF CloseIdleConnections, Made, wc, Range
  <2>10. ASSUME CloseIdleOne PROVE Lists /\ Given
    <3>1. Range(closer') \subseteq Range(closer)
      BY <2>10, RangeOfTail DEF CloseIdleOne, HistTyped
    <3>2. QED
      BY <2>10, <3>1, Zenon DEF CloseIdleOne, Made, wc, idle
  <2>11. ASSUME NEW r \in Reqs, StartCancelled(r) \/ QueueForDial(r) \/ CancelClose(r) \/ ConnClosed(r) \/ CtxDone(r) \/
                                CancelRequest(r) \/ HeaderTimeout(r)
         PROVE Lists /\ Given
    <3>1. UNCHANGED <<wc, idle, stillIdle, closer>>
      BY <2>11, Zenon DEF StartCancelled, QueueForDial, CancelClose, ConnClosed, CtxDone,
         CancelRequest, HeaderTimeout, misc, hist
    <3>2. QED
      BY <3>1, Zenon DEF Made, wc, idle
  <2>12. ASSUME NEW c \in Wants, Dial(c) \/ DialUnwanted(c) \/ DialConn(c) \/ DialDec(c) \/ DialClose(c) \/ LoopPut(c) \/ Reply(c) \/
                                 CallerGone(c) \/ BodyDone(c) \/ BodyCancelled(c) \/
                                 BodyConnClosed(c) \/ LoopClose(c) \/ Response(c) \/ ReadFails(c) \/
                                 PeekFails(c) \/ WriteFails(c)
         PROVE Lists /\ Given
    <3>1. UNCHANGED <<wc, idle, stillIdle, closer>>
      BY <2>12, Zenon DEF Dial, DialUnwanted, DialConn, DialDec, DialClose, LoopPut, Reply,
         CallerGone, BodyDone, BodyCancelled, BodyConnClosed, LoopClose, Response, ReadFails,
         PeekFails, WriteFails, misc, hist
    <3>2. QED
      BY <3>1, Zenon DEF Made, wc, idle
  <2>13. QED
    BY <2>1, <2>2, <2>3, <2>4, <2>5, <2>6, <2>7, <2>8, <2>9, <2>10, <2>11, <2>12, Zenon DEF Next,
      ReqStep, DialStep, LoopStep, PeerStep
<1>4. Taken
  <2>1. ASSUME NEW r \in Reqs, StartCancelled(r) \/ GotErr(r) \/ CancelClose(r) \/ HeaderTimeout(r)
        PROVE Taken
    BY <2>1, Numbers, Zenon DEF StartCancelled, GotErr, CancelClose, HeaderTimeout, Ends,
       ReqTyped, Made, rl
  <2>2. ASSUME NEW r \in Reqs, ConnClosed(r) PROVE Taken
    BY <2>2, Numbers, Zenon DEF ConnClosed, Ends, TripFails, ReqTyped, Made, rl
  <2>3. ASSUME NEW r \in Reqs, GotConn(r) PROVE Taken
    <3>1. want[r] \in Wants
      BY <2>3, WantOfRequest, Zenon DEF GotConn
    <3>2. QED
      BY <2>3, <3>1, Zenon DEF GotConn, ReqTyped, LoopTyped, WantTyped, Made
  <2>4. ASSUME NEW r \in Reqs, CancelWant(r) PROVE Taken
    <3>1. want[r] \in Wants
      BY <2>4, WantOfRequest, Zenon DEF CancelWant
    <3>2. QED
      BY <2>4, <3>1, Numbers, Zenon DEF CancelWant, Ends, ReqTyped, WantTyped, Made, rl
  <2>5. ASSUME NEW r \in Reqs, CancelPutIdle(r) PROVE Taken
    BY <2>5, Numbers, Zenon DEF CancelPutIdle, Ends, ReqTyped, Made, rl
  <2>6. ASSUME NEW c \in Wants, Reply(c) PROVE Taken
    BY <2>6, Numbers, Zenon DEF Reply, Ends, TripFails, ReqTyped, Made
  <2>7. ASSUME NEW c \in Wants, BodyDone(c) \/ BodyCancelled(c) \/ BodyConnClosed(c) PROVE Taken
    BY <2>7, Numbers, Zenon DEF BodyDone, BodyCancelled, BodyConnClosed, Ends, ReqTyped, Made
  <2>8. ASSUME NEW c \in Wants, RemoveIdleConn(c) \/ Response(c) \/ ReadFails(c) PROVE Taken
    BY <2>8, Zenon DEF RemoveIdleConn, Response, ReadFails, LoopTyped, Made, reqs
  <2>9. ASSUME NEW r \in Reqs, QueueForIdleConn(r) \/ QueueForDial(r) \/ CtxDone(r) \/ CancelRequest(r)
        PROVE Taken
    <3>1. UNCHANGED <<conn, expects>>
      BY <2>9, Zenon DEF QueueForIdleConn, QueueForDial, CtxDone, CancelRequest, reqs, rl
    <3>2. QED
      BY <3>1, Zenon DEF Made
  <2>10. ASSUME NEW c \in Wants, Dial(c) \/ DialUnwanted(c) \/ DialConn(c) \/ DialFails(c) \/ DialDec(c) \/ Deliver(c) \/
                                 DialPutIdle(c) \/ DialClose(c) \/ LoopPut(c) \/ LoopPutIdle(c) \/
                                 CallerGone(c) \/ LoopClose(c) \/ PeekFails(c) \/ WriteFails(c) \/
                                 IdleTimer(c) \/ CloseTooOld(c)
         PROVE Taken
    <3>1. UNCHANGED <<conn, expects>>
      BY <2>10, Zenon DEF Dial, DialUnwanted, DialConn, DialFails, DialDec, Deliver,
         DialPutIdle, DialClose, LoopPut, LoopPutIdle, CallerGone, LoopClose, PeekFails,
         WriteFails, IdleTimer, CloseTooOld, reqs, rl
    <3>2. QED
      BY <3>1, Zenon DEF Made
  <2>11. ASSUME CloseIdleConnections \/ CloseIdleOne PROVE Taken
    <3>1. UNCHANGED <<conn, expects>>
      BY <2>11, Zenon DEF CloseIdleConnections, CloseIdleOne, reqs, rl
    <3>2. QED
      BY <3>1, Zenon DEF Made
  <2>12. QED
    BY <2>1, <2>2, <2>3, <2>4, <2>5, <2>6, <2>7, <2>8, <2>9, <2>10, <2>11, Zenon DEF Next,
       ReqStep, DialStep, LoopStep, PeerStep
<1>5. ASSUME NEW w \in Wants, DialConn(w) PROVE Made'
  <2>1. /\ dialer[w] = "dialing" /\ dialer' = [dialer EXCEPT ![w] = "dialed"]
        /\ loop' = [loop EXCEPT ![w] = "peek"] /\ closed' = closed
    BY <1>5, Zenon DEF DialConn, Dialer, pers
  <2>2. \A x \in Wants : loop'[x] # "none" <=> loop[x] # "none" \/ x = w
    BY <2>1, Zenon DEF LoopTyped
  <2>3. \A x \in Wants \ {w} : dialer'[x] = dialer[x]
    BY <2>1, Zenon DEF QueueTyped
  <2>4. Range(idleConn') \cup Range(closer') \cup idleLRU' \cup stillIdle' \subseteq Wants
    BY TypedStep DEF IdleTyped, HistTyped, Range
  <2>5. QED
    BY <1>3, <1>4, <2>1, <2>2, <2>3, <2>4, Zenon DEF Made, QueueTyped
<1>6. ASSUME Same, Dials /\ Closes PROVE Made'
  <2>1. Range(idleConn') \cup Range(closer') \cup idleLRU' \cup stillIdle' \subseteq Wants
    BY TypedStep DEF IdleTyped, HistTyped, Range
  <2>2. QED
    BY <1>3, <1>4, <1>6, <2>1, Zenon DEF Made, Dials, Closes
<1>7. QED
  BY <1>1, <1>2, <1>5, <1>6, Zenon

-----------------------------------------------------------------------------
(* The count *)

Counted == {w \in Wants : Live(w) \/ Dialing(w)}

Counts == connsPerHost = Cardinality(Counted) /\ connsPerHost <= MaxConnsPerHost

\* The connections and dials to be counted are finitely many.
LEMMA CountedFinite == IsFiniteSet(Counted) /\ Cardinality(Counted) \in Nat
<1>1. IsFiniteSet(Wants)
  BY TransportAssumption, FS_Interval DEF Wants
<1>2. QED
  BY <1>1, FS_Subset, FS_CardinalityType, Zenon DEF Counted

\* The count is right as long as the same connections and dials are counted.
LEMMA CountSame ==
    ASSUME Counts, connsPerHost' = connsPerHost,
           \A w \in Wants : (Live(w) \/ Dialing(w))' <=> Live(w) \/ Dialing(w)
    PROVE  Counts'
<1>1. Counted' = Counted
  BY Zenon DEF Counted
<1>2. QED
  BY <1>1, Zenon DEF Counts

\* The count of x, which is given up, goes down or passes to one dial.
LEMMA CountDec ==
    ASSUME Typed, Queued, Made, Counts, NEW x \in Counted,
           NEW d \in [Wants -> DialPlaces], \A w \in Wants : dialer[w] = "none" => d[w] = "none",
           decConnsPerHost(d),
           \A w \in Wants : dialer'[w] = d[w] => ((Live(w) \/ Dialing(w))' <=> w \in Counted \ {x})
    PROVE  Counts'
<1>1. connsPerHostWait \in Seq(Wants) /\ IsInjective(connsPerHostWait) /\ Range(connsPerHostWait) \subseteq Wants
  BY DEF Typed, QueueTyped, Queued, Range
<1>2. IsFiniteSet(Counted) /\ Cardinality(Counted) \in Nat
  BY CountedFinite, Zenon
<1>3. IsFiniteSet(Counted \ {x}) /\ Cardinality(Counted \ {x}) = Cardinality(Counted) - 1
  BY <1>2, FS_RemoveElement, Zenon
<1>4. CASE \E h \in Range(connsPerHostWait) : dialer' = [d EXCEPT ![h] = "start"] /\ connsPerHost' = connsPerHost
  <2>1. PICK h \in Wants : /\ h \in Range(connsPerHostWait) /\ dialer' = [d EXCEPT ![h] = "start"]
                           /\ connsPerHost' = connsPerHost
    BY <1>1, <1>4, Zenon
  <2>2. h \notin Counted
    BY <2>1, Zenon DEF Counted, Queued, Made, Live, Dialing
  <2>3. Counted' = (Counted \ {x}) \cup {h}
    <3>1. \A w \in Wants \ {h} : dialer'[w] = d[w]
      BY <2>1, Zenon
    <3>2. dialer'[h] = "start"
      BY <2>1, Zenon
    <3>3. QED
      BY <3>1, <3>2, Zenon DEF Counted, Dialing
  <2>4. Cardinality((Counted \ {x}) \cup {h}) = Cardinality(Counted \ {x}) + 1
    BY <1>3, <2>2, FS_AddElement, Zenon
  <2>5. QED
    BY <1>2, <1>3, <2>1, <2>3, <2>4 DEF Counts
<1>5. CASE dialer' = d /\ connsPerHost' = connsPerHost - 1
  <2>1. Counted' = Counted \ {x}
    BY <1>5, Zenon DEF Counted
  <2>2. QED
    BY <1>2, <1>3, <1>5, <2>1, TransportAssumption DEF Counts
<1>6. QED
  BY <1>1, <1>4, <1>5, DecProperties, Zenon

\* Closing a connection gives up its count, the first time.
LEMMA CountClose ==
    ASSUME Typed, Queued, Made, Counts, NEW c \in Wants, loop[c] # "none",
           NEW d \in [Wants -> DialPlaces],
           \A w \in Wants : d[w] = dialer[w] \/ {d[w], dialer[w]} \subseteq {"close", "gone"},
           \A w \in Wants : loop'[w] = "none" <=> loop[w] = "none", close(c, d)
    PROVE  Counts'
<1>1. \A w \in Wants : /\ dialer[w] = "none" => d[w] = "none"
                       /\ d[w] \in {"start", "dialing", "dec"} <=> dialer[w] \in {"start", "dialing", "dec"}
  BY Zenon
<1>2. CASE closed[c]
  <2>1. dialer' = d /\ UNCHANGED <<closed, connsPerHost>>
    BY <1>2, Zenon DEF close
  <2>2. QED
    BY <1>1, <2>1, CountSame, Zenon DEF Live, Dialing
<1>3. CASE ~closed[c]
  <2>1. closed' = [closed EXCEPT ![c] = TRUE] /\ decConnsPerHost(d)
    BY <1>3, Zenon DEF close
  <2>2. closed'[c] /\ \A w \in Wants \ {c} : closed'[w] = closed[w]
    BY <2>1, Zenon DEF Typed, PersTyped
  <2>3. c \in Counted /\ ~Dialing(c)
    BY <1>3, Zenon DEF Counted, Live, Dialing, Made
  <2>4. ASSUME NEW w \in Wants, dialer'[w] = d[w]
        PROVE  (Live(w) \/ Dialing(w))' <=> w \in Counted \ {c}
    BY <1>1, <2>2, <2>3, <2>4, Zenon DEF Counted, Live, Dialing
  <2>5. QED
    BY <1>1, <2>1, <2>3, <2>4, CountDec, Zenon
<1>4. QED
  BY <1>2, <1>3, Zenon

\* Every step of the transport keeps connsPerHost exact and within the limit.
LEMMA CountsStep ==
    ASSUME Typed, Places, Queued, Made, Counts, Next
    PROVE  Counts'
<1> DEFINE Same == \A x \in Wants : loop'[x] = "none" <=> loop[x] = "none"
<1> USE DEF Typed
<1>0. Same \/ \E v \in Wants : DialConn(v)
  BY LoopMoves, Zenon
<1>1. ASSUME NEW w \in Wants, DialConn(w) PROVE Counts'
  <2>1. /\ dialer[w] = "dialing" /\ dialer' = [dialer EXCEPT ![w] = "dialed"] /\ loop' = [loop EXCEPT ![w] = "peek"]
        /\ UNCHANGED <<closed, connsPerHost>>
    BY <1>1, Zenon DEF DialConn, Dialer, pers
  <2>2. ~closed[w] /\ dialer'[w] = "dialed" /\ loop'[w] = "peek"
    BY <2>1, Zenon DEF Made, QueueTyped, LoopTyped
  <2>3. \A x \in Wants \ {w} : dialer'[x] = dialer[x] /\ loop'[x] = loop[x]
    BY <2>1, Zenon DEF QueueTyped, LoopTyped
  <2>4. QED
    BY <2>1, <2>2, <2>3, CountSame, Zenon DEF Live, Dialing
<1>2. ASSUME NEW r \in Reqs, QueueForDial(r) PROVE Counts'
  <2>1. want[r] \in Wants /\ dialer[want[r]] = "none"
    BY <1>2, WantOfRequest, Zenon DEF QueueForDial, GotoR, Queued
  <2>2. UNCHANGED <<loop, closed>>
    BY <1>2, Zenon DEF QueueForDial, pers, rl
  <2>3. CASE connsPerHost < MaxConnsPerHost
    <3>1. connsPerHost' = connsPerHost + 1 /\ dialer' = [dialer EXCEPT ![want[r]] = "start"]
      BY <1>2, <2>3, Zenon DEF QueueForDial
    <3>2. dialer'[want[r]] = "start" /\ \A x \in Wants \ {want[r]} : dialer'[x] = dialer[x]
      BY <2>1, <3>1, Zenon DEF QueueTyped
    <3>3. want[r] \notin Counted
      BY <2>1, Zenon DEF Counted, Live, Dialing, Made
    <3>4. Counted' = Counted \cup {want[r]}
      BY <2>1, <2>2, <3>2, Zenon DEF Counted, Live, Dialing
    <3>5. Cardinality(Counted') = Cardinality(Counted) + 1
      BY <3>3, <3>4, CountedFinite, FS_AddElement, Zenon
    <3>6. QED
      BY <2>3, <3>1, <3>5, CountedFinite, TransportAssumption DEF Counts
  <2>4. CASE ~(connsPerHost < MaxConnsPerHost)
    <3>1. UNCHANGED <<connsPerHost, dialer>>
      BY <1>2, <2>4, Zenon DEF QueueForDial
    <3>2. QED
      BY <2>2, <3>1, CountSame, Zenon DEF Live, Dialing
  <2>5. QED
    BY <2>3, <2>4, Zenon
<1>3. ASSUME NEW w \in Wants, DialUnwanted(w) \/ DialDec(w) PROVE Counts'
  <2> DEFINE d == [dialer EXCEPT ![w] = "gone"]
  <2>1. /\ d \in [Wants -> DialPlaces] /\ d[w] = "gone" /\ \A x \in Wants \ {w} : d[x] = dialer[x]
    BY Zenon DEF QueueTyped, DialPlaces
  <2> HIDE DEF d
  <2>2. decConnsPerHost(d) /\ UNCHANGED <<loop, closed>> /\ dialer[w] \in {"start", "dec"}
    BY <1>3, Zenon DEF DialUnwanted, DialDec, d, pers, rl
  <2>3. w \in Counted /\ loop[w] = "none"
    BY <2>2, Zenon DEF Counted, Dialing, Made
  <2>4. \A x \in Wants : dialer[x] = "none" => d[x] = "none"
    BY <2>1, <2>2, Zenon
  <2>5. ASSUME NEW x \in Wants, dialer'[x] = d[x]
        PROVE (Live(x) \/ Dialing(x))' <=> x \in Counted \ {w}
    BY <2>1, <2>2, <2>3, <2>5, Zenon DEF Counted, Live, Dialing
  <2>6. QED
    BY <2>1, <2>2, <2>3, <2>4, <2>5, CountDec, Zenon
<1>4. ASSUME NEW w \in Wants, DialClose(w) PROVE Counts'
  <2> DEFINE d == [dialer EXCEPT ![w] = "gone"]
  <2>1. d \in [Wants -> DialPlaces] /\ \A x \in Wants : d[x] = dialer[x] \/ {d[x], dialer[x]} \subseteq {"close", "gone"}
    BY <1>4, Zenon DEF DialClose, QueueTyped, DialPlaces
  <2>2. loop' = loop /\ close(w, d) /\ loop[w] # "none"
    BY <1>4, Zenon DEF DialClose, Made, rl
  <2> HIDE DEF d
  <2>3. QED
    BY <2>1, <2>2, CountClose, Zenon
<1>5. ASSUME NEW r \in Reqs, CancelClose(r) \/ CtxDone(r) \/ HeaderTimeout(r) PROVE Counts'
  <2>1. conn[r] \in Wants /\ close(conn[r], dialer) /\ loop[conn[r]] # "none"
    BY <1>5, Zenon DEF CancelClose, CtxDone, HeaderTimeout, Made, ReqTyped, Places, Conns
  <2>2. Same
    BY <1>5, <1>0, Zenon DEF CancelClose, CtxDone, HeaderTimeout, rl
  <2>3. QED
    BY <2>1, <2>2, CountClose, Zenon DEF QueueTyped
<1>6. ASSUME NEW c \in Wants, BodyCancelled(c) \/ LoopClose(c) \/ PeekFails(c) \/ WriteFails(c)
      PROVE Counts'
  <2>1. close(c, dialer) /\ loop[c] # "none"
    BY <1>6, Zenon DEF BodyCancelled, LoopClose, PeekFails, WriteFails, Loop
  <2>2. Same
    BY <1>6, Zenon DEF BodyCancelled, LoopClose, PeekFails, WriteFails, Loop, LoopTyped, rl
  <2>3. QED
    BY <2>1, <2>2, CountClose, Zenon DEF QueueTyped
<1>7. ASSUME CloseIdleOne PROVE Counts'
  <2>1. close(Head(closer), dialer) /\ closer # <<>> /\ Same
    BY <1>7, Zenon DEF CloseIdleOne, rl
  <2>2. Head(closer) \in Range(closer) /\ Range(closer) \subseteq Wants
    BY <2>1, RangeOfTail DEF HistTyped, Range
  <2>3. QED
    BY <2>1, <2>2, CountClose, Zenon DEF QueueTyped, Made
<1>8. ASSUME NEW c \in Wants, IdleTimer(c) \/ CloseTooOld(c) PROVE Counts'
  <2>1. loop[c] # "none" /\ loop' = loop
    BY <1>8, Zenon DEF IdleTimer, CloseTooOld, Made, rl
  <2>2. CASE c \in idleLRU
    BY <1>8, <2>1, <2>2, CountClose, Zenon DEF IdleTimer, CloseTooOld, closeConnIfStillIdle,
       QueueTyped
  <2>3. CASE c \notin idleLRU
    <3>1. UNCHANGED <<closed, queue>>
      BY <1>8, <2>3, Zenon DEF IdleTimer, CloseTooOld, closeConnIfStillIdle
    <3>2. QED
      BY <2>1, <3>1, CountSame, Zenon DEF Live, Dialing, queue
  <2>4. QED
    BY <2>2, <2>3, Zenon
<1>9. ASSUME NEW w \in Wants, Dial(w) \/ DialFails(w) \/ Deliver(w) \/ DialPutIdle(w)
      PROVE Counts'
  <2>1. /\ UNCHANGED <<loop, closed, connsPerHost>>
        /\ \E x \in DialPlaces : /\ dialer' = [dialer EXCEPT ![w] = x]
                                 /\ x \in {"start", "dialing", "dec"} <=> dialer[w] \in {"start", "dialing", "dec"}
    BY <1>9, Zenon DEF Dial, DialFails, Deliver, DialPutIdle, Dialer, DialPlaces, pers, rl
  <2>2. \A y \in Wants : Dialing(y)' <=> Dialing(y)
    BY <2>1, Zenon DEF QueueTyped, Dialing
  <2>3. QED
    BY <2>1, <2>2, CountSame, Zenon DEF Live
<1>10. ASSUME NEW r \in Reqs, StartCancelled(r) \/ QueueForIdleConn(r) \/ GotConn(r) \/ GotErr(r) \/ CancelWant(r) \/
                              CancelPutIdle(r) \/ ConnClosed(r) \/ CancelRequest(r)
       PROVE Counts'
  <2>1. UNCHANGED <<queue, loop, closed>>
    BY <1>10, Zenon DEF StartCancelled, QueueForIdleConn, GotConn, GotErr, CancelWant,
       CancelPutIdle, ConnClosed, CancelRequest, pers, rl
  <2>2. QED
    BY <2>1, CountSame, Zenon DEF Live, Dialing, queue
<1>11. ASSUME CloseIdleConnections PROVE Counts'
  <2>1. UNCHANGED <<queue, loop, closed>>
    BY <1>11, Zenon DEF CloseIdleConnections, pers, rl
  <2>2. QED
    BY <2>1, CountSame, Zenon DEF Live, Dialing, queue
<1>12. ASSUME NEW c \in Wants, LoopPut(c) \/ LoopPutIdle(c) \/ Reply(c) \/ CallerGone(c) \/ BodyDone(c) \/ BodyConnClosed(c) \/
                               RemoveIdleConn(c) \/ Response(c) \/ ReadFails(c)
       PROVE Counts'
  <2>1. UNCHANGED <<queue, closed>>
    BY <1>12, Zenon DEF LoopPut, LoopPutIdle, Reply, CallerGone, BodyDone, BodyConnClosed,
       RemoveIdleConn, Response, ReadFails, pers
  <2>2. Same
    BY <1>12, Zenon DEF LoopPut, LoopPutIdle, Reply, CallerGone, BodyDone, BodyConnClosed,
       RemoveIdleConn, Response, ReadFails, Loop, LoopTyped
  <2>3. QED
    BY <2>1, <2>2, CountSame, Zenon DEF Live, Dialing, queue
<1>13. QED
  BY <1>1, <1>2, <1>3, <1>4, <1>5, <1>6, <1>7, <1>8, <1>9, <1>10, <1>11, <1>12, Zenon DEF Next,
     ReqStep, DialStep, LoopStep, PeerStep

-----------------------------------------------------------------------------
CountInv == Typed /\ Places /\ Queued /\ Made /\ Counts

\* The transport starts with nothing to count.
LEMMA CountInit == Init => CountInv
<1> SUFFICES ASSUME Init PROVE CountInv
  BY Zenon
<1>1. Range(<<>>) = {} /\ IsInjective(<<>>) /\ <<>> \in Seq(Wants)
  BY DEF Range, IsInjective
<1>2. WantTyped /\ ReqTyped
  BY TransportAssumption DEF Init, WantTyped, ReqTyped, Results, Conns, ReqPlaces
<1>3. QueueTyped /\ IdleTyped /\ PersTyped /\ LoopTyped /\ HistTyped
  BY <1>1, Zenon DEF Init, QueueTyped, IdleTyped, PersTyped, LoopTyped, HistTyped, DialPlaces,
     LoopPlaces
<1>4. Places
  BY Zenon DEF Init, Places
<1>5. Queued
  BY <1>1, Zenon DEF Init, Queued
<1>6. Made
  BY <1>1, Numbers, Zenon DEF Init, Made
<1>7. Counted = {}
  BY Zenon DEF Init, Counted, Live, Dialing
<1>8. Counts
  BY <1>7, FS_EmptySet, TransportAssumption DEF Init, Counts
<1>9. QED
  BY <1>2, <1>3, <1>4, <1>5, <1>6, <1>8, Zenon DEF CountInv, Typed

\* The parts of the invariant together are inductive.
LEMMA CountStep == CountInv /\ [Next]_vars => CountInv'
<1>1. CountInv /\ Next => CountInv'
  BY TypedStep, PlacesStep, QueuedStep, MadeStep, CountsStep, Zenon DEF CountInv
<1>2. ASSUME CountInv, UNCHANGED vars PROVE CountInv'
  <2>1. UNCHANGED <<queue, idle, pers, rl, reqs, wc, misc>>
    BY <1>2, Zenon DEF vars
  <2>2. Typed'
    BY <1>2, <2>1, Zenon DEF CountInv, Typed, WantTyped, QueueTyped, IdleTyped, PersTyped,
       LoopTyped, ReqTyped, HistTyped, queue, idle, pers, rl, reqs, wc, misc, hist
  <2>3. Places' /\ Queued'
    BY <1>2, <2>1, Zenon DEF CountInv, Places, Queued, queue, idle, reqs, wc, misc, hist
  <2>4. Made'
    BY <1>2, <2>1, Zenon DEF CountInv, Made, queue, idle, pers, rl, reqs, wc, misc, hist
  <2>5. Counts'
    BY <1>2, <2>1, CountSame, Zenon DEF CountInv, Live, Dialing, queue, pers, rl
  <2>6. QED
    BY <2>2, <2>3, <2>4, <2>5, Zenon DEF CountInv
<1>3. QED
  BY <1>1, <1>2, Zenon

\* connsPerHost is at every moment the number of open connections and of
\* dials allowed or under way, and never above MaxConnsPerHost, for any
\* number of requests, dials and connections.
THEOREM CountIsExact == Spec => []CountExact
<1>1. CountInv => CountExact
  BY TypedIsTypeOK, Zenon DEF CountInv, Counts, Counted, CountExact
<1>2. QED
  BY CountInit, CountStep, <1>1, PTL DEF Spec
=============================================================================
