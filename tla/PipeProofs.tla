----------------------------- MODULE PipeProofs -----------------------------
(***************************************************************************)
(* Proofs about the pipe of package io, for any sets of readers, writers   *)
(* and sizes, and any number of calls.                                     *)
(***************************************************************************)
EXTENDS Pipe, SequenceTheorems, TLAPS

\* Readers and writers are different goroutines, and none is the nil of wrMu
\* or of an error.
Apart ==
    /\ Readers \cap Writers = {} /\ Sizes \subseteq Nat
    /\ Nil \notin Writers \cup {ErrClosedPipe, "rerr", "EOF", "werr"}

ReaderPlaces == {"idle", "check", "select", "reply", "fail", "error", "close"}
WriterPlaces == {"idle", "check", "mutex", "select", "await", "fail", "error", "close"}

Shape ==
    /\ done \in BOOLEAN /\ rerr \in {Nil, ErrClosedPipe, "rerr"} /\ werr \in {Nil, "EOF", "werr"}
    /\ pc \in [Procs -> ReaderPlaces \cup WriterPlaces]
    /\ \A r \in Readers : pc[r] \in ReaderPlaces
    /\ \A w \in Writers : pc[w] \in WriterPlaces
    /\ left \in [Procs -> Nat] /\ n \in [Procs -> Nat] /\ base \in [Procs -> Nat]
    /\ DOMAIN own = Procs /\ DOMAIN result = Procs
    /\ late \subseteq Procs /\ log \in Seq(Writers)

(***************************************************************************)
(* A Write that offers its bytes, or waits for the count of a reader,      *)
(* holds wrMu; so there is one such Write, and the reader that is copying  *)
(* copies from it, no more than it has left.                               *)
(***************************************************************************)
Locked ==
    /\ \A w \in Writers : pc[w] \in {"select", "await"} => wrMu = w
    /\ wrMu # Nil => wrMu \in Writers /\ pc[wrMu] \in {"select", "await", "fail", "error"}

Paired ==
    /\ \A w \in Writers : pc[w] = "await" => \E r \in Readers : pc[r] = "reply"
    /\ \A r \in Readers : pc[r] = "reply" =>
        \E w \in Writers : pc[w] = "await" /\ left[r] <= left[w]
    /\ \A r, s \in Readers : pc[r] = "reply" /\ pc[s] = "reply" => r = s

Pieces ==
    \A w \in Writers : pc[w] \in {"select", "await"} =>
        /\ \A i \in base[w] + 1 .. Len(log) : log[i] = w
        /\ pc[w] = "select" => Len(log) = base[w] + n[w]
        /\ pc[w] = "await" => \A r \in Readers : pc[r] = "reply" =>
                                Len(log) = base[w] + n[w] + left[r]

\* A Write that has not been given wrMu has counted nothing.
Fresh == \A w \in Writers : pc[w] \in {"check", "mutex"} => n[w] = 0

\* A call that starts when done is closed goes no further than the check.
Late ==
    \A p \in late :
        /\ done /\ pc[p] \notin {"mutex", "select", "reply", "await"}
        /\ p \in Writers => n[p] = 0

\* The error that the caller's own end was closed with, and the other end.
Mine(p) == IF p \in Readers THEN rerr ELSE werr
Other(p) == IF p \in Readers THEN werr ELSE rerr

(***************************************************************************)
(* The error of an end is stored before done is closed and never changes,  *)
(* so a call that finds done closed finds an error.                        *)
(***************************************************************************)
Told ==
    /\ done => rerr # Nil \/ werr # Nil
    /\ \A p \in Procs :
        /\ pc[p] \in {"fail", "error"} => done
        /\ pc[p] = "close" => Mine(p) # Nil
        /\ own[p] # Nil => Mine(p) # Nil
        /\ pc[p] = "error" /\ own[p] = Nil => Other(p) # Nil
        /\ result[p] # Nil => IF result[p] = ErrClosedPipe
                              THEN Mine(p) # Nil \/ Other(p) = ErrClosedPipe
                              ELSE result[p] = Other(p)

IInv == Shape /\ Locked /\ Paired /\ Pieces /\ Fresh /\ Late /\ Told

\* The end of a sequence to which k times w is appended.
LEMMA Appended ==
  ASSUME NEW W, NEW s \in Seq(W), NEW w \in W, NEW k \in Nat
  PROVE  LET t == s \o [i \in 1 .. k |-> w]
         IN  /\ t \in Seq(W) /\ Len(t) = Len(s) + k
             /\ \A i \in 1 .. Len(s) : t[i] = s[i]
             /\ \A i \in Len(s) + 1 .. Len(s) + k : t[i] = w
<1> DEFINE e == [i \in 1 .. k |-> w]
<1>1. e \in Seq(W) /\ Len(e) = k /\ \A i \in 1 .. k : e[i] = w
  OBVIOUS
<1> HIDE DEF e
<1>2. /\ s \o e \in Seq(W) /\ Len(s \o e) = Len(s) + Len(e)
      /\ \A i \in 1 .. Len(s) + Len(e) :
            (s \o e)[i] = IF i <= Len(s) THEN s[i] ELSE e[i - Len(s)]
  BY <1>1, ConcatProperties, Zenon
<1>3. Len(s) \in Nat
  BY LenProperties, Zenon
<1>4. \A i \in Len(s) + 1 .. Len(s) + k : (s \o e)[i] = w
  BY <1>1, <1>2, <1>3
<1>5. \A i \in 1 .. Len(s) : (s \o e)[i] = s[i]
  BY <1>1, <1>2, <1>3
<1>6. QED
  BY <1>1, <1>2, <1>4, <1>5, Zenon DEF e

\* A new pipe satisfies the inductive invariant.
LEMMA InitIInv ==
  ASSUME Apart, Init
  PROVE  IInv
<1>1. Shape
  <2>1. log \in Seq(Writers)
    BY DEF Init
  <2>2. QED
    BY <2>1, Zenon DEF Init, Shape, ReaderPlaces, WriterPlaces, Procs
<1>2. Locked /\ Paired /\ Pieces /\ Fresh /\ Late
  BY Zenon DEF Init, Locked, Paired, Pieces, Fresh, Late, Procs
<1>3. Told
  <2>1. ~done /\ \A p \in Procs : pc[p] = "idle" /\ own[p] = Nil /\ result[p] = Nil
    BY Zenon DEF Init
  <2>2. QED
    BY <2>1, Zenon DEF Told
<1>4. QED
  BY <1>1, <1>2, <1>3, Zenon DEF IInv

\* A caller that moves leaves the others where they are.
LEMMA Moved ==
  ASSUME Shape, NEW p \in Procs, NEW from, NEW to, Goto(p, from, to)
  PROVE  pc[p] = from /\ pc'[p] = to /\ \A q \in Procs \ {p} : pc'[q] = pc[q]
BY Zenon DEF Shape, Goto

(***************************************************************************)
(* A step of one caller outside of the exchange with the other end: no     *)
(* Write begins to offer bytes, no call waits for the other end, and what  *)
(* the exchange uses stays.                                                *)
(***************************************************************************)
Outside(p, from, to) ==
    /\ Goto(p, from, to)
    /\ from \notin {"reply", "await"} /\ to \notin {"reply", "await"}
    /\ p \in Writers => to # "select"
    /\ from \in {"idle", "check", "close"} \/ to \in {"fail", "error"}
    /\ UNCHANGED <<wrMu, log, base>>
    /\ \A q \in Procs \ {p} : left'[q] = left[q] /\ n'[q] = n[q]

\* Such a step keeps the exchange.
LEMMA ExchangeKept ==
  ASSUME Apart, IInv, NEW p \in Procs, NEW from, NEW to, Outside(p, from, to)
  PROVE  Locked' /\ Paired' /\ Pieces'
<1>1. /\ pc[p] = from /\ pc'[p] = to /\ \A q \in Procs \ {p} : pc'[q] = pc[q]
      /\ Readers \subseteq Procs /\ Writers \subseteq Procs
  BY Moved, Zenon DEF IInv, Outside, Procs
<1>2. Locked'
  BY <1>1, Zenon DEF IInv, Locked, Outside
<1>3. Paired'
  BY <1>1 DEF IInv, Paired, Outside, Apart
<1>4. Pieces'
  BY <1>1 DEF IInv, Pieces, Outside, Apart
<1>5. QED
  BY <1>2, <1>3, <1>4, Zenon

\* A step that stores no error keeps what is told of the errors, when the
\* caller that moves may be where it is.
LEMMA ToldKept ==
  ASSUME IInv, NEW p \in Procs, NEW from, NEW to, Goto(p, from, to),
         UNCHANGED <<rerr, werr, done, own>>, to \notin {"error", "close"},
         to = "fail" => done,
         \A q \in Procs : result'[q] \in {Nil, result[q]}
  PROVE  Told'
<1>1. pc[p] = from /\ pc'[p] = to /\ \A q \in Procs \ {p} : pc'[q] = pc[q]
  BY Moved, Zenon DEF IInv
<1>2. \A q \in Procs : Mine(q)' = Mine(q) /\ Other(q)' = Other(q)
  BY Zenon DEF Mine, Other
<1>3. QED
  BY <1>1, <1>2 DEF IInv, Told

\* A call of Read or Write begins.
LEMMA BeginStep ==
  ASSUME Apart, IInv, NEW p \in Procs, NEW size \in Sizes, Begin(p, size)
  PROVE  IInv'
<1>1. /\ Goto(p, "idle", "check") /\ UNCHANGED <<done, rerr, werr, wrMu, log, base, own>>
      /\ left' = [left EXCEPT ![p] = size] /\ n' = [n EXCEPT ![p] = 0]
      /\ late' = IF done THEN late \cup {p} ELSE late \ {p}
      /\ result' = [result EXCEPT ![p] = Nil]
  BY Zenon DEF Begin, shared
<1>2. pc[p] = "idle" /\ pc'[p] = "check" /\ \A q \in Procs \ {p} : pc'[q] = pc[q]
  BY <1>1, Moved, Zenon DEF IInv
<1>3. Shape'
  BY <1>1, Zenon DEF IInv, Shape, Goto, Apart, ReaderPlaces, WriterPlaces, Procs
<1>4. Locked' /\ Paired' /\ Pieces'
  <2>1. Outside(p, "idle", "check")
    BY <1>1, Zenon DEF Outside, IInv, Shape
  <2>2. QED
    BY <2>1, ExchangeKept, Zenon
<1>5. Fresh' /\ Late'
  BY <1>1, <1>2, Zenon DEF IInv, Fresh, Late, Shape, Procs
<1>6. Told'
  BY <1>1, ToldKept, Zenon DEF IInv, Shape
<1>7. QED
  BY <1>3, <1>4, <1>5, <1>6, Zenon DEF IInv

\* A step that only moves its caller, outside of the exchange, to where it
\* may be keeps the invariant.
LEMMA OnlyMoves ==
  ASSUME Apart, IInv, NEW p \in Procs, NEW from, NEW to, Outside(p, from, to),
         UNCHANGED <<done, rerr, werr, wrMu, left, n, late, log, base, own, result>>,
         to \in {"fail", "select", "mutex"}, p \in Readers => to # "mutex",
         to = "fail" => done, to # "fail" => ~done, to = "mutex" => from = "check"
  PROVE  IInv'
<1>1. /\ Goto(p, from, to)
      /\ pc[p] = from /\ pc'[p] = to /\ \A q \in Procs \ {p} : pc'[q] = pc[q]
  BY Moved DEF IInv, Outside
<1>2. Shape'
  BY <1>1 DEF IInv, Shape, Goto, Outside, ReaderPlaces, WriterPlaces, Procs
<1>3. Fresh' /\ Late'
  BY <1>1, Zenon DEF IInv, Fresh, Late, Shape, Procs
<1>4. Told'
  BY <1>1, ToldKept, Zenon
<1>5. QED
  BY <1>2, <1>3, <1>4, ExchangeKept, Zenon DEF IInv

\* The first select of Read and Write, which only looks at done.
LEMMA CheckStep ==
  ASSUME Apart, IInv, NEW p \in Procs, CheckDone(p)
  PROVE  IInv'
<1>1. PICK to : /\ Goto(p, "check", to)
                /\ to = IF done THEN "fail" ELSE IF p \in Readers THEN "select" ELSE "mutex"
                /\ UNCHANGED <<done, rerr, werr, wrMu, left, n, late, log, base, own, result>>
  BY Zenon DEF CheckDone, shared
<1>2. Outside(p, "check", to)
  BY <1>1, Zenon DEF Outside, Apart
<1>3. QED
  BY <1>1, <1>2, OnlyMoves, Zenon

\* A blocked Read or Write finds done closed.
LEMMA SelectDoneStep ==
  ASSUME Apart, IInv, NEW p \in Procs, SelectDone(p)
  PROVE  IInv'
<1>1. /\ Goto(p, "select", "fail") /\ done
      /\ UNCHANGED <<done, rerr, werr, wrMu, left, n, late, log, base, own, result>>
  BY Zenon DEF SelectDone, shared
<1>2. Outside(p, "select", "fail")
  BY <1>1, Zenon DEF Outside
<1>3. QED
  BY <1>1, <1>2, OnlyMoves, Zenon

\* The Write that is given wrMu starts its piece at the end of the log.
LEMMA WriteLockStep ==
  ASSUME Apart, IInv, NEW w \in Writers, WriteLock(w)
  PROVE  IInv'
<1>1. /\ Goto(w, "mutex", "select") /\ wrMu = Nil /\ wrMu' = w
      /\ base' = [base EXCEPT ![w] = Len(log)]
      /\ UNCHANGED <<done, rerr, werr, left, n, late, log, own, result>>
  BY Zenon DEF WriteLock, shared
<1>2. w \in Procs /\ w \notin Readers /\ Writers \subseteq Procs /\ Readers \subseteq Procs
  BY Zenon DEF Procs, Apart
<1>3. pc[w] = "mutex" /\ pc'[w] = "select" /\ \A q \in Procs \ {w} : pc'[q] = pc[q]
  BY <1>1, <1>2, Moved, Zenon DEF IInv
<1>4. \A v \in Writers : pc[v] \notin {"select", "await"}
  BY <1>1, Zenon DEF IInv, Locked, Apart
<1>5. \A r \in Readers : pc[r] # "reply"
  BY <1>4, Zenon DEF IInv, Paired
<1>6. Len(log) \in Nat
  BY LenProperties, Zenon DEF IInv, Shape
<1>7. Shape'
  BY <1>1, <1>2, <1>6, Zenon DEF IInv, Shape, Goto, ReaderPlaces, WriterPlaces
<1>8. Locked'
  BY <1>1, <1>2, <1>3, <1>4, Zenon DEF Locked
<1>9. Paired'
  BY <1>2, <1>3, <1>4, <1>5, Zenon DEF Paired
<1>10. Pieces'
  <2>1. n[w] = 0 /\ n'[w] = 0 /\ base'[w] = Len(log') /\ Len(log') \in Nat
    BY <1>1, <1>2, <1>3, <1>6, Zenon DEF IInv, Fresh, Shape
  <2>2. QED
    BY <1>2, <1>3, <1>4, <2>1 DEF Pieces
<1>11. Fresh' /\ Late'
  BY <1>1, <1>2, <1>3, Zenon DEF IInv, Fresh, Late, Shape
<1>12. Told'
  BY <1>1, <1>2, ToldKept, Zenon
<1>13. QED
  BY <1>7, <1>8, <1>9, <1>10, <1>11, <1>12, Zenon DEF IInv

\* What a reader copies is appended to the log as bytes of the one Write
\* that offers.
LEMMA TransferStep ==
  ASSUME Apart, IInv, NEW w \in Writers, NEW r \in Readers, Transfer(w, r)
  PROVE  IInv'
<1> DEFINE nr == Least(left[r], left[w])
<1>1. /\ pc[w] = "select" /\ pc[r] = "select"
      /\ pc' = [pc EXCEPT ![w] = "await", ![r] = "reply"]
      /\ left' = [left EXCEPT ![r] = nr] /\ log' = log \o [i \in 1 .. nr |-> w]
      /\ UNCHANGED <<done, rerr, werr, wrMu, n, late, base, own, result>>
  BY Zenon DEF Transfer, shared
<1>2. /\ w \in Procs /\ w \notin Readers /\ Writers \subseteq Procs
      /\ r \in Procs /\ r \notin Writers /\ Readers \subseteq Procs
  BY Zenon DEF Procs, Apart
<1>3. nr \in Nat /\ nr <= left[w]
  BY <1>2 DEF IInv, Shape, Least
<1> HIDE DEF nr
<1>4. /\ pc'[w] = "await" /\ pc'[r] = "reply" /\ \A q \in Procs \ {w, r} : pc'[q] = pc[q]
      /\ left'[r] = nr /\ left'[w] = left[w]
  BY <1>1, <1>2, Zenon DEF IInv, Shape
<1>5. /\ wrMu = w /\ \A v \in Writers \ {w} : pc[v] \notin {"select", "await"}
      /\ \A q \in Readers : pc[q] # "reply"
  BY <1>1, Zenon DEF IInv, Locked, Paired
<1>6. /\ log' \in Seq(Writers) /\ Len(log') = Len(log) + nr /\ Len(log) \in Nat
      /\ \A i \in 1 .. Len(log) : log'[i] = log[i]
      /\ \A i \in Len(log) + 1 .. Len(log) + nr : log'[i] = w
  BY <1>1, <1>3, Appended, LenProperties DEF IInv, Shape
<1>7. Shape'
  BY <1>1, <1>2, <1>3, <1>6, Zenon DEF IInv, Shape, ReaderPlaces, WriterPlaces
<1>8. Locked' /\ Paired'
  BY <1>1, <1>2, <1>3, <1>4, <1>5, Zenon DEF Locked, Paired, Apart
<1>9. Pieces'
  <2>1. base[w] \in Nat /\ n[w] \in Nat /\ Len(log) = base[w] + n[w]
    BY <1>1, <1>2, Zenon DEF IInv, Shape, Pieces
  <2>2. \A i \in base[w] + 1 .. Len(log) : log[i] = w
    BY <1>1, Zenon DEF IInv, Pieces
  <2>3. \A i \in base[w] + 1 .. Len(log') : log'[i] = w
    BY <1>3, <1>6, <2>1, <2>2
  <2>4. \A q \in Readers : pc'[q] = "reply" => q = r
    BY <1>2, <1>4, <1>5, Zenon
  <2>5. Len(log') = base'[w] + n'[w] + left'[r]
    BY <1>1, <1>4, <1>6, <2>1, Zenon
  <2>6. QED
    BY <1>1, <1>2, <1>4, <1>5, <2>3, <2>4, <2>5, Zenon DEF Pieces
<1>10. Fresh' /\ Late'
  BY <1>1, <1>2, <1>4 DEF IInv, Fresh, Late, Shape
<1>11. Told'
  <2>1. \A q \in Procs : Mine(q)' = Mine(q) /\ Other(q)' = Other(q)
    BY <1>1, Zenon DEF Mine, Other
  <2>2. QED
    BY <1>1, <1>2, <1>4, <2>1, Zenon DEF IInv, Told
<1>12. QED
  BY <1>7, <1>8, <1>9, <1>10, <1>11, Zenon DEF IInv

\* The reader that answers is the one that copied, and the Write counts what
\* it copied; when nothing is left the Write is over.
LEMMA ReplyStep ==
  ASSUME Apart, IInv, NEW w \in Writers, NEW r \in Readers, Reply(r, w)
  PROVE  /\ IInv'
         /\ pc'[w] = "idle" => left'[w] = 0 /\ Len(log) = base[w] + n'[w]
<1>1. PICK to, rest :
        /\ rest = left[w] - left[r] /\ to = (IF rest > 0 THEN "select" ELSE "idle")
        /\ pc[r] = "reply" /\ pc[w] = "await"
        /\ pc' = [pc EXCEPT ![r] = "idle", ![w] = to]
        /\ left' = [left EXCEPT ![w] = rest] /\ n' = [n EXCEPT ![w] = @ + left[r]]
        /\ wrMu' = (IF rest > 0 THEN wrMu ELSE Nil)
        /\ UNCHANGED <<done, rerr, werr, late, log, base, own, result>>
  BY Zenon DEF Reply, shared
<1>2. /\ w \in Procs /\ w \notin Readers /\ Writers \subseteq Procs /\ w # Nil
      /\ r \in Procs /\ r \notin Writers /\ Readers \subseteq Procs
  BY Zenon DEF Procs, Apart
<1>3. /\ wrMu = w /\ \A v \in Writers \ {w} : pc[v] \notin {"select", "await"}
      /\ \A q \in Readers \ {r} : pc[q] # "reply"
  BY <1>1, Zenon DEF IInv, Locked, Paired
<1>4. /\ left[r] \in Nat /\ left[w] \in Nat /\ left[r] <= left[w] /\ rest \in Nat
      /\ n[w] \in Nat /\ base[w] \in Nat
  <2>1. left[r] \in Nat /\ left[w] \in Nat /\ n[w] \in Nat /\ base[w] \in Nat
    BY <1>2, Zenon DEF IInv, Shape
  <2>2. left[r] <= left[w]
    BY <1>1, <1>3, Zenon DEF IInv, Paired
  <2>3. QED
    BY <1>1, <2>1, <2>2
<1>5. /\ to \in {"select", "idle"} /\ (to = "select" <=> rest # 0)
      /\ wrMu' = IF to = "select" THEN w ELSE Nil
  BY <1>1, <1>3, <1>4
<1>6. /\ pc'[w] = to /\ pc'[r] = "idle" /\ \A q \in Procs \ {w, r} : pc'[q] = pc[q]
      /\ left'[w] = rest /\ n'[w] = n[w] + left[r]
      /\ \A q \in Procs \ {w} : left'[q] = left[q] /\ n'[q] = n[q]
  BY <1>1, <1>2, Zenon DEF IInv, Shape
<1>7. Len(log) = base[w] + n'[w]
  <2>1. Len(log) = base[w] + n[w] + left[r]
    BY <1>1, Zenon DEF IInv, Pieces
  <2>2. QED
    BY <1>4, <1>6, <2>1
<1>8. Shape'
  <2>1. left' \in [Procs -> Nat] /\ n' \in [Procs -> Nat]
    BY <1>1, <1>2, <1>4 DEF IInv, Shape
  <2>2. /\ pc' \in [Procs -> ReaderPlaces \cup WriterPlaces]
        /\ \A q \in Readers : pc'[q] \in ReaderPlaces
        /\ \A v \in Writers : pc'[v] \in WriterPlaces
    BY <1>1, <1>2, <1>5, Zenon DEF IInv, Shape, ReaderPlaces, WriterPlaces
  <2>3. QED
    BY <1>1, <2>1, <2>2, Zenon DEF IInv, Shape
<1>9. Locked' /\ Paired'
  BY <1>2, <1>3, <1>5, <1>6, Zenon DEF Locked, Paired
<1>10. Pieces'
  <2>1. \A i \in base[w] + 1 .. Len(log) : log[i] = w
    BY <1>1, Zenon DEF IInv, Pieces
  <2>2. QED
    BY <1>1, <1>2, <1>3, <1>5, <1>6, <1>7, <2>1, Zenon DEF Pieces
<1>11. Fresh' /\ Late'
  BY <1>1, <1>2, <1>5, <1>6 DEF IInv, Fresh, Late, Shape
<1>12. Told'
  <2>1. \A q \in Procs : Mine(q)' = Mine(q) /\ Other(q)' = Other(q)
    BY <1>1, Zenon DEF Mine, Other
  <2>2. QED
    BY <1>1, <1>2, <1>5, <1>6, <2>1, Zenon DEF IInv, Told
<1>13. pc'[w] = "idle" => left'[w] = 0 /\ Len(log) = base[w] + n'[w]
  BY <1>5, <1>6, <1>7, Zenon
<1>14. QED
  BY <1>8, <1>9, <1>10, <1>11, <1>12, <1>13, Zenon DEF IInv

\* A call that fails loads the error of its own end.
LEMMA FailLoadStep ==
  ASSUME Apart, IInv, NEW p \in Procs, FailLoad(p)
  PROVE  IInv'
<1>1. /\ Goto(p, "fail", "error") /\ own' = [own EXCEPT ![p] = Mine(p)]
      /\ UNCHANGED <<done, rerr, werr, wrMu, left, n, late, log, base, result>>
  BY Zenon DEF FailLoad, shared, Mine
<1>2. /\ pc[p] = "fail" /\ pc'[p] = "error" /\ \A q \in Procs \ {p} : pc'[q] = pc[q]
      /\ own'[p] = Mine(p) /\ \A q \in Procs \ {p} : own'[q] = own[q]
  BY <1>1, Moved, Zenon DEF IInv, Shape
<1>3. Shape'
  BY <1>1, Zenon DEF IInv, Shape, Goto, ReaderPlaces, WriterPlaces, Procs
<1>4. Outside(p, "fail", "error")
  BY <1>1, Zenon DEF Outside
<1>5. Fresh' /\ Late'
  BY <1>1, <1>2, Zenon DEF IInv, Fresh, Late, Shape, Procs
<1>6. Told'
  <2>1. \A q \in Procs : Mine(q)' = Mine(q) /\ Other(q)' = Other(q)
    BY <1>1, Zenon DEF Mine, Other
  <2>2. Mine(p) = Nil => Other(p) # Nil
    BY <1>2, Zenon DEF IInv, Told, Mine, Other
  <2>3. QED
    BY <1>1, <1>2, <2>1, <2>2 DEF IInv, Told
<1>7. QED
  BY <1>3, <1>4, <1>5, <1>6, ExchangeKept, Zenon DEF IInv

\* A call that fails returns an error that one of the ends was closed with.
LEMMA FailStep ==
  ASSUME Apart, IInv, NEW p \in Procs, Fail(p)
  PROVE  IInv'
<1>1. /\ Goto(p, "error", "idle") /\ own' = [own EXCEPT ![p] = Nil]
      /\ result' = [result EXCEPT ![p] = CloseError(own[p], Other(p))]
      /\ wrMu' = (IF wrMu = p THEN Nil ELSE wrMu)
      /\ UNCHANGED <<done, rerr, werr, left, n, late, log, base>>
  BY Zenon DEF Fail, shared, Other
<1>2. /\ pc[p] = "error" /\ pc'[p] = "idle" /\ \A q \in Procs \ {p} : pc'[q] = pc[q]
      /\ own'[p] = Nil /\ \A q \in Procs \ {p} : own'[q] = own[q]
      /\ result'[p] = CloseError(own[p], Other(p))
      /\ \A q \in Procs \ {p} : result'[q] = result[q]
      /\ Readers \subseteq Procs /\ Writers \subseteq Procs
  BY <1>1, Moved, Zenon DEF IInv, Shape, Procs
<1>3. Shape'
  BY <1>1, Zenon DEF IInv, Shape, Goto, ReaderPlaces, WriterPlaces, Procs
<1>4. Locked'
  BY <1>1, <1>2, Zenon DEF IInv, Locked
<1>5. Paired' /\ Pieces'
  BY <1>1, <1>2 DEF IInv, Paired, Pieces
<1>6. Fresh' /\ Late'
  BY <1>1, <1>2 DEF IInv, Fresh, Late, Shape
<1>7. Told'
  <2>1. \A q \in Procs : Mine(q)' = Mine(q) /\ Other(q)' = Other(q)
    BY <1>1, Zenon DEF Mine, Other
  <2>2. IF result'[p] = ErrClosedPipe THEN Mine(p) # Nil \/ Other(p) = ErrClosedPipe
        ELSE result'[p] = Other(p)
    BY <1>2, Zenon DEF IInv, Told, CloseError
  <2>3. QED
    BY <1>1, <1>2, <2>1, <2>2 DEF IInv, Told
<1>8. QED
  BY <1>3, <1>4, <1>5, <1>6, <1>7, Zenon DEF IInv

\* A close stores the error of an end, once.
LEMMA CloseStep ==
  ASSUME Apart, IInv, NEW p \in Procs, NEW err \in Errors(p), CloseWithError(p, err)
  PROVE  IInv'
<1>1. /\ Goto(p, "idle", "close")
      /\ IF p \in Readers
         THEN rerr' = (IF rerr = Nil THEN err ELSE rerr) /\ werr' = werr
         ELSE werr' = (IF werr = Nil THEN err ELSE werr) /\ rerr' = rerr
      /\ UNCHANGED <<done, wrMu, left, n, late, log, base, own, result>>
  BY Zenon DEF CloseWithError
<1>2. pc[p] = "idle" /\ pc'[p] = "close" /\ \A q \in Procs \ {p} : pc'[q] = pc[q]
  BY <1>1, Moved, Zenon DEF IInv
<1>3. /\ rerr' \in {Nil, ErrClosedPipe, "rerr"} /\ werr' \in {Nil, "EOF", "werr"}
      /\ (rerr # Nil => rerr' = rerr) /\ (werr # Nil => werr' = werr)
      /\ (IF p \in Readers THEN rerr' # Nil ELSE werr' # Nil)
  BY <1>1, Zenon DEF IInv, Shape, Errors, Apart
<1>4. Shape'
  BY <1>1, <1>3, Zenon DEF IInv, Shape, Goto, ReaderPlaces, WriterPlaces, Procs
<1>5. Outside(p, "idle", "close")
  BY <1>1, Zenon DEF Outside
<1>6. Fresh' /\ Late'
  BY <1>1, <1>2, Zenon DEF IInv, Fresh, Late, Shape, Procs
<1>7. Told'
  <2>1. done' => rerr' # Nil \/ werr' # Nil
    BY <1>1, <1>3, Zenon DEF IInv, Told
  <2>2. ASSUME NEW q \in Procs, result'[q] # Nil
        PROVE  IF result'[q] = ErrClosedPipe THEN Mine(q)' # Nil \/ Other(q)' = ErrClosedPipe
               ELSE result'[q] = Other(q)'
    <3>1. /\ Nil # ErrClosedPipe /\ result'[q] = result[q]
          /\ Mine(q) # Nil => Mine(q)' = Mine(q)
          /\ Other(q) # Nil => Other(q)' = Other(q)
      BY <1>1, <1>3, Zenon DEF Apart, Mine, Other
    <3>2. IF result[q] = ErrClosedPipe THEN Mine(q) # Nil \/ Other(q) = ErrClosedPipe
          ELSE result[q] = Other(q)
      BY <2>2, <3>1, Zenon DEF IInv, Told
    <3>3. CASE result[q] = ErrClosedPipe
      BY <3>1, <3>2, <3>3, Zenon
    <3>4. CASE result[q] # ErrClosedPipe
      BY <2>2, <3>1, <3>2, <3>4, Zenon
    <3>5. QED
      BY <3>3, <3>4, Zenon
  <2>3. ASSUME NEW q \in Procs
        PROVE  /\ pc'[q] \in {"fail", "error"} => done'
               /\ pc'[q] = "close" => Mine(q)' # Nil
               /\ own'[q] # Nil => Mine(q)' # Nil
               /\ pc'[q] = "error" /\ own'[q] = Nil => Other(q)' # Nil
    <3>1. /\ Mine(q) # Nil => Mine(q)' = Mine(q)
          /\ Other(q) # Nil => Other(q)' = Other(q)
          /\ done' = done /\ own'[q] = own[q]
          /\ q # p => pc'[q] = pc[q]
          /\ q = p => pc'[q] = "close" /\ Mine(q)' # Nil
      BY <1>1, <1>2, <1>3, Zenon DEF Mine, Other
    <3>2. /\ pc[q] \in {"fail", "error"} => done
          /\ pc[q] = "close" => Mine(q) # Nil
          /\ own[q] # Nil => Mine(q) # Nil
          /\ pc[q] = "error" /\ own[q] = Nil => Other(q) # Nil
      BY Zenon DEF IInv, Told
    <3>3. QED
      BY <3>1, <3>2, Zenon
  <2>4. QED
    BY <2>1, <2>2, <2>3, Zenon DEF Told
<1>8. QED
  BY <1>4, <1>5, <1>6, <1>7, ExchangeKept, Zenon DEF IInv

\* Then it closes done.
LEMMA CloseDoneStep ==
  ASSUME Apart, IInv, NEW p \in Procs, CloseDone(p)
  PROVE  IInv'
<1>1. /\ Goto(p, "close", "idle") /\ done' = TRUE
      /\ UNCHANGED <<rerr, werr, wrMu, left, n, late, log, base, own, result>>
  BY Zenon DEF CloseDone
<1>2. pc[p] = "close" /\ pc'[p] = "idle" /\ \A q \in Procs \ {p} : pc'[q] = pc[q]
  BY <1>1, Moved, Zenon DEF IInv
<1>3. Shape'
  BY <1>1, Zenon DEF IInv, Shape, Goto, ReaderPlaces, WriterPlaces, Procs
<1>4. Outside(p, "close", "idle")
  BY <1>1, Zenon DEF Outside
<1>5. Fresh' /\ Late'
  BY <1>1, <1>2, Zenon DEF IInv, Fresh, Late, Shape, Procs
<1>6. Told'
  <2>1. \A q \in Procs : Mine(q)' = Mine(q) /\ Other(q)' = Other(q)
    BY <1>1, Zenon DEF Mine, Other
  <2>2. rerr # Nil \/ werr # Nil
    BY <1>2, Zenon DEF IInv, Told, Mine
  <2>3. QED
    BY <1>1, <1>2, <2>1, <2>2, Zenon DEF IInv, Told
<1>7. QED
  BY <1>3, <1>4, <1>5, <1>6, ExchangeKept, Zenon DEF IInv

\* No step breaks the inductive invariant.
LEMMA StepIInv ==
  ASSUME Apart, IInv, [Next]_vars
  PROVE  IInv'
<1>1. ASSUME NEW p \in Procs, Step(p)
      PROVE  IInv'
  BY <1>1, CheckStep, SelectDoneStep, FailLoadStep, FailStep, CloseDoneStep, WriteLockStep,
     TransferStep, ReplyStep, Zenon DEF Step
<1>2. ASSUME NEW p \in Procs, Calls(p)
      PROVE  IInv'
  BY <1>2, BeginStep, CloseStep, Zenon DEF Calls
<1>3. CASE UNCHANGED vars
  BY <1>3 DEF vars, IInv, Shape, Locked, Paired, Pieces, Fresh, Late, Told, Mine, Other
<1>4. QED
  BY <1>1, <1>2, <1>3, Zenon DEF Next

\* The inductive invariant holds of every pipe.
THEOREM PipeInvariant ==
  ASSUME Apart
  PROVE  Spec => []IInv
<1>1. Init => IInv
  BY InitIInv, Zenon
<1>2. IInv /\ [Next]_vars => IInv'
  BY StepIInv, Zenon
<1>3. QED
  BY <1>1, <1>2, PTL DEF Spec

\* The bytes of one Write are read in one piece and counted as they are read;
\* a call that starts after a close moves no data; and a call that fails
\* reports the error of the other end, unless its own end is closed too.
THEOREM WritesInOnePiece ==
  ASSUME Apart
  PROVE  Spec => []WriteInOnePiece
<1>1. IInv => WriteInOnePiece
  <2> SUFFICES ASSUME IInv PROVE WriteInOnePiece
    BY Zenon
  <2>1. TypeOK
    BY DEF IInv, Shape, Locked, TypeOK, ReaderPlaces, WriterPlaces
  <2>2. \A p \in late : pc[p] \notin {"reply", "await"} /\ (p \in Writers => n[p] = 0)
    BY Zenon DEF IInv, Late
  <2>3. ASSUME NEW r \in Readers, result[r] # Nil
        PROVE  IF result[r] = ErrClosedPipe THEN rerr # Nil ELSE result[r] = werr
    BY <2>3, Zenon DEF IInv, Told, Shape, Mine, Other, Procs, ErrClosedPipe, Apart
  <2>4. ASSUME NEW w \in Writers, result[w] # Nil
        PROVE  IF result[w] = ErrClosedPipe THEN werr # Nil \/ rerr = ErrClosedPipe
               ELSE result[w] = rerr
    BY <2>4, Zenon DEF IInv, Told, Mine, Other, Procs, Apart
  <2>5. ASSUME NEW w \in Writers, pc[w] = "await"
        PROVE  \E r \in InFlight : Len(log) = base[w] + n[w] + left[r]
    BY <2>5, Zenon DEF IInv, Paired, Pieces, InFlight
  <2>6. QED
    BY <2>1, <2>2, <2>3, <2>4, <2>5, Zenon DEF IInv, Pieces, WriteInOnePiece
<1>2. QED
  BY <1>1, PipeInvariant, PTL

\* A Write returns without an error only when all its bytes were read: the
\* only step from the wait for a reader to the end of the call is the answer
\* of the reader that took the last of them.
THEOREM WritesComplete ==
  ASSUME Apart
  PROVE  Spec => WriteComplete
<1>1. ASSUME IInv, [Next]_vars
      PROVE  [\A w \in Writers : pc[w] = "await" /\ pc'[w] = "idle" =>
                left'[w] = 0 /\ Len(log) = base[w] + n'[w]]_vars
  <2> SUFFICES ASSUME Next, NEW w \in Writers, pc[w] = "await", pc'[w] = "idle"
               PROVE  left'[w] = 0 /\ Len(log) = base[w] + n'[w]
    BY <1>1, Zenon
  <2>1. w \in Procs
    BY Zenon DEF Procs
  <2>2. ASSUME NEW p \in Procs, NEW from, NEW to, Goto(p, from, to), from # "await"
        PROVE  FALSE
    BY <1>1, <2>1, <2>2, Moved, Zenon DEF IInv
  <2>3. ASSUME NEW v \in Writers, NEW r \in Readers, Transfer(v, r)
        PROVE  FALSE
    BY <1>1, <2>1, <2>3, Zenon DEF Transfer, IInv, Shape, Procs
  <2>4. ASSUME NEW v \in Writers, NEW r \in Readers, Reply(r, v)
        PROVE  left'[w] = 0 /\ Len(log) = base[w] + n'[w]
    <3>1. v = w
      BY <1>1, <2>4, Zenon DEF IInv, Locked, Reply
    <3>2. QED
      BY <1>1, <2>4, <3>1, ReplyStep, Zenon
  <2>5. ASSUME NEW p \in Procs, Step(p)
        PROVE  left'[w] = 0 /\ Len(log) = base[w] + n'[w]
    BY <2>2, <2>3, <2>4, <2>5, Zenon DEF Step, CheckDone, SelectDone, FailLoad, Fail, CloseDone,
       WriteLock
  <2>6. ASSUME NEW p \in Procs, Calls(p)
        PROVE  FALSE
    BY <2>2, <2>6, Zenon DEF Calls, Begin, CloseWithError
  <2>7. QED
    BY <2>5, <2>6, Zenon DEF Next
<1>2. QED
  BY <1>1, PipeInvariant, PTL DEF Spec, WriteComplete
=============================================================================
