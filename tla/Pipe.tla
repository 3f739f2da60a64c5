--------------------------------- MODULE Pipe ---------------------------------
(***************************************************************************)
(* The synchronous pipe of package io (io/pipe.go): parallel calls of      *)
(* Read, Write and CloseWithError on both ends.                            *)
(*                                                                         *)
(* A caller is at idle; check (before the first select on done); mutex     *)
(* (Write, before wrMu.Lock); select (in the select on wrCh and done);     *)
(* reply (Read, before the send on rdCh); await (Write, before the receive *)
(* from rdCh); fail (done was closed, no error loaded yet) and error;      *)
(* close (CloseWithError, the error stored and done not yet closed).       *)
(* wrCh and rdCh are unbuffered: sender and receiver step together.        *)
(***************************************************************************)
EXTENDS Naturals, Sequences

CONSTANTS Readers, Writers,     \* goroutines that read, and that write
          Sizes,                \* lengths of the slices given to Read and Write
          MaxCalls,             \* bound on the number of calls
          Nil

VARIABLES
    done, rerr, werr,
    wrMu,       \* the holder of wrMu, or Nil
    pc,
    left,       \* Write: bytes of b not consumed; Read: len(b), then nr
    n,          \* Write: bytes consumed so far
    calls,      \* the number of calls made
    late,       \* callers whose call started after a CloseWithError had returned
    log,        \* the writer of each byte that readers have copied, in order
    base,       \* Write: length of log when the call was given wrMu
    own,        \* the error of its own end that a failing call has loaded
    result      \* the error of each goroutine's last call

vars == <<done, rerr, werr, wrMu, pc, left, n, calls, late, log, base, own, result>>
shared == <<done, rerr, werr>>

Procs == Readers \cup Writers
ErrClosedPipe == "ErrClosedPipe"

Init ==
    /\ done = FALSE /\ rerr = Nil /\ werr = Nil /\ wrMu = Nil
    /\ pc = [p \in Procs |-> "idle"]
    /\ left = [p \in Procs |-> 0] /\ n = [p \in Procs |-> 0]
    /\ calls = 0 /\ late = {}
    /\ log = <<>> /\ base = [p \in Procs |-> 0]
    /\ own = [p \in Procs |-> Nil] /\ result = [p \in Procs |-> Nil]

Goto(p, from, to) == pc[p] = from /\ pc' = [pc EXCEPT ![p] = to]
Least(a, b) == IF a < b THEN a ELSE b

-----------------------------------------------------------------------------
(* read and write *)

Begin(p, size) ==
    /\ calls < MaxCalls /\ calls' = calls + 1
    /\ Goto(p, "idle", "check")
    /\ left' = [left EXCEPT ![p] = size] /\ n' = [n EXCEPT ![p] = 0]
    /\ late' = IF done THEN late \cup {p} ELSE late \ {p}
    /\ result' = [result EXCEPT ![p] = Nil]
    /\ UNCHANGED <<shared, wrMu, log, base, own>>

\* Mutant: wrMu is not taken.
WriteLockSkipped(w) ==
    /\ Goto(w, "mutex", "select")
    /\ base' = [base EXCEPT ![w] = Len(log)]
    /\ UNCHANGED <<shared, wrMu, left, n, calls, late, log, own, result>>

CheckDone(p) ==
    /\ Goto(p, "check", IF done THEN "fail" ELSE IF p \in Readers THEN "select" ELSE "mutex")
    /\ UNCHANGED <<shared, wrMu, left, n, calls, late, log, base, own, result>>

WriteLock(w) ==
    /\ wrMu = Nil /\ wrMu' = w
    /\ Goto(w, "mutex", "select")
    /\ base' = [base EXCEPT ![w] = Len(log)]
    /\ UNCHANGED <<shared, left, n, calls, late, log, own, result>>

\* wrCh: the reader gets the slice and copies what fits.
Transfer(w, r) ==
    /\ pc[w] = "select" /\ pc[r] = "select"
    /\ pc' = [pc EXCEPT ![w] = "await", ![r] = "reply"]
    /\ LET nr == Least(left[r], left[w])
       IN  /\ left' = [left EXCEPT ![r] = nr]
           /\ log' = log \o [i \in 1 .. nr |-> w]
    /\ UNCHANGED <<shared, wrMu, n, calls, late, base, own, result>>

\* Mutant: the write counts what it offered, not what was read.
ReplyAll(r, w) ==
    /\ pc[r] = "reply" /\ pc[w] = "await"
    /\ pc' = [pc EXCEPT ![r] = "idle", ![w] = "idle"]
    /\ n' = [n EXCEPT ![w] = @ + left[w]]
    /\ wrMu' = Nil
    /\ UNCHANGED <<shared, left, calls, late, log, base, own, result>>

\* rdCh: the read is over; the write is when nothing is left.
Reply(r, w) ==
    LET rest == left[w] - left[r]
    IN  /\ pc[r] = "reply" /\ pc[w] = "await"
        /\ pc' = [pc EXCEPT ![r] = "idle", ![w] = IF rest > 0 THEN "select" ELSE "idle"]
        /\ left' = [left EXCEPT ![w] = rest]
        /\ n' = [n EXCEPT ![w] = @ + left[r]]
        /\ wrMu' = IF rest > 0 THEN wrMu ELSE Nil
        /\ UNCHANGED <<shared, calls, late, log, base, own, result>>

\* Mutant: a writer does not select on done.
SelectDoneRead(p) ==
    /\ done /\ p \in Readers
    /\ Goto(p, "select", "fail")
    /\ UNCHANGED <<shared, wrMu, left, n, calls, late, log, base, own, result>>

SelectDone(p) ==
    /\ done
    /\ Goto(p, "select", "fail")
    /\ UNCHANGED <<shared, wrMu, left, n, calls, late, log, base, own, result>>

-----------------------------------------------------------------------------
(* readCloseError and writeCloseError, CloseWithError *)

\* The error of the other end, when this end has none of its own.
CloseError(mine, other) == IF mine = Nil /\ other # Nil THEN other ELSE ErrClosedPipe

\* The two errors are loaded one after the other.
FailLoad(p) ==
    /\ Goto(p, "fail", "error")
    /\ own' = [own EXCEPT ![p] = IF p \in Readers THEN rerr ELSE werr]
    /\ UNCHANGED <<shared, wrMu, left, n, calls, late, log, base, result>>

Fail(p) ==
    /\ Goto(p, "error", "idle")
    /\ result' = [result EXCEPT ![p] = CloseError(own[p], IF p \in Readers THEN werr ELSE rerr)]
    /\ own' = [own EXCEPT ![p] = Nil]
    /\ wrMu' = IF wrMu = p THEN Nil ELSE wrMu
    /\ UNCHANGED <<shared, left, n, calls, late, log, base>>

\* onceError keeps the first error of each end.
CloseWithError(p, err) ==
    /\ calls < MaxCalls /\ calls' = calls + 1
    /\ Goto(p, "idle", "close")
    /\ IF p \in Readers
       THEN rerr' = (IF rerr = Nil THEN err ELSE rerr) /\ UNCHANGED werr
       ELSE werr' = (IF werr = Nil THEN err ELSE werr) /\ UNCHANGED rerr
    /\ UNCHANGED <<done, wrMu, left, n, late, log, base, own, result>>

CloseDone(p) ==
    /\ Goto(p, "close", "idle")
    /\ done' = TRUE
    /\ UNCHANGED <<rerr, werr, wrMu, left, n, calls, late, log, base, own, result>>

-----------------------------------------------------------------------------
\* What Close and CloseWithError store: ErrClosedPipe or EOF for nil.
Errors(p) == IF p \in Readers THEN {ErrClosedPipe, "rerr"} ELSE {"EOF", "werr"}

Step(p) ==
    \/ CheckDone(p) \/ SelectDone(p) \/ FailLoad(p) \/ Fail(p) \/ CloseDone(p)
    \/ p \in Writers /\ (WriteLock(p) \/ \E r \in Readers : Transfer(p, r) \/ Reply(r, p))

Calls(p) ==
    \/ \E size \in Sizes : Begin(p, size)
    \/ \E err \in Errors(p) : CloseWithError(p, err)

Next == \E p \in Procs : Step(p) \/ Calls(p)

Spec == Init /\ [][Next]_vars

\* Goroutines in a call run on.
FairSpec == Spec /\ \A p \in Procs : WF_vars(Step(p))
-----------------------------------------------------------------------------
(* Properties *)

\* The shape of the state; wrMu is held by a Write that is past its Lock.
TypeOK ==
    /\ done \in BOOLEAN /\ rerr \in {Nil, ErrClosedPipe, "rerr"} /\ werr \in {Nil, "EOF", "werr"}
    /\ wrMu # Nil => wrMu \in Writers /\ pc[wrMu] \in {"select", "await", "fail", "error"}
    /\ \A r \in Readers : pc[r] \in {"idle", "check", "select", "reply", "fail", "error",
                                   "close"}
    /\ \A w \in Writers : pc[w] \in {"idle", "check", "mutex", "select", "await", "fail",
                                   "error", "close"}
    /\ late \subseteq Procs /\ log \in Seq(Writers)
    /\ \A p \in Procs : left[p] >= 0 /\ n[p] >= 0

\* The bytes a reader is copying for the write of w.
InFlight == {r \in Readers : pc[r] = "reply"}

\* The pipe's state has its shape.  The bytes of one Write are read in one
\* piece, not mixed with those of another, and Write counts exactly those that
\* were read.  "subsequent reads from the read half of the pipe will return no
\* bytes": a call that starts after a Close of either end has returned moves no
\* data.  A call that fails reports the error of the other end, unless its own
\* end is closed too: the error is stored before done is closed.
WriteInOnePiece ==
    /\ TypeOK
    /\ \A p \in late : pc[p] \notin {"reply", "await"} /\ (p \in Writers => n[p] = 0)
    /\ \A r \in Readers : result[r] # Nil =>
        IF result[r] = ErrClosedPipe THEN rerr # Nil ELSE result[r] = werr
    /\ \A w \in Writers : result[w] # Nil =>
        IF result[w] = ErrClosedPipe THEN werr # Nil \/ rerr = ErrClosedPipe
        ELSE result[w] = rerr
    /\ \A w \in Writers : pc[w] \in {"select", "await"} =>
        /\ \A i \in base[w] + 1 .. Len(log) : log[i] = w
        /\ pc[w] = "select" => Len(log) = base[w] + n[w]
        /\ pc[w] = "await" => \E r \in InFlight : Len(log) = base[w] + n[w] + left[r]

\* Write returns no error only when all its bytes were read.
WriteComplete ==
    [][\A w \in Writers :
        pc[w] = "await" /\ pc'[w] = "idle" => left'[w] = 0 /\ Len(log) = base[w] + n'[w]]_vars

\* When an end is closed every blocked Read and Write returns.
CloseUnblocks == \A p \in Procs : done /\ pc[p] # "idle" ~> pc[p] = "idle"
=============================================================================
