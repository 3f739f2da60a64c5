------------------------------- MODULE ExecCmd -------------------------------
(***************************************************************************)
(* A command of os/exec: Start, Wait, the goroutine watchCtx that acts on  *)
(* the end of the context, and the goroutines that copy between pipes and  *)
(* the user's readers and writers.  WaitDelay bounds the time that a child *)
(* which does not exit, or a grandchild that keeps its pipes open, can     *)
(* hold up Wait.                                                           *)
(*                                                                         *)
(* The caller is at new, starting, started, wait (Process.Wait), watch     *)
(* (the receive of ctxResult), await, select, drain (awaitGoroutines),     *)
(* done or failed.  The watcher is at none, select, cancel, delay, kill,   *)
(* copiers, drain, send or done.                                           *)
(***************************************************************************)
EXTENDS FiniteSets

CONSTANTS Copiers       \* the goroutines Start makes when it has pipes

VARIABLES
    ctx, cancel, delay, \* there is a context, a Cancel, a nonzero WaitDelay
    ctxDone,
    proc, status,       \* running, exited or reaped; its exit status
    orphan,             \* a grandchild holds the pipes
    pipes,              \* the parent's ends: open or closed
    copying, firstErr,  \* the copiers that run, the first error of the others
    goroutineErr,       \* nil, empty, or what the last copier sent
    pc, err,            \* the caller of Start and Wait, and Wait's result
    watcher, werr,      \* watchCtx, and the error it is about to report
    timer,              \* none, running or fired
    interrupted,        \* Cancel was called and did not say ErrProcessDone
    killed              \* watchCtx has killed the child

config == <<ctx, cancel, delay>>
child == <<proc, status, orphan>>
copy == <<pipes, copying, firstErr>>
watch == <<watcher, werr, interrupted, killed>>
vars == <<config, ctxDone, child, copy, goroutineErr, pc, err, watch, timer>>

Init ==
    /\ ctx \in BOOLEAN /\ cancel \in BOOLEAN /\ delay \in BOOLEAN
    /\ cancel => ctx
    /\ ctxDone = FALSE
    /\ proc = "none" /\ status = "none" /\ orphan \in BOOLEAN
    /\ pipes = "open" /\ copying = {} /\ firstErr = "ok"
    /\ goroutineErr = "nil"
    /\ pc = "new" /\ err = "ok"
    /\ watcher = "none" /\ werr = "ok" /\ timer = "none"
    /\ interrupted = FALSE /\ killed = FALSE

Goto(from, to) == pc = from /\ pc' = to
WatchGoto(from, to) == watcher = from /\ watcher' = to

-----------------------------------------------------------------------------
(* The context, the child and its descendants *)

ContextDone ==
    /\ ctx /\ ~ctxDone /\ ctxDone' = TRUE
    /\ UNCHANGED <<config, child, copy, goroutineErr, pc, err, watch, timer>>

Exits(s) ==
    /\ proc = "running" /\ proc' = "exited" /\ status' = s
    /\ UNCHANGED <<config, ctxDone, orphan, copy, goroutineErr, pc, err, watch, timer>>

OrphanExits ==
    /\ orphan /\ orphan' = FALSE
    /\ UNCHANGED <<config, ctxDone, proc, status, copy, goroutineErr, pc, err, watch, timer>>

\* Process.Kill, with its answer: it also succeeds for a child that has
\* exited and was not waited for, and may be refused.
Kill(answer) ==
    \/ /\ answer = "ok" /\ proc = "running"
       /\ proc' = "exited" /\ status' = "killed"
    \/ /\ \/ answer = "ok" /\ proc = "exited"
          \/ answer = "done" /\ proc \in {"exited", "reaped"}
          \/ answer = "refused" /\ proc = "running"
       /\ UNCHANGED <<proc, status>>

\* A Cancel of the user may do something that the child ignores.
CallCancel(answer) == Kill(answer) \/ (answer = "ok" /\ UNCHANGED <<proc, status>>)

TimerFires ==
    /\ timer = "running" /\ timer' = "fired"
    /\ UNCHANGED <<config, ctxDone, child, copy, goroutineErr, pc, err, watch>>

-----------------------------------------------------------------------------
(* The copying goroutines: the last one to end sends the first error *)

CopyEnds(k, e) ==
    /\ k \in copying /\ copying' = copying \ {k}
    /\ firstErr' = IF firstErr = "ok" THEN e ELSE firstErr
    /\ goroutineErr' = IF copying' = {} THEN firstErr' ELSE goroutineErr
    /\ UNCHANGED <<config, ctxDone, child, pipes, pc, err, watch, timer>>

\* io.Copy sees the end of the pipe, an error of the user's reader or writer,
\* or that its own end was closed.
CopyEOF(k) == proc \in {"exited", "reaped"} /\ ~orphan /\ CopyEnds(k, "ok")
CopyFails(k) == CopyEnds(k, "io")
CopyClosed(k) == pipes = "closed" /\ CopyEnds(k, "closed")

-----------------------------------------------------------------------------
(* Start *)

StartCheck ==
    /\ Goto("new", IF ctxDone THEN "failed" ELSE "starting")
    /\ pipes' = IF ctxDone THEN "closed" ELSE pipes
    /\ UNCHANGED <<config, ctxDone, child, copying, firstErr, goroutineErr, err, watch, timer>>

StartFails ==
    /\ Goto("starting", "failed")
    /\ pipes' = "closed"
    /\ UNCHANGED <<config, ctxDone, child, copying, firstErr, goroutineErr, err, watch, timer>>

Start ==
    /\ Goto("starting", "started")
    /\ proc' = "running"
    /\ copying' \in SUBSET Copiers
    /\ goroutineErr' = IF copying' = {} THEN "nil" ELSE "empty"
    /\ watcher' = IF ctx /\ (cancel \/ delay) THEN "select" ELSE "none"
    /\ UNCHANGED <<config, ctxDone, status, orphan, pipes, firstErr, err,
                   werr, interrupted, killed, timer>>

-----------------------------------------------------------------------------
(* watchCtx *)

\* resultc has no buffer: the watcher hands its result to Wait when it is
\* there to receive it.
Result(e) ==
    /\ Goto("watch", "await")
    /\ watcher' = "done"
    /\ err' = IF err = "ok" THEN e ELSE err

\* The first select: Wait is already there, or the context is done.
WatchNothing ==
    /\ watcher = "select" /\ Result("ok")
    /\ UNCHANGED <<config, ctxDone, child, copy, goroutineErr, werr, interrupted, killed, timer>>

WatchDone ==
    /\ ctxDone
    /\ WatchGoto("select", "cancel")
    /\ UNCHANGED <<config, ctxDone, child, copy, goroutineErr, pc, err, werr, interrupted, killed, timer>>

WatchCancel(answer) ==
    /\ WatchGoto("cancel", IF delay THEN "delay" ELSE "send")
    /\ IF cancel THEN CallCancel(answer) ELSE answer = "done" /\ UNCHANGED <<proc, status>>
    /\ werr' = IF answer = "ok" THEN "ctx" ELSE IF answer = "done" THEN "ok" ELSE "cancel"
    /\ interrupted' = (answer # "done")
    /\ timer' = IF delay THEN "running" ELSE timer
    /\ UNCHANGED <<config, ctxDone, orphan, copy, goroutineErr, pc, err, killed>>

\* The second select: Wait takes over, with the timer, or the timer fires.
WatchHandOver ==
    /\ watcher = "delay" /\ Result(werr)
    /\ UNCHANGED <<config, ctxDone, child, copy, goroutineErr, werr, interrupted, killed, timer>>

WatchExpired ==
    /\ timer = "fired" /\ timer' = "none"
    /\ WatchGoto("delay", "kill")
    /\ UNCHANGED <<config, ctxDone, child, copy, goroutineErr, pc, err, werr, interrupted, killed>>

WatchKill(answer) ==
    /\ WatchGoto("kill", IF goroutineErr = "nil" THEN "send" ELSE "copiers")
    /\ Kill(answer)
    /\ killed' = (answer = "ok")
    /\ werr' = IF answer = "refused" THEN "kill" ELSE werr
    /\ UNCHANGED <<config, ctxDone, orphan, copy, goroutineErr, pc, err, interrupted, timer>>

\* The copiers have ended: their error counts unless Cancel or Kill caused it.
WatchCopied ==
    /\ goroutineErr # "empty" /\ goroutineErr' = "nil"
    /\ WatchGoto("copiers", "send")
    /\ werr' = IF werr = "ok" /\ ~killed THEN goroutineErr ELSE werr
    /\ UNCHANGED <<config, ctxDone, child, copy, pc, err, interrupted, killed, timer>>

\* They have not: their pipes are closed.
WatchClose ==
    /\ goroutineErr = "empty"
    /\ WatchGoto("copiers", "drain")
    /\ pipes' = "closed"
    /\ UNCHANGED <<config, ctxDone, child, copying, firstErr, goroutineErr, pc, err,
                   werr, interrupted, killed, timer>>

\* Mutant: goroutineErr is not set to nil.
WatchDrainKeeps ==
    /\ goroutineErr # "empty" /\ goroutineErr' = "empty"
    /\ WatchGoto("drain", "send")
    /\ werr' = IF werr = "ok" THEN "ErrWaitDelay" ELSE werr
    /\ UNCHANGED <<config, ctxDone, child, copy, pc, err, interrupted, killed, timer>>

\* Mutant: the closed pipes are not reported.
WatchDrainQuiet ==
    /\ goroutineErr # "empty" /\ goroutineErr' = "nil"
    /\ WatchGoto("drain", "send")
    /\ UNCHANGED <<config, ctxDone, child, copy, pc, err, werr, interrupted, killed, timer>>

WatchDrain ==
    /\ goroutineErr # "empty" /\ goroutineErr' = "nil"
    /\ WatchGoto("drain", "send")
    /\ werr' = IF werr = "ok" THEN "ErrWaitDelay" ELSE werr
    /\ UNCHANGED <<config, ctxDone, child, copy, pc, err, interrupted, killed, timer>>

WatchSend ==
    /\ watcher = "send" /\ Result(werr)
    /\ UNCHANGED <<config, ctxDone, child, copy, goroutineErr, werr, interrupted, killed, timer>>

-----------------------------------------------------------------------------
(* Wait and awaitGoroutines *)

Wait ==
    /\ Goto("started", "wait")
    /\ UNCHANGED <<config, ctxDone, child, copy, goroutineErr, err, watch, timer>>

ProcessWait ==
    /\ Goto("wait", IF watcher = "none" THEN "await" ELSE "watch")
    /\ proc = "exited" /\ proc' = "reaped"
    /\ err' = IF status = "ok" THEN "ok" ELSE "ExitError"
    /\ UNCHANGED <<config, ctxDone, status, orphan, copy, goroutineErr, watch, timer>>

\* Wait closes the parent's ends last.
Finish(e) ==
    /\ pc' = "done"
    /\ err' = IF err = "ok" THEN e ELSE err
    /\ goroutineErr' = "nil" /\ timer' = "none"
    /\ pipes' = "closed"
    /\ UNCHANGED <<config, ctxDone, child, copying, firstErr, watch>>

\* There is nothing to wait for, or all have ended.
AwaitNone == pc = "await" /\ goroutineErr = "nil" /\ Finish("ok")
AwaitCopied == pc \in {"await", "select"} /\ goroutineErr \notin {"nil", "empty"} /\ Finish(goroutineErr)

\* Without WaitDelay Wait stays where it is; with it, it needs a timer.
AwaitTimer ==
    /\ Goto("await", "select")
    /\ goroutineErr # "nil"
    /\ \/ timer # "none" /\ UNCHANGED timer
       \/ timer = "none" /\ delay /\ goroutineErr = "empty" /\ timer' = "running"
    /\ UNCHANGED <<config, ctxDone, child, copy, goroutineErr, err, watch>>

\* Mutant: Wait does not wait for the goroutines whose pipes it has closed.
AwaitExpiredAtOnce ==
    pc = "select" /\ timer = "fired" /\ Finish("ErrWaitDelay")

AwaitExpired ==
    /\ Goto("select", "drain")
    /\ timer = "fired"
    /\ pipes' = "closed"
    /\ UNCHANGED <<config, ctxDone, child, copying, firstErr, goroutineErr, err, watch, timer>>

AwaitDrain == pc = "drain" /\ goroutineErr # "empty" /\ Finish("ErrWaitDelay")

-----------------------------------------------------------------------------
Answers == {"ok", "done", "refused"}

Watch ==
    \/ WatchNothing \/ WatchDone \/ (\E a \in Answers : WatchCancel(a)) \/ WatchHandOver
    \/ WatchExpired \/ (\E a \in Answers : WatchKill(a)) \/ WatchCopied \/ WatchClose
    \/ WatchDrain \/ WatchSend

Caller ==
    \/ StartCheck \/ StartFails \/ Start \/ ProcessWait
    \/ AwaitNone \/ AwaitCopied \/ AwaitTimer \/ AwaitExpired \/ AwaitDrain

Next ==
    \/ ContextDone \/ (\E s \in {"ok", "fail"} : Exits(s)) \/ OrphanExits \/ TimerFires
    \/ \E k \in Copiers : CopyEOF(k) \/ CopyFails(k) \/ CopyClosed(k)
    \/ Caller \/ Watch \/ Wait

Spec == Init /\ [][Next]_vars

\* The goroutines run on, time passes, and the user's readers and writers
\* return.  The child and its descendants need not do anything.
Fairness ==
    /\ WF_vars(Caller) /\ WF_vars(Watch) /\ WF_vars(TimerFires)
    /\ \A k \in Copiers : WF_vars(CopyEOF(k) \/ CopyClosed(k))

FairSpec == Spec /\ Fairness

-----------------------------------------------------------------------------
(* Properties *)

TypeOK ==
    /\ proc \in {"none", "running", "exited", "reaped"}
    /\ status \in {"none", "ok", "fail", "killed"}
    /\ pipes \in {"open", "closed"} /\ copying \subseteq Copiers
    /\ firstErr \in {"ok", "io", "closed"}
    /\ goroutineErr \in {"nil", "empty", "ok", "io", "closed"}
    /\ timer \in {"none", "running", "fired"}

\* "Wait releases any resources associated with the Cmd": when it returns,
\* the child is reaped, every goroutine of the command is over, the pipes are
\* closed and no timer runs.  Wait and watchCtx are never both at the channel
\* of the copiers, and neither waits on it when it is nil.
NothingRunsOn ==
    /\ TypeOK
    /\ pc = "done" => /\ proc = "reaped" /\ copying = {} /\ watcher \in {"none", "done"}
                      /\ pipes = "closed" /\ timer = "none"
    /\ pc \in {"await", "select", "drain"} => watcher \in {"none", "done"}
    /\ pc = "failed" => proc = "none" /\ pipes = "closed"
    /\ pc = "drain" \/ watcher \in {"copiers", "drain"} => goroutineErr # "nil"

\* Wait returns nil only if the child exited with success and its output was
\* copied to the end: no pipe was closed under a copier, and no copier failed
\* (but for a child that watchCtx seems to have killed), and Cancel had not
\* been called in time.
NilMeansComplete ==
    pc = "done" /\ err = "ok" =>
        /\ status = "ok" /\ ~interrupted
        /\ firstErr = "ok" \/ (killed /\ firstErr = "io")

\* WaitDelay bounds Wait: once the context is done or the child has exited,
\* Wait returns, whatever the child and its descendants do, unless the child
\* cannot be killed.
WaitIsBounded ==
    delay /\ pc \in {"wait", "watch", "await", "select", "drain"} /\ (ctxDone \/ proc \in {"exited", "reaped"})
        ~> pc = "done" \/ (werr = "kill" /\ proc = "running")
=============================================================================
