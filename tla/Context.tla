------------------------------- MODULE Context -------------------------------
(***************************************************************************)
(* Cancellation in package context (context/context.go): cancelCtx,        *)
(* timerCtx and the afterFuncCtx behind AfterFunc, derived from one        *)
(* another, from a root cancelCtx and from a foreign Context, a type of    *)
(* another package, with or without an AfterFunc method.                   *)
(*                                                                         *)
(* cancel locks a context and, holding it, calls cancel of its children:   *)
(* each goroutine has a stack of frames.  A frame of cancel on the context *)
(* c is at                                                                 *)
(*   cancel    before c.mu.Lock          close     err stored, done open   *)
(*   children  cancelling the children   remove    before removeChild      *)
(*   post      before the rest of timerCtx.cancel or afterFuncCtx.cancel   *)
(* and one that makes c (propagateCancel, then WithDeadlineCause) at       *)
(*   done      before parent.Done()      select    done in hand            *)
(*   already   the parent is canceled    register  it was not              *)
(*   unlock    parent.mu held, c canceled          made   propagated       *)
(*   expired   c canceled at once, its deadline passed                     *)
(* and one of Err at errwait, a non-nil error loaded.                      *)
(***************************************************************************)
EXTENDS Naturals, Sequences, FiniteSets

CONSTANTS Clients,      \* goroutines that make and cancel contexts
          Ctxs,         \* the contexts to be made
          Root,         \* a cancelCtx
          Foreign,      \* a Context of another package
          Roots,        \* those of Root and Foreign the program starts with
          AfterFuncer,  \* does Foreign have an AfterFunc method?
          Kinds,        \* the kinds of context made
          Causes,       \* causes given to a CancelCauseFunc
          Nil

VARIABLES
    parent, kind, children, lock, err, cause, done,
    timer,      \* of a timerCtx
    once,       \* of an afterFuncCtx: has f run, or been stopped?
    watch,      \* the goroutine, or AfterFunc call, that watches Foreign
    returned,   \* contexts handed to the program
    expired,    \* contexts made with a deadline that had passed
    stack

fields == <<children, lock, err, cause, done>>
made == <<parent, kind, returned, expired>>
vars == <<parent, kind, children, lock, err, cause, done, timer, once, watch,
          returned, expired, stack>>

Timer(c) == <<"timer", c>>
Watcher(c) == <<"watcher", c>>
Procs == Clients \cup {Timer(c) : c \in Ctxs} \cup {Watcher(c) : c \in Ctxs}
Nodes == Ctxs \cup {Root, Foreign}

Canceled == "Canceled"
DeadlineExceeded == "DeadlineExceeded"

Init ==
    /\ parent = [n \in Nodes |-> Nil] /\ kind = [n \in Nodes |-> "cancel"]
    /\ children = [n \in Nodes |-> {}] /\ lock = [n \in Nodes |-> Nil]
    /\ err = [n \in Nodes |-> Nil] /\ cause = [n \in Nodes |-> Nil]
    /\ done = [n \in Nodes |-> "nil"]
    /\ timer = [n \in Nodes |-> "nil"] /\ once = [n \in Nodes |-> "unset"]
    /\ watch = [n \in Nodes |-> "off"]
    /\ returned = Roots /\ expired = {}
    /\ stack = [g \in Procs |-> <<>>]

-----------------------------------------------------------------------------
(* Frames *)

Frame(c, at, rm, e, k) ==
    [c |-> c, at |-> at, removeFromParent |-> rm, err |-> e,
     cause |-> IF k = Nil THEN e ELSE k, rest |-> {}]

Cancel(c, rm, e, k) == Frame(c, "cancel", rm, e, k)

At(g, at) == stack[g] # <<>> /\ Head(stack[g]).at = at
Here(g) == Head(stack[g]).c
Start(g, f) == stack[g] = <<>> /\ stack' = [stack EXCEPT ![g] = <<f>>]
Goto(g, at) == stack' = [stack EXCEPT ![g] = <<[Head(@) EXCEPT !.at = at]>> \o Tail(@)]
Return(g) == stack' = [stack EXCEPT ![g] = Tail(@)]

\* Frame f is called; the caller goes on at `at`.
Call(g, f, at) ==
    stack' = [stack EXCEPT ![g] = <<f, [Head(@) EXCEPT !.at = at]>> \o Tail(@)]

Free(c) == lock[c] = Nil
IsClosed(c) == done[c] \in {"closed", "closedchan"}

-----------------------------------------------------------------------------
(* cancel *)

\* Mutant: cancel does not look at c.err.
CancelLockAgain(g) ==
    LET f == Head(stack[g])
        c == Here(g)
    IN  /\ At(g, "cancel") /\ Free(c)
        /\ lock' = [lock EXCEPT ![c] = g]
        /\ err' = [err EXCEPT ![c] = f.err]
        /\ cause' = [cause EXCEPT ![c] = f.cause]
        /\ Goto(g, "close")
        /\ UNCHANGED <<children, done, timer, once, watch, made>>

\* Only the first cancel of c does anything; a timerCtx and an afterFuncCtx
\* go on after their embedded cancelCtx was found canceled.
CancelLock(g) ==
    LET f == Head(stack[g])
        c == Here(g)
    IN  /\ At(g, "cancel") /\ Free(c)
        /\ IF err[c] # Nil
           THEN /\ IF kind[c] = "cancel" THEN Return(g) ELSE Goto(g, "remove")
                /\ UNCHANGED <<lock, err, cause>>
           ELSE /\ lock' = [lock EXCEPT ![c] = g]
                /\ err' = [err EXCEPT ![c] = f.err]
                /\ cause' = [cause EXCEPT ![c] = f.cause]
                /\ Goto(g, "close")
        /\ UNCHANGED <<children, done, timer, once, watch, made>>

\* A done channel nobody asked for is replaced by closedchan.
CancelClose(g) ==
    LET c == Here(g)
    IN  /\ At(g, "close")
        /\ done' = [done EXCEPT ![c] = IF @ = "nil" THEN "closedchan" ELSE "closed"]
        /\ stack' = [stack EXCEPT ![g] = <<[Head(@) EXCEPT !.at = "children",
                                                          !.rest = children[c]]>> \o Tail(@)]
        /\ UNCHANGED <<children, lock, err, cause, timer, once, watch, made>>

\* The children are canceled while the lock of c is held.
CancelChild(g) ==
    LET f == Head(stack[g])
    IN  /\ At(g, "children")
        /\ \E child \in f.rest :
            stack' = [stack EXCEPT ![g] = <<Cancel(child, FALSE, f.err, f.cause),
                                            [f EXCEPT !.rest = @ \ {child}]>> \o Tail(@)]
        /\ UNCHANGED <<fields, timer, once, watch, made>>

CancelUnlock(g) ==
    LET c == Here(g)
    IN  /\ At(g, "children") /\ Head(stack[g]).rest = {}
        /\ children' = [children EXCEPT ![c] = {}]
        /\ lock' = [lock EXCEPT ![c] = Nil]
        /\ Goto(g, "remove")
        /\ UNCHANGED <<err, cause, done, timer, once, watch, made>>

\* removeChild, and what is left of cancel for a plain cancelCtx: nothing.
RemoveChild(g) ==
    LET c == Here(g)
        p == parent[c]
        removes == Head(stack[g]).removeFromParent
    IN  /\ At(g, "remove")
        /\ IF removes /\ p \notin {Nil, Foreign} /\ done[p] # "closedchan"
           THEN Free(p) /\ children' = [children EXCEPT ![p] = @ \ {c}]
           ELSE UNCHANGED children
        /\ watch' = IF removes /\ p = Foreign /\ watch[c] = "registered"
                    THEN [watch EXCEPT ![c] = "off"] ELSE watch
        /\ IF kind[c] = "cancel" THEN Return(g) ELSE Goto(g, "post")
        /\ UNCHANGED <<lock, err, cause, done, timer, once, made>>

\* Mutant: timerCtx.cancel does not stop the timer.
CancelPostKeepsTimer(g) ==
    LET c == Here(g)
    IN  /\ At(g, "post")
        /\ once' = [once EXCEPT ![c] = IF kind[c] = "after" /\ @ = "unset" THEN "ran" ELSE @]
        /\ Return(g)
        /\ UNCHANGED <<fields, timer, watch, made>>

\* Mutant: afterFuncCtx.cancel does not start f.
CancelPostNoF(g) ==
    LET c == Here(g)
    IN  /\ At(g, "post")
        /\ kind[c] = "timer" => Free(c)
        /\ timer' = [timer EXCEPT ![c] = IF @ = "armed" THEN "stopped" ELSE @]
        /\ Return(g)
        /\ UNCHANGED <<fields, once, watch, made>>

\* timerCtx.cancel stops the timer; afterFuncCtx.cancel starts f.
CancelPost(g) ==
    LET c == Here(g)
    IN  /\ At(g, "post")
        /\ kind[c] = "timer" => Free(c)
        /\ timer' = [timer EXCEPT ![c] = IF @ = "armed" THEN "stopped" ELSE @]
        /\ once' = [once EXCEPT ![c] = IF kind[c] = "after" /\ @ = "unset" THEN "ran" ELSE @]
        /\ Return(g)
        /\ UNCHANGED <<fields, watch, made>>

-----------------------------------------------------------------------------
(* WithCancel, WithDeadlineCause and AfterFunc; propagateCancel *)

Make(g, c, p, k) ==
    /\ parent[c] = Nil /\ p \in returned /\ kind[p] # "after"
    /\ Start(g, Frame(c, "done", FALSE, Nil, Nil))
    /\ parent' = [parent EXCEPT ![c] = p]
    /\ kind' = [kind EXCEPT ![c] = k]
    /\ UNCHANGED <<fields, timer, once, watch, returned, expired>>

\* parent.Done() makes the channel when there is none.
PropagateDone(g) ==
    LET p == parent[Here(g)]
    IN  /\ At(g, "done")
        /\ done[p] = "nil" => Free(p)
        /\ done' = [done EXCEPT ![p] = IF @ = "nil" THEN "open" ELSE @]
        /\ Goto(g, "select")
        /\ UNCHANGED <<children, lock, err, cause, timer, once, watch, made>>

PropagateSelect(g) ==
    /\ At(g, "select")
    /\ Goto(g, IF IsClosed(parent[Here(g)]) THEN "already" ELSE "register")
    /\ UNCHANGED <<fields, timer, once, watch, made>>

\* Cause(parent) locks the parent, and unlocks it before child.cancel.
PropagateAlready(g) ==
    LET c == Here(g)
        p == parent[c]
    IN  /\ At(g, "already") /\ Free(p)
        /\ Call(g, Cancel(c, FALSE, err[p], cause[p]), "made")
        /\ UNCHANGED <<fields, timer, once, watch, made>>

\* Mutant: the parent is not looked at again under its lock.
PropagateRegisterUnchecked(g) ==
    LET c == Here(g)
        p == parent[c]
    IN  /\ At(g, "register") /\ p # Foreign /\ Free(p)
        /\ children' = [children EXCEPT ![p] = @ \cup {c}]
        /\ Goto(g, "made")
        /\ UNCHANGED <<lock, err, cause, done, timer, once, watch, made>>

\* parent.mu is held while a child that came too late is canceled.
PropagateRegister(g) ==
    LET c == Here(g)
        p == parent[c]
    IN  /\ At(g, "register") /\ p # Foreign /\ Free(p)
        /\ IF err[p] # Nil
           THEN /\ lock' = [lock EXCEPT ![p] = g]
                /\ Call(g, Cancel(c, FALSE, err[p], cause[p]), "unlock")
                /\ UNCHANGED children
           ELSE /\ children' = [children EXCEPT ![p] = @ \cup {c}]
                /\ Goto(g, "made")
                /\ UNCHANGED lock
        /\ UNCHANGED <<err, cause, done, timer, once, watch, made>>

PropagateUnlock(g) ==
    /\ At(g, "unlock")
    /\ lock' = [lock EXCEPT ![parent[Here(g)]] = Nil]
    /\ Goto(g, "made")
    /\ UNCHANGED <<children, err, cause, done, timer, once, watch, made>>

\* A foreign parent is asked to call back, or watched by a goroutine.
PropagateForeign(g) ==
    LET c == Here(g)
    IN  /\ At(g, "register") /\ parent[c] = Foreign
        /\ watch' = [watch EXCEPT ![c] = IF AfterFuncer THEN "registered" ELSE "start"]
        /\ Goto(g, "made")
        /\ UNCHANGED <<fields, timer, once, made>>

\* The timer is armed unless the parent has canceled c meanwhile.
MadeReturn(g) ==
    LET c == Here(g)
    IN  /\ At(g, "made")
        /\ kind[c] = "timer" => Free(c)
        /\ timer' = [timer EXCEPT ![c] = IF kind[c] = "timer" /\ err[c] = Nil
                                         THEN "armed" ELSE @]
        /\ returned' = returned \cup {c}
        /\ Return(g)
        /\ UNCHANGED <<fields, once, watch, parent, kind, expired>>

MadeExpired(g) ==
    LET c == Here(g)
    IN  /\ At(g, "made") /\ kind[c] = "timer"
        /\ Call(g, Cancel(c, TRUE, DeadlineExceeded, Nil), "expired")
        /\ UNCHANGED <<fields, timer, once, watch, made>>

ExpiredReturn(g) ==
    LET c == Here(g)
    IN  /\ At(g, "expired")
        /\ returned' = returned \cup {c} /\ expired' = expired \cup {c}
        /\ Return(g)
        /\ UNCHANGED <<fields, timer, once, watch, parent, kind>>

-----------------------------------------------------------------------------
(* What the program calls, the timers, and the watchers of Foreign *)

CancelFunc(g, c, k) ==
    /\ c \in returned \ {Foreign} /\ kind[c] # "after"
    /\ k # Nil => kind[c] = "cancel"
    /\ Start(g, Cancel(c, c \notin expired, Canceled, k))
    /\ UNCHANGED <<fields, timer, once, watch, made>>

\* The stop function of AfterFunc; it does nothing when once is set.
Stop(g, c) ==
    /\ c \in returned /\ kind[c] = "after" /\ stack[g] = <<>>
    /\ IF once[c] = "unset"
       THEN /\ once' = [once EXCEPT ![c] = "stopped"]
            /\ Start(g, Cancel(c, TRUE, Canceled, Nil))
       ELSE UNCHANGED <<once, stack>>
    /\ UNCHANGED <<fields, timer, watch, made>>

ErrLoad(g, c) ==
    /\ c \in returned \ {Foreign} /\ kind[c] # "after" /\ err[c] # Nil
    /\ Start(g, Frame(c, "errwait", FALSE, Nil, Nil))
    /\ UNCHANGED <<fields, timer, once, watch, made>>

ErrWait(g) ==
    /\ At(g, "errwait") /\ IsClosed(Here(g))
    /\ Return(g)
    /\ UNCHANGED <<fields, timer, once, watch, made>>

TimerFires(c) ==
    /\ timer[c] = "armed"
    /\ timer' = [timer EXCEPT ![c] = "fired"]
    /\ Start(Timer(c), Cancel(c, TRUE, DeadlineExceeded, Nil))
    /\ UNCHANGED <<fields, once, watch, made>>

ForeignEnds ==
    /\ Foreign \in Roots /\ err[Foreign] = Nil
    /\ err' = [err EXCEPT ![Foreign] = Canceled]
    /\ cause' = [cause EXCEPT ![Foreign] = Canceled]
    /\ done' = [done EXCEPT ![Foreign] = "closed"]
    /\ UNCHANGED <<children, lock, timer, once, watch, made, stack>>

\* The goroutine gets the two channels of its select.
WatchStart(c) ==
    /\ watch[c] = "start"
    /\ done[c] = "nil" => Free(c)
    /\ done' = [done EXCEPT ![c] = IF @ = "nil" THEN "open" ELSE @]
    /\ watch' = [watch EXCEPT ![c] = "select"]
    /\ UNCHANGED <<children, lock, err, cause, timer, once, made, stack>>

WatchParent(c) ==
    /\ watch[c] \in {"select", "registered"} /\ IsClosed(Foreign)
    /\ watch' = [watch EXCEPT ![c] = "off"]
    /\ Start(Watcher(c), Cancel(c, FALSE, err[Foreign], cause[Foreign]))
    /\ UNCHANGED <<fields, timer, once, made>>

WatchChild(c) ==
    /\ watch[c] = "select" /\ IsClosed(c)
    /\ watch' = [watch EXCEPT ![c] = "off"]
    /\ UNCHANGED <<fields, timer, once, made, stack>>

-----------------------------------------------------------------------------
Step(g) ==
    \/ CancelLock(g) \/ CancelClose(g) \/ CancelChild(g) \/ CancelUnlock(g)
    \/ RemoveChild(g) \/ CancelPost(g)
    \/ PropagateDone(g) \/ PropagateSelect(g) \/ PropagateAlready(g)
    \/ PropagateRegister(g) \/ PropagateUnlock(g) \/ PropagateForeign(g)
    \/ MadeReturn(g) \/ MadeExpired(g) \/ ExpiredReturn(g) \/ ErrWait(g)

Watch(c) == WatchStart(c) \/ WatchParent(c) \/ WatchChild(c)

Calls(g) ==
    \E c \in Nodes :
        \/ c \in Ctxs /\ \E p \in Nodes, k \in Kinds : Make(g, c, p, k)
        \/ \E k \in Causes \cup {Nil} : CancelFunc(g, c, k)
        \/ Stop(g, c) \/ ErrLoad(g, c)

Next ==
    \/ \E g \in Clients : Calls(g)
    \/ \E g \in Procs : Step(g)
    \/ \E c \in Ctxs : Watch(c) \/ TimerFires(c)
    \/ ForeignEnds

Spec == Init /\ [][Next]_vars

\* Goroutines run.  Weak fairness is enough: a lock is asked for finitely often.
Fairness ==
    /\ \A g \in Procs : WF_vars(Step(g))
    /\ \A c \in Ctxs : WF_vars(Watch(c))

FairSpec == Spec /\ Fairness

-----------------------------------------------------------------------------
(* Properties *)

\* The shape of the contexts; a lock is held by a goroutine in one of its calls.
TypeOK ==
    /\ parent \in [Nodes -> Nodes \cup {Nil}]
    /\ kind \in [Nodes -> {"cancel", "timer", "after"}]
    /\ children \in [Nodes -> SUBSET Ctxs] /\ lock \in [Nodes -> Procs \cup {Nil}]
    /\ err \in [Nodes -> {Nil, Canceled, DeadlineExceeded}]
    /\ cause \in [Nodes -> Causes \cup {Nil, Canceled, DeadlineExceeded}]
    /\ done \in [Nodes -> {"nil", "open", "closed", "closedchan"}]
    /\ timer \in [Nodes -> {"nil", "armed", "stopped", "fired"}]
    /\ once \in [Nodes -> {"unset", "ran", "stopped"}]
    /\ watch \in [Nodes -> {"off", "start", "select", "registered"}]
    /\ returned \subseteq Nodes /\ expired \subseteq Ctxs
    /\ \A n \in Nodes : lock[n] # Nil => stack[lock[n]] # <<>>

\* The contexts derived from p directly, that the program has.
Derived(p) == {c \in returned : parent[c] = p}

\* Cancellation has reached every context derived from p when the lock of p
\* is free again, so when CancelFunc returns: a context that is being made
\* meanwhile is not missed.
CancelIsComplete ==
    /\ TypeOK
    /\ \A p \in Nodes \ {Foreign} :
        err[p] # Nil /\ Free(p) => \A c \in Derived(p) : err[c] # Nil

\* The first cancellation counts: neither the error nor the cause changes,
\* and a context whose parent was canceled before has the parent's cause.
FirstCancelWins ==
    [][\A c \in Nodes :
        /\ err[c] # Nil => err'[c] = err[c] /\ cause'[c] = cause[c]
        /\ err[c] = Nil /\ err'[c] # Nil /\ parent[c] # Nil /\ parent[c] # Foreign
           /\ err[parent[c]] # Nil /\ Free(parent[c]) /\ c \notin returned
            => cause'[c] = cause[parent[c]]]_vars

\* When nobody is in a call, a canceled context has left nothing behind: it is
\* not in the map of its parent, its timer is stopped, nobody watches Foreign
\* for it; and one that is not canceled is in the map.  The function given to
\* AfterFunc has run only if the context was canceled.
NothingLeft ==
    /\ \A c \in Ctxs : once[c] = "ran" => err[parent[c]] # Nil
    /\ (\A g \in Procs : stack[g] = <<>>) =>
        /\ \A p \in Nodes \ {Foreign} : children[p] = {c \in Derived(p) : err[c] = Nil}
        /\ \A c \in Ctxs : err[c] # Nil =>
            timer[c] # "armed" /\ watch[c] \in {"off", "start", "select"}

\* A context is canceled when its parent is, a foreign parent too; and then a
\* function given to AfterFunc is started, or was stopped.  The goroutine that
\* watches a foreign parent ends when its context does.
CancelReaches ==
    \A c \in Ctxs :
        /\ (c \in returned /\ err[parent[c]] # Nil)
                ~> err[c] # Nil /\ (kind[c] = "after" => once[c] # "unset")
        /\ (err[c] # Nil) ~> watch[c] = "off"
=============================================================================
