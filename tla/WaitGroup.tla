------------------------------ MODULE WaitGroup ------------------------------
(***************************************************************************)
(* sync.WaitGroup (sync/waitgroup.go), used as its comments ask: an Add    *)
(* that finds the counter at zero comes before the Waits of its round, and *)
(* a new round starts when all Waits of the old one have returned.         *)
(*                                                                         *)
(* A task is at idle, run, or, its Done having set the counter to zero     *)
(* with waiters, at check (before the Load), store and release.  A waiter  *)
(* is at idle, load, cas (the state loaded), sema, or woken (before it     *)
(* looks at the state again).                                              *)
(***************************************************************************)
EXTENDS Integers, FiniteSets

CONSTANTS Tasks, Waiters,
          MaxAdds       \* bound on the calls of Add(1)

VARIABLES
    counter, waiters,   \* the two halves of state
    sema,
    pc,
    loaded,             \* the state a goroutine has loaded
    toRelease,          \* Semreleases a task has yet to make
    adds,               \* calls of Add(1) so far
    pending,            \* the tasks each waiter must see done
    panic

vars == <<counter, waiters, sema, pc, loaded, toRelease, adds, pending, panic>>

Procs == Tasks \cup Waiters
state == <<counter, waiters>>

Init ==
    /\ counter = 0 /\ waiters = 0 /\ sema = 0
    /\ pc = [p \in Procs |-> "idle"]
    /\ loaded = [p \in Procs |-> <<0, 0>>]
    /\ toRelease = [t \in Tasks |-> 0]
    /\ adds = 0 /\ pending = [w \in Waiters |-> {}] /\ panic = {}

Goto(p, from, to) == pc[p] = from /\ pc' = [pc EXCEPT ![p] = to]
Running == {t \in Tasks : pc[t] = "run"}
Waiting == {w \in Waiters : pc[w] # "idle"}

-----------------------------------------------------------------------------
\* Add(1), by Go or before a task is started: from within the program when
\* the counter is zero and nobody waits, or by a running task.
Add(t) ==
    /\ Running = {} => Waiting = {}
    /\ adds < MaxAdds /\ adds' = adds + 1
    /\ Goto(t, "idle", "run")
    /\ counter' = counter + 1
    /\ panic' = IF waiters # 0 /\ counter = 0
                THEN panic \cup {"Add called concurrently with Wait"} ELSE panic
    /\ UNCHANGED <<waiters, sema, loaded, toRelease, pending>>

\* Done, which is Add(-1).
Done(t) ==
    /\ pc[t] = "run"
    /\ counter' = counter - 1
    /\ loaded' = [loaded EXCEPT ![t] = <<counter - 1, waiters>>]
    /\ pc' = [pc EXCEPT ![t] = IF counter - 1 > 0 \/ waiters = 0 THEN "idle" ELSE "check"]
    /\ panic' = IF counter - 1 < 0 THEN panic \cup {"negative WaitGroup counter"} ELSE panic
    /\ pending' = [w \in Waiters |-> pending[w] \ {t}]
    /\ UNCHANGED <<waiters, sema, toRelease, adds>>

\* Mutant: the last Done releases one waiter only.
AddStoreOne(t) ==
    /\ Goto(t, "store", "release")
    /\ counter' = 0 /\ waiters' = 0
    /\ toRelease' = [toRelease EXCEPT ![t] = 1]
    /\ UNCHANGED <<sema, loaded, adds, pending, panic>>

\* Mutant: the waiters are released, but the state is not reset.
AddStoreNoReset(t) ==
    /\ Goto(t, "store", "release")
    /\ toRelease' = [toRelease EXCEPT ![t] = loaded[t][2]]
    /\ UNCHANGED <<counter, waiters, sema, loaded, adds, pending, panic>>

AddCheck(t) ==
    /\ Goto(t, "check", "store")
    /\ panic' = IF state # loaded[t]
                THEN panic \cup {"Add called concurrently with Wait"} ELSE panic
    /\ UNCHANGED <<counter, waiters, sema, loaded, toRelease, adds, pending>>

AddStore(t) ==
    /\ Goto(t, "store", "release")
    /\ counter' = 0 /\ waiters' = 0
    /\ toRelease' = [toRelease EXCEPT ![t] = loaded[t][2]]
    /\ UNCHANGED <<sema, loaded, adds, pending, panic>>

AddRelease(t) ==
    /\ pc[t] = "release"
    /\ sema' = sema + 1
    /\ toRelease' = [toRelease EXCEPT ![t] = @ - 1]
    /\ pc' = [pc EXCEPT ![t] = IF toRelease[t] = 1 THEN "idle" ELSE "release"]
    /\ UNCHANGED <<counter, waiters, loaded, adds, pending, panic>>

-----------------------------------------------------------------------------
Wait(w) ==
    /\ Goto(w, "idle", "load")
    /\ pending' = [pending EXCEPT ![w] = Running]
    /\ UNCHANGED <<counter, waiters, sema, loaded, toRelease, adds, panic>>

WaitLoad(w) ==
    /\ Goto(w, "load", IF counter = 0 THEN "idle" ELSE "cas")
    /\ loaded' = [loaded EXCEPT ![w] = state]
    /\ UNCHANGED <<counter, waiters, sema, toRelease, adds, pending, panic>>

WaitCAS(w) ==
    /\ Goto(w, "cas", IF state = loaded[w] THEN "sema" ELSE "load")
    /\ waiters' = IF state = loaded[w] THEN waiters + 1 ELSE waiters
    /\ UNCHANGED <<counter, sema, loaded, toRelease, adds, pending, panic>>

WaitSema(w) ==
    /\ sema > 0 /\ sema' = sema - 1
    /\ Goto(w, "sema", "woken")
    /\ UNCHANGED <<counter, waiters, loaded, toRelease, adds, pending, panic>>

WaitReturn(w) ==
    /\ Goto(w, "woken", "idle")
    /\ panic' = IF state # <<0, 0>>
                THEN panic \cup {"reused before previous Wait has returned"} ELSE panic
    /\ UNCHANGED <<counter, waiters, sema, loaded, toRelease, adds, pending>>

-----------------------------------------------------------------------------
TaskStep(t) == Done(t) \/ AddCheck(t) \/ AddStore(t) \/ AddRelease(t)
WaitStep(w) == WaitLoad(w) \/ WaitCAS(w) \/ WaitSema(w) \/ WaitReturn(w)

Next ==
    \/ \E t \in Tasks : Add(t) \/ TaskStep(t)
    \/ \E w \in Waiters : Wait(w) \/ WaitStep(w)

Spec == Init /\ [][Next]_vars

\* Tasks end and goroutines run on.
FairSpec ==
    /\ Spec
    /\ \A t \in Tasks : WF_vars(TaskStep(t))
    /\ \A w \in Waiters : WF_vars(WaitStep(w))
-----------------------------------------------------------------------------
(* Properties *)

\* The shape of the state.  The counter is the number of running tasks, and
\* every goroutine at the semaphore is counted once: in the state, among the
\* releases still to be made, or in the semaphore.
TypeOK ==
    /\ counter = Cardinality(Running) /\ waiters \in 0 .. Cardinality(Waiters)
    /\ sema \in 0 .. Cardinality(Waiters) /\ adds \in 0 .. MaxAdds
    /\ \A t \in Tasks : pc[t] \in {"idle", "run", "check", "store", "release"}
    /\ \A w \in Waiters : pc[w] \in {"idle", "load", "cas", "sema", "woken"}
    /\ toRelease \in [Tasks -> 0 .. Cardinality(Waiters)]
    /\ LET releasing == {t \in Tasks : pc[t] = "release"}
       IN  /\ Cardinality(releasing) <= 1
           /\ Cardinality({w \in Waiters : pc[w] = "sema"}) =
                    waiters + sema + (IF releasing = {} THEN 0
                                      ELSE toRelease[CHOOSE t \in releasing : TRUE])

\* When Wait has returned, every task that was running when it was called is
\* done, and no waiter is counted twice or lost; a program that follows the
\* rules sees none of the panics of Add and Wait.
WaitSound ==
    /\ TypeOK /\ panic = {}
    /\ \A w \in Waiters : pc[w] = "idle" => pending[w] = {}

\* Wait returns when the tasks are done.
WaitReturns(w) == pc[w] # "idle" ~> pc[w] = "idle"
=============================================================================
