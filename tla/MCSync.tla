------------------------------- MODULE MCSync -------------------------------
(***************************************************************************)
(* The locks of package sync for TLC: an RWMutex or a WaitGroup.  A        *)
(* behaviour is one of a single part, chosen in the initial state; the     *)
(* other part stays as it is initially.                                    *)
(***************************************************************************)
EXTENDS RWMutex

CONSTANTS Tasks, Waiters, MaxAdds

VARIABLES
    part,
    counter, waiters, sema, wpc, loaded, toRelease, adds, pending, panic

WG == INSTANCE WaitGroup WITH pc <- wpc

wgVars == <<counter, waiters, sema, wpc, loaded, toRelease, adds, pending, panic>>

MCInit == part \in {"rwmutex", "waitgroup"} /\ Init /\ WG!Init

MCNext ==
    \/ part = "rwmutex" /\ Next /\ UNCHANGED <<part, wgVars>>
    \/ part = "waitgroup" /\ WG!Next /\ UNCHANGED <<part, vars>>

\* The fairness of the part that runs, as its module states it.
MCFairness ==
    /\ \A t \in Threads :
        /\ WF_vars(part = "rwmutex" /\ Step(t))
        /\ WF_vars(part = "rwmutex" /\ Leave(t))
        /\ SF_vars(part = "rwmutex" /\ LockW(t))
        /\ SF_vars(part = "rwmutex" /\ RLockSem(t))
    /\ \A k \in Tasks : WF_wgVars(part = "waitgroup" /\ WG!TaskStep(k))
    /\ \A x \in Waiters : WF_wgVars(part = "waitgroup" /\ WG!WaitStep(x))

MCSpec == MCInit /\ [][MCNext]_<<part, vars, wgVars>> /\ MCFairness

\* WaitGroup.Wait returns only when the tasks it waits for are done, no waiter
\* is lost, and the misuse panics stay silent (WaitSound of WaitGroup).
WaitSound == WG!WaitSound

\* A blocked Lock or RLock returns (LockReturns of RWMutex), for one thread,
\* which stands for all: they are interchangeable.
LockProgress == LockReturns(CHOOSE t \in Threads : TRUE)

\* WaitGroup.Wait returns when the tasks are done (WaitReturns of WaitGroup),
\* for one of the interchangeable waiters.
WaitProgress == WG!WaitReturns(CHOOSE x \in Waiters : TRUE)

=============================================================================
