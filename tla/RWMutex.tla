------------------------------- MODULE RWMutex -------------------------------
(***************************************************************************)
(* sync.RWMutex (sync/rwmutex.go): a reader/writer lock built from a       *)
(* Mutex, two counting semaphores and two atomic counters.  Every atomic   *)
(* operation of the code, and every semaphore operation, is one action;    *)
(* between two of them any other thread may run.  A thread's program       *)
(* counter names the point it has reached:                                 *)
(*                                                                         *)
(*   idle     outside every method of the lock                             *)
(*   rsem     RLock, blocked on readerSem     tryR, tryRcas  TryRLock      *)
(*   reading  holds the lock for reading                                   *)
(*   rslow    rUnlockSlow, before readerWait.Add                           *)
(*   rpost    rUnlockSlow, before Semrelease(writerSem)                    *)
(*   lock     Lock, blocked on w.Lock         trycas         TryLock       *)
(*   announce Lock, w held                                                 *)
(*   addwait  Lock, readers counted           wsem     blocked on writerSem*)
(*   writing  holds the lock for writing                                   *)
(*   unlock   Unlock, releasing the blocked readers one by one             *)
(*   fatal    the method called fatal("sync: ... of unlocked RWMutex")     *)
(*                                                                         *)
(* Threads unlock only what they hold; a lock taken by one goroutine and   *)
(* released by another is one thread of the model.                         *)
(***************************************************************************)
EXTENDS Integers, FiniteSets

CONSTANTS Threads,      \* the goroutines that share the lock
          NoThread,     \* the owner of a free Mutex
          MaxReaders    \* rwmutexMaxReaders

ASSUME ThreadsAssumption ==
    /\ IsFiniteSet(Threads)
    /\ NoThread \notin Threads
    /\ MaxReaders \in Nat
    /\ Cardinality(Threads) < MaxReaders

VARIABLES w,            \* the thread that holds the Mutex rw.w
          writerSem,    \* permits of the writers' semaphore
          readerSem,    \* permits of the readers' semaphore
          readerCount,
          readerWait,
          pc,
          r             \* the local r (or c, in TryRLock) of each thread

vars == <<w, writerSem, readerSem, readerCount, readerWait, pc, r>>

Points == {"idle", "rsem", "reading", "rslow", "rpost", "tryR", "tryRcas",
           "lock", "announce", "addwait", "wsem", "writing", "unlock",
           "trycas", "fatal"}

Init ==
    /\ w = NoThread
    /\ writerSem = 0
    /\ readerSem = 0
    /\ readerCount = 0
    /\ readerWait = 0
    /\ pc = [t \in Threads |-> "idle"]
    /\ r = [t \in Threads |-> 0]

Goto(t, from, to) ==
    /\ pc[t] = from
    /\ pc' = [pc EXCEPT ![t] = to]

-----------------------------------------------------------------------------
(* Readers *)

\* RLock: readerCount.Add(1); a negative result says a writer is pending.
RLock(t) ==
    /\ readerCount' = readerCount + 1
    /\ Goto(t, "idle", IF readerCount + 1 < 0 THEN "rsem" ELSE "reading")
    /\ UNCHANGED <<w, writerSem, readerSem, readerWait, r>>

RLockSem(t) ==
    /\ readerSem > 0
    /\ readerSem' = readerSem - 1
    /\ Goto(t, "rsem", "reading")
    /\ UNCHANGED <<w, writerSem, readerCount, readerWait, r>>

\* TryRLock: one turn of its loop is a load and a compare-and-swap.
TryRLock(t) ==
    /\ Goto(t, "idle", "tryR")
    /\ UNCHANGED <<w, writerSem, readerSem, readerCount, readerWait, r>>

TryRLockLoad(t) ==
    /\ Goto(t, "tryR", IF readerCount < 0 THEN "idle" ELSE "tryRcas")
    /\ r' = [r EXCEPT ![t] = IF readerCount < 0 THEN 0 ELSE readerCount]
    /\ UNCHANGED <<w, writerSem, readerSem, readerCount, readerWait>>

TryRLockCAS(t) ==
    /\ Goto(t, "tryRcas", IF readerCount = r[t] THEN "reading" ELSE "tryR")
    /\ readerCount' = IF readerCount = r[t] THEN r[t] + 1 ELSE readerCount
    /\ r' = [r EXCEPT ![t] = 0]
    /\ UNCHANGED <<w, writerSem, readerSem, readerWait>>

RUnlock(t) ==
    /\ readerCount' = readerCount - 1
    /\ Goto(t, "reading", IF readerCount - 1 < 0 THEN "rslow" ELSE "idle")
    /\ r' = [r EXCEPT ![t] = IF readerCount - 1 < 0 THEN readerCount - 1 ELSE 0]
    /\ UNCHANGED <<w, writerSem, readerSem, readerWait>>

RUnlockSlow(t) ==
    LET unlocked == r[t] + 1 = 0 \/ r[t] + 1 = -MaxReaders
    IN  /\ readerWait' = IF unlocked THEN readerWait ELSE readerWait - 1
        /\ Goto(t, "rslow", IF unlocked THEN "fatal"
                            ELSE IF readerWait - 1 = 0 THEN "rpost" ELSE "idle")
        /\ r' = [r EXCEPT ![t] = 0]
        /\ UNCHANGED <<w, writerSem, readerSem, readerCount>>

RUnlockPost(t) ==
    /\ Goto(t, "rpost", "idle")
    /\ writerSem' = writerSem + 1
    /\ UNCHANGED <<w, readerSem, readerCount, readerWait, r>>

-----------------------------------------------------------------------------
(* Writers *)

Lock(t) ==
    /\ Goto(t, "idle", "lock")
    /\ UNCHANGED <<w, writerSem, readerSem, readerCount, readerWait, r>>

LockW(t) ==
    /\ w = NoThread
    /\ w' = t
    /\ Goto(t, "lock", "announce")
    /\ UNCHANGED <<writerSem, readerSem, readerCount, readerWait, r>>

\* Mutant: the writer waits for the readers to leave before it announces itself.
LockAnnounceLate(t) ==
    /\ readerCount = 0
    /\ readerCount' = -MaxReaders
    /\ Goto(t, "announce", "writing")
    /\ UNCHANGED <<w, writerSem, readerSem, readerWait, r>>

LockAnnounce(t) ==
    /\ readerCount' = readerCount - MaxReaders
    /\ r' = [r EXCEPT ![t] = readerCount]
    /\ Goto(t, "announce", IF readerCount # 0 THEN "addwait" ELSE "writing")
    /\ UNCHANGED <<w, writerSem, readerSem, readerWait>>

\* Mutant: the writer tests the readerWait it read, not the sum.
LockAddWaitStale(t) ==
    /\ readerWait' = readerWait + r[t]
    /\ r' = [r EXCEPT ![t] = 0]
    /\ Goto(t, "addwait", IF readerWait # 0 THEN "wsem" ELSE "writing")
    /\ UNCHANGED <<w, writerSem, readerSem, readerCount>>

LockAddWait(t) ==
    /\ readerWait' = readerWait + r[t]
    /\ r' = [r EXCEPT ![t] = 0]
    /\ Goto(t, "addwait", IF readerWait + r[t] # 0 THEN "wsem" ELSE "writing")
    /\ UNCHANGED <<w, writerSem, readerSem, readerCount>>

LockSem(t) ==
    /\ writerSem > 0
    /\ writerSem' = writerSem - 1
    /\ Goto(t, "wsem", "writing")
    /\ UNCHANGED <<w, readerSem, readerCount, readerWait, r>>

\* TryLock that finds w taken returns false and changes nothing.
TryLock(t) ==
    /\ w = NoThread
    /\ w' = t
    /\ Goto(t, "idle", "trycas")
    /\ UNCHANGED <<writerSem, readerSem, readerCount, readerWait, r>>

TryLockCAS(t) ==
    /\ Goto(t, "trycas", IF readerCount = 0 THEN "writing" ELSE "idle")
    /\ readerCount' = IF readerCount = 0 THEN -MaxReaders ELSE readerCount
    /\ w' = IF readerCount = 0 THEN w ELSE NoThread
    /\ UNCHANGED <<writerSem, readerSem, readerWait, r>>

Unlock(t) ==
    /\ readerCount' = readerCount + MaxReaders
    /\ Goto(t, "writing", IF readerCount + MaxReaders >= MaxReaders
                          THEN "fatal" ELSE "unlock")
    /\ r' = [r EXCEPT ![t] = readerCount + MaxReaders]
    /\ UNCHANGED <<w, writerSem, readerSem, readerWait>>

UnlockRelease(t) ==
    /\ pc[t] = "unlock"
    /\ r[t] > 0
    /\ readerSem' = readerSem + 1
    /\ r' = [r EXCEPT ![t] = @ - 1]
    /\ UNCHANGED <<w, writerSem, readerCount, readerWait, pc>>

UnlockW(t) ==
    /\ r[t] = 0
    /\ w' = NoThread
    /\ Goto(t, "unlock", "idle")
    /\ UNCHANGED <<writerSem, readerSem, readerCount, readerWait, r>>

-----------------------------------------------------------------------------
\* The steps a thread takes inside a method it has called.
Step(t) ==
    \/ RLockSem(t) \/ TryRLockLoad(t) \/ TryRLockCAS(t)
    \/ RUnlockSlow(t) \/ RUnlockPost(t)
    \/ LockW(t) \/ LockAnnounce(t) \/ LockAddWait(t) \/ LockSem(t)
    \/ TryLockCAS(t) \/ UnlockRelease(t) \/ UnlockW(t)

\* The calls its client makes.
Call(t) == RLock(t) \/ TryRLock(t) \/ Lock(t) \/ TryLock(t)
Leave(t) == RUnlock(t) \/ Unlock(t)

Next == \E t \in Threads : Step(t) \/ Call(t) \/ Leave(t)

Spec == Init /\ [][Next]_vars

\* A thread inside a method keeps running, a client gives back the lock it
\* holds, and the Mutex and the semaphores do not pass over a waiter for ever
\* (Go's Mutex has a starvation mode; its semaphores queue their waiters).
Fairness ==
    \A t \in Threads :
        /\ WF_vars(Step(t))
        /\ WF_vars(Leave(t))
        /\ SF_vars(LockW(t))
        /\ SF_vars(RLockSem(t))

FairSpec == Spec /\ Fairness

-----------------------------------------------------------------------------
(* Properties *)

\* Every variable has its type; the semaphores never go negative.
TypeOK ==
    /\ w \in Threads \cup {NoThread}
    /\ writerSem \in Nat
    /\ readerSem \in Nat
    /\ readerCount \in Int
    /\ readerWait \in Int
    /\ pc \in [Threads -> Points]
    /\ r \in [Threads -> Int]

\* The lock is held by any number of readers or by a single writer.
MutualExclusion ==
    \A t, u \in Threads :
        pc[t] = "writing" /\ u # t => pc[u] \notin {"reading", "writing"}

\* The checks of rUnlockSlow and Unlock for an unlocked RWMutex never fire on
\* threads that unlock only what they hold.
NoSpuriousFatal == \A t \in Threads : pc[t] # "fatal"

\* syscall_hasWaitingReaders
hasWaitingReaders == readerCount < 0 /\ readerCount + MaxReaders > 0

\* To the thread that holds the lock for writing (syscall's fork code),
\* hasWaitingReaders says exactly whether a reader is blocked in RLock.
WaitingReadersExact ==
    (\E t \in Threads : pc[t] = "writing") =>
        (hasWaitingReaders <=> \E t \in Threads : pc[t] = "rsem")

\* When every thread has left, the lock is as new: no permit is left in a
\* semaphore and no count is off, so the next episode starts from zero.
QuiescentIsFresh ==
    (\A t \in Threads : pc[t] = "idle") =>
        /\ w = NoThread
        /\ writerSem = 0 /\ readerSem = 0
        /\ readerCount = 0 /\ readerWait = 0

\* A Lock call returns, however many readers keep coming: once it has
\* announced itself, later readers block behind it.  An RLock call that found a
\* writer pending returns.
LockReturns(t) ==
    /\ pc[t] = "lock" ~> pc[t] = "writing"
    /\ pc[t] = "rsem" ~> pc[t] = "reading"

-----------------------------------------------------------------------------
(* The inductive invariant *)

At(p) == {t \in Threads : pc[t] = p}
Num(p) == Cardinality(At(p))

\* A writer has announced itself and has not yet unlocked.
Pending == w # NoThread /\ pc[w] \in {"addwait", "wsem", "writing"}

\* A thread holds the Mutex w exactly between w.Lock and w.Unlock.
OwnerInv ==
    \A t \in Threads :
        w = t <=> pc[t] \in {"announce", "trycas", "addwait", "wsem",
                            "writing", "unlock"}

\* What a thread's local holds where the code is about to use it.
LocalInv ==
    \A t \in Threads :
        /\ pc[t] = "rslow" => -MaxReaders < r[t] + 1 /\ r[t] + 1 < 0
        /\ pc[t] \in {"tryRcas", "addwait", "unlock"} => r[t] >= 0
        /\ pc[t] # "fatal"

\* readerCount counts the readers inside, less MaxReaders for a pending writer.
CountInv ==
    /\ readerCount = Num("reading") + Num("rsem") - (IF Pending THEN MaxReaders ELSE 0)
    /\ Num("rsem") >= readerSem

\* With no writer pending, nobody is departing, and the blocked readers are
\* those whose permits have been, or are still being, released.
FreeInv ==
    ~Pending =>
        /\ readerWait = 0 /\ writerSem = 0
        /\ Num("rslow") = 0 /\ Num("rpost") = 0
        /\ Num("rsem") = readerSem + (IF w # NoThread /\ pc[w] = "unlock"
                                      THEN r[w] ELSE 0)

\* A pending writer waits for the readers that hold the lock, for those about
\* to take a permit already released, and for those in rUnlockSlow.  Before
\* the writer adds r to readerWait, departed readers have made it negative.
AddWaitInv(t) ==
    pc[t] = "addwait" =>
        /\ readerWait + r[t] = Num("reading") + readerSem + Num("rslow")
        /\ readerWait <= 0 /\ writerSem = 0 /\ Num("rpost") = 0

WSemInv(t) ==
    pc[t] = "wsem" =>
        /\ readerWait = Num("reading") + readerSem + Num("rslow")
        /\ writerSem + Num("rpost") = IF readerWait = 0 THEN 1 ELSE 0

WritingInv(t) ==
    pc[t] = "writing" =>
        /\ Num("reading") = 0 /\ readerSem = 0 /\ Num("rslow") = 0
        /\ readerWait = 0 /\ writerSem = 0 /\ Num("rpost") = 0

PendingInv == \A t \in Threads : AddWaitInv(t) /\ WSemInv(t) /\ WritingInv(t)

IInv == TypeOK /\ OwnerInv /\ LocalInv /\ CountInv /\ FreeInv /\ PendingInv
=============================================================================
