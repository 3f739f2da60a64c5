---------------------------- MODULE SyncProofs ----------------------------
(***************************************************************************)
(* Proofs about RWMutex and WaitGroup, for every finite set of threads, of *)
(* tasks and of waiters (MCSync extends the one and instantiates the       *)
(* other).  The arguments are of counting.  IInv of RWMutex says how many  *)
(* threads stand at each point of the code in terms of the two counters    *)
(* and the two semaphores, so the first lemmas say what a step does to the *)
(* number of threads at a point.                                           *)
(***************************************************************************)
EXTENDS MCSync, FiniteSetTheorems, TLAPS

\* The number of threads at a point of the code is a natural number, zero
\* exactly when no thread is there.
LEMMA NumNat ==
    ASSUME NEW p
    PROVE  /\ Num(p) \in Nat
           /\ Num(p) = 0 <=> \A t \in Threads : pc[t] # p
<1>1. At(p) \in SUBSET Threads
  BY Zenon DEF At
<1>2. IsFiniteSet(At(p))
  BY <1>1, FS_Subset, ThreadsAssumption, Zenon
<1>3. Num(p) \in Nat /\ (Num(p) = 0 <=> At(p) = {})
  BY <1>2, FS_CardinalityType, FS_EmptySet, Zenon DEF Num
<1> QED
  BY <1>3, Zenon DEF At

\* Fewer than MaxReaders threads are inside as readers.
LEMMA NumBound == Num("reading") + Num("rsem") < MaxReaders
<1> DEFINE A == At("reading")
           B == At("rsem")
<1>1. A \in SUBSET Threads /\ B \in SUBSET Threads /\ A \cap B = {}
  BY Zenon DEF At
<1>2. IsFiniteSet(A) /\ IsFiniteSet(B)
  BY <1>1, FS_Subset, ThreadsAssumption, Zenon
<1>3. Cardinality(A \cup B) = Cardinality(A) + Cardinality(B)
  <2>1. Cardinality(A \cup B) = Cardinality(A) + Cardinality(B) - Cardinality({})
    BY <1>1, <1>2, FS_Union, Zenon
  <2>2. Cardinality(A) \in Nat /\ Cardinality(B) \in Nat
    BY <1>2, FS_CardinalityType, Zenon
  <2> QED
    BY <2>1, <2>2, FS_EmptySet
<1>4. A \cup B \in SUBSET Threads
  BY <1>1, Zenon
<1>5. Cardinality(A \cup B) <= Cardinality(Threads)
  BY <1>4, FS_Subset, ThreadsAssumption, Zenon
<1>6. Cardinality(Threads) \in Nat /\ Cardinality(A \cup B) \in Nat
  <2>1. IsFiniteSet(A \cup B)
    BY <1>4, FS_Subset, ThreadsAssumption, Zenon
  <2> QED
    BY <2>1, FS_CardinalityType, ThreadsAssumption, Zenon
<1> QED
  BY <1>3, <1>5, <1>6, ThreadsAssumption DEF Num

\* With a thread outside there is room for it.
LEMMA NumRoom ==
    ASSUME NEW t \in Threads, pc[t] \notin {"reading", "rsem"}
    PROVE  Num("reading") + Num("rsem") + 1 < MaxReaders
<1> DEFINE A == At("reading")
           B == At("rsem")
           C == A \cup B
<1>1. C \in SUBSET Threads /\ t \notin C /\ A \cap B = {}
  BY Zenon DEF At
<1>2. IsFiniteSet(A) /\ IsFiniteSet(B) /\ IsFiniteSet(C)
  <2>1. A \in SUBSET Threads /\ B \in SUBSET Threads
    BY Zenon DEF At
  <2> QED
    BY <1>1, <2>1, FS_Subset, ThreadsAssumption, Zenon
<1>3. /\ Cardinality(A) \in Nat /\ Cardinality(B) \in Nat
      /\ Cardinality(C) \in Nat /\ Cardinality(Threads) \in Nat
  BY <1>2, FS_CardinalityType, ThreadsAssumption, Zenon
<1>4. Cardinality(C) = Cardinality(A) + Cardinality(B)
  <2>1. Cardinality(C) = Cardinality(A) + Cardinality(B) - Cardinality({})
    BY <1>1, <1>2, FS_Union, Zenon
  <2> QED
    BY <1>3, <2>1, FS_EmptySet
<1>5. Cardinality(C \cup {t}) = Cardinality(C) + 1
  BY <1>1, <1>2, FS_AddElement, Zenon
<1>6. Cardinality(C \cup {t}) <= Cardinality(Threads)
  <2>1. C \cup {t} \in SUBSET Threads
    BY <1>1, Zenon
  <2> QED
    BY <2>1, FS_Subset, ThreadsAssumption, Zenon
<1> QED
  BY <1>3, <1>4, <1>5, <1>6, ThreadsAssumption DEF Num

\* A thread that moves from one point to another changes the number of
\* threads at those two points, and at no other.
LEMMA NumStep ==
    ASSUME NEW t \in Threads,
           \A u \in Threads : u # t => pc'[u] = pc[u],
           NEW p
    PROVE  Num(p)' = Num(p) + (IF pc'[t] = p THEN 1 ELSE 0)
                            - (IF pc[t] = p THEN 1 ELSE 0)
<1>1. IsFiniteSet(At(p))
  <2>1. At(p) \in SUBSET Threads
    BY Zenon DEF At
  <2> QED
    BY <2>1, FS_Subset, ThreadsAssumption, Zenon
<1>2. Cardinality(At(p)) \in Nat /\ Num(p) = Cardinality(At(p))
  BY <1>1, FS_CardinalityType, Zenon DEF Num
<1>3. Num(p)' = Cardinality(At(p)')
  BY Zenon DEF Num
<1>4. CASE pc'[t] = p /\ pc[t] # p
  <2>1. At(p)' = At(p) \cup {t} /\ t \notin At(p)
    BY <1>4, Zenon DEF At
  <2>2. Cardinality(At(p) \cup {t}) = Cardinality(At(p)) + 1
    BY <1>1, <2>1, FS_AddElement, Zenon
  <2> QED
    BY <1>2, <1>3, <1>4, <2>1, <2>2
<1>5. CASE pc'[t] # p /\ pc[t] = p
  <2>1. At(p)' = At(p) \ {t} /\ t \in At(p)
    BY <1>5 DEF At
  <2>2. Cardinality(At(p) \ {t}) = Cardinality(At(p)) - 1
    BY <1>1, <2>1, FS_RemoveElement, Zenon
  <2> QED
    BY <1>2, <1>3, <1>5, <2>1, <2>2
<1>6. CASE (pc'[t] = p) <=> (pc[t] = p)
  <2>1. At(p)' = At(p)
    BY <1>6, Zenon DEF At
  <2> QED
    BY <1>2, <1>3, <1>6, <2>1
<1> QED
  BY <1>4, <1>5, <1>6, Zenon

-----------------------------------------------------------------------------
\* The zero RWMutex, with nobody using it, satisfies the inductive invariant.
LEMMA InitInv == Init => IInv
<1> SUFFICES ASSUME Init PROVE IInv
  BY Zenon
<1>1. TypeOK /\ OwnerInv /\ LocalInv /\ ~Pending
  BY ThreadsAssumption DEF Init, TypeOK, Points, OwnerInv, LocalInv, Pending
<1>2. Num("reading") = 0 /\ Num("rsem") = 0 /\ Num("rslow") = 0 /\ Num("rpost") = 0
  BY NumNat, Zenon DEF Init
<1> QED
  BY <1>1, <1>2, ThreadsAssumption DEF Init, IInv, CountInv, FreeInv, PendingInv,
     AddWaitInv, WSemInv, WritingInv

\* One step of one thread preserves the invariant.  The counts at the four
\* points that IInv mentions are all that the arithmetic of a step needs.
LEMMA StepInv ==
    ASSUME IInv, NEW t \in Threads, Step(t) \/ Call(t) \/ Leave(t)
    PROVE  IInv'
<1> DEFINE Counted == {"reading", "rsem", "rslow", "rpost"}
           Moves(p) == Num(p)' = Num(p) + (IF pc'[t] = p THEN 1 ELSE 0)
                                        - (IF pc[t] = p THEN 1 ELSE 0)
<1> USE ThreadsAssumption DEF IInv
<1>1. TypeOK'
  BY DEF TypeOK, Points, Step, Call, Leave, Goto, RLock, RLockSem, TryRLock,
         TryRLockLoad, TryRLockCAS, RUnlock, RUnlockSlow, RUnlockPost, Lock,
         LockW, LockAnnounce, LockAddWait, LockSem, TryLock, TryLockCAS, Unlock,
         UnlockRelease, UnlockW
<1>2. \A u \in Threads : u # t => pc'[u] = pc[u]
  BY Zenon DEF TypeOK, Points, Step, Call, Leave, Goto, RLock, RLockSem, TryRLock,
         TryRLockLoad, TryRLockCAS, RUnlock, RUnlockSlow, RUnlockPost, Lock,
         LockW, LockAnnounce, LockAddWait, LockSem, TryLock, TryLockCAS, Unlock,
         UnlockRelease, UnlockW
<1>3. Moves("reading") /\ Moves("rsem") /\ Moves("rslow") /\ Moves("rpost")
  BY <1>2, NumStep, Zenon
<1>4. /\ Num("reading") \in Nat /\ Num("rsem") \in Nat
      /\ Num("rslow") \in Nat /\ Num("rpost") \in Nat
      /\ Num("reading") + Num("rsem") < MaxReaders
      /\ \A p \in Counted : pc[t] = p => Num(p) > 0
  BY NumNat, NumBound
<1>5. CASE RLock(t)
  <2>1. OwnerInv'
    BY <1>5, Zenon DEF RLock, Goto, OwnerInv, TypeOK
  <2>2. LocalInv'
    BY <1>4, <1>5, Zenon DEF RLock, Goto, LocalInv, CountInv, OwnerInv, Pending, TypeOK
  <2>3. CountInv'
    BY <1>3, <1>4, <1>5 DEF RLock, Goto, CountInv, FreeInv, PendingInv, AddWaitInv, WSemInv,
       WritingInv, OwnerInv, LocalInv, Pending, TypeOK
  <2>4. FreeInv'
    BY <1>3, <1>4, <1>5 DEF RLock, Goto, CountInv, FreeInv, PendingInv, AddWaitInv, WSemInv,
       WritingInv, OwnerInv, LocalInv, Pending, TypeOK
  <2>5. PendingInv'
    <3> SUFFICES ASSUME NEW u \in Threads
                 PROVE  AddWaitInv(u)' /\ WSemInv(u)' /\ WritingInv(u)'
      BY Zenon DEF PendingInv
    <3>1. CASE pc[u] \in {"addwait", "wsem", "writing"}
      <4>1. readerCount + 1 < 0 /\ u # t
        BY <1>4, <1>5, <3>1, NumRoom
           DEF RLock, Goto, CountInv, OwnerInv, Pending, TypeOK
      <4>2. pc[t] = "idle" /\ pc'[t] = "rsem" /\ pc'[u] = pc[u]
        BY <1>2, <1>5, <4>1, Zenon DEF RLock, Goto, TypeOK
      <4>3. /\ Num("reading")' = Num("reading") /\ Num("rslow")' = Num("rslow")
            /\ Num("rpost")' = Num("rpost")
        BY <1>3, <1>4, <4>2
      <4> QED
        BY <1>5, <4>2, <4>3, Zenon DEF RLock, PendingInv, AddWaitInv, WSemInv, WritingInv
    <3>2. CASE pc[u] \notin {"addwait", "wsem", "writing"}
      BY <1>2, <1>5, <3>2, Zenon DEF RLock, Goto, AddWaitInv, WSemInv, WritingInv, TypeOK
    <3> QED
      BY <3>1, <3>2, Zenon
  <2> QED
    BY <1>1, <2>1, <2>2, <2>3, <2>4, <2>5, Zenon
<1>6. CASE RLockSem(t)
  <2>1. OwnerInv'
    BY <1>6, Zenon DEF RLockSem, Goto, OwnerInv, TypeOK
  <2>2. LocalInv'
    BY <1>4, <1>6, Zenon DEF RLockSem, Goto, LocalInv, CountInv, OwnerInv, Pending, TypeOK
  <2>3. CountInv'
    BY <1>3, <1>4, <1>6 DEF RLockSem, Goto, CountInv, FreeInv, PendingInv, AddWaitInv, WSemInv,
       WritingInv, OwnerInv, LocalInv, Pending, TypeOK
  <2>4. FreeInv'
    BY <1>3, <1>4, <1>6 DEF RLockSem, Goto, CountInv, FreeInv, PendingInv, AddWaitInv, WSemInv,
       WritingInv, OwnerInv, LocalInv, Pending, TypeOK
  <2>5. PendingInv'
    <3> SUFFICES ASSUME NEW u \in Threads
                 PROVE  AddWaitInv(u)' /\ WSemInv(u)' /\ WritingInv(u)'
      BY Zenon DEF PendingInv
    <3>1. AddWaitInv(u)'
      BY <1>2, <1>3, <1>4, <1>6 DEF RLockSem, Goto, CountInv, FreeInv, PendingInv, AddWaitInv,
         WSemInv, WritingInv, OwnerInv, LocalInv, Pending, TypeOK
    <3>2. WSemInv(u)'
      BY <1>2, <1>3, <1>4, <1>6 DEF RLockSem, Goto, CountInv, FreeInv, PendingInv, AddWaitInv,
         WSemInv, WritingInv, OwnerInv, LocalInv, Pending, TypeOK
    <3>3. WritingInv(u)'
      BY <1>2, <1>3, <1>4, <1>6 DEF RLockSem, Goto, CountInv, FreeInv, PendingInv, AddWaitInv,
         WSemInv, WritingInv, OwnerInv, LocalInv, Pending, TypeOK
    <3> QED
      BY <3>1, <3>2, <3>3, Zenon
  <2> QED
    BY <1>1, <2>1, <2>2, <2>3, <2>4, <2>5, Zenon
<1>7. CASE TryRLock(t)
  <2>1. OwnerInv'
    BY <1>7, Zenon DEF TryRLock, Goto, OwnerInv, TypeOK
  <2>2. LocalInv'
    BY <1>4, <1>7, Zenon DEF TryRLock, Goto, LocalInv, CountInv, OwnerInv, Pending, TypeOK
  <2>3. CountInv'
    BY <1>3, <1>4, <1>7 DEF TryRLock, Goto, CountInv, FreeInv, PendingInv, AddWaitInv, WSemInv,
       WritingInv, OwnerInv, LocalInv, Pending, TypeOK
  <2>4. FreeInv'
    BY <1>3, <1>4, <1>7 DEF TryRLock, Goto, CountInv, FreeInv, PendingInv, AddWaitInv, WSemInv,
       WritingInv, OwnerInv, LocalInv, Pending, TypeOK
  <2>5. PendingInv'
    <3> SUFFICES ASSUME NEW u \in Threads
                 PROVE  AddWaitInv(u)' /\ WSemInv(u)' /\ WritingInv(u)'
      BY Zenon DEF PendingInv
    <3>1. AddWaitInv(u)'
      BY <1>2, <1>3, <1>4, <1>7 DEF TryRLock, Goto, CountInv, FreeInv, PendingInv, AddWaitInv,
         WSemInv, WritingInv, OwnerInv, LocalInv, Pending, TypeOK
    <3>2. WSemInv(u)'
      BY <1>2, <1>3, <1>4, <1>7 DEF TryRLock, Goto, CountInv, FreeInv, PendingInv, AddWaitInv,
         WSemInv, WritingInv, OwnerInv, LocalInv, Pending, TypeOK
    <3>3. WritingInv(u)'
      BY <1>2, <1>3, <1>4, <1>7 DEF TryRLock, Goto, CountInv, FreeInv, PendingInv, AddWaitInv,
         WSemInv, WritingInv, OwnerInv, LocalInv, Pending, TypeOK
    <3> QED
      BY <3>1, <3>2, <3>3, Zenon
  <2> QED
    BY <1>1, <2>1, <2>2, <2>3, <2>4, <2>5, Zenon
<1>8. CASE TryRLockLoad(t)
  <2>1. OwnerInv'
    BY <1>8, Zenon DEF TryRLockLoad, Goto, OwnerInv, TypeOK
  <2>2. LocalInv'
    BY <1>4, <1>8 DEF TryRLockLoad, Goto, LocalInv, CountInv, OwnerInv, Pending, TypeOK
  <2>3. CountInv'
    BY <1>3, <1>4, <1>8 DEF TryRLockLoad, Goto, CountInv, FreeInv, PendingInv, AddWaitInv,
       WSemInv, WritingInv, OwnerInv, LocalInv, Pending, TypeOK
  <2>4. FreeInv'
    BY <1>3, <1>4, <1>8 DEF TryRLockLoad, Goto, CountInv, FreeInv, PendingInv, AddWaitInv,
       WSemInv, WritingInv, OwnerInv, LocalInv, Pending, TypeOK
  <2>5. PendingInv'
    <3> SUFFICES ASSUME NEW u \in Threads
                 PROVE  AddWaitInv(u)' /\ WSemInv(u)' /\ WritingInv(u)'
      BY Zenon DEF PendingInv
    <3>1. AddWaitInv(u)'
      BY <1>2, <1>3, <1>4, <1>8 DEF TryRLockLoad, Goto, CountInv, FreeInv, PendingInv,
         AddWaitInv, WSemInv, WritingInv, OwnerInv, LocalInv, Pending, TypeOK
    <3>2. WSemInv(u)'
      BY <1>2, <1>3, <1>4, <1>8 DEF TryRLockLoad, Goto, CountInv, FreeInv, PendingInv,
         AddWaitInv, WSemInv, WritingInv, OwnerInv, LocalInv, Pending, TypeOK
    <3>3. WritingInv(u)'
      BY <1>2, <1>3, <1>4, <1>8 DEF TryRLockLoad, Goto, CountInv, FreeInv, PendingInv,
         AddWaitInv, WSemInv, WritingInv, OwnerInv, LocalInv, Pending, TypeOK
    <3> QED
      BY <3>1, <3>2, <3>3, Zenon
  <2> QED
    BY <1>1, <2>1, <2>2, <2>3, <2>4, <2>5, Zenon
<1>9. CASE TryRLockCAS(t)
  <2>1. OwnerInv'
    BY <1>9, Zenon DEF TryRLockCAS, Goto, OwnerInv, TypeOK
  <2>2. LocalInv'
    BY <1>4, <1>9, Zenon DEF TryRLockCAS, Goto, LocalInv, CountInv, OwnerInv, Pending, TypeOK
  <2>3. CountInv'
    BY <1>3, <1>4, <1>9 DEF TryRLockCAS, Goto, CountInv, FreeInv, PendingInv, AddWaitInv,
       WSemInv, WritingInv, OwnerInv, LocalInv, Pending, TypeOK
  <2>4. FreeInv'
    BY <1>3, <1>4, <1>9 DEF TryRLockCAS, Goto, CountInv, FreeInv, PendingInv, AddWaitInv,
       WSemInv, WritingInv, OwnerInv, LocalInv, Pending, TypeOK
  <2>5. PendingInv'
    <3> SUFFICES ASSUME NEW u \in Threads
                 PROVE  AddWaitInv(u)' /\ WSemInv(u)' /\ WritingInv(u)'
      BY Zenon DEF PendingInv
    <3>1. AddWaitInv(u)'
      BY <1>2, <1>3, <1>4, <1>9 DEF TryRLockCAS, Goto, CountInv, FreeInv, PendingInv,
         AddWaitInv, WSemInv, WritingInv, OwnerInv, LocalInv, Pending, TypeOK
    <3>2. WSemInv(u)'
      BY <1>2, <1>3, <1>4, <1>9 DEF TryRLockCAS, Goto, CountInv, FreeInv, PendingInv,
         AddWaitInv, WSemInv, WritingInv, OwnerInv, LocalInv, Pending, TypeOK
    <3>3. WritingInv(u)'
      BY <1>2, <1>3, <1>4, <1>9 DEF TryRLockCAS, Goto, CountInv, FreeInv, PendingInv,
         AddWaitInv, WSemInv, WritingInv, OwnerInv, LocalInv, Pending, TypeOK
    <3> QED
      BY <3>1, <3>2, <3>3, Zenon
  <2> QED
    BY <1>1, <2>1, <2>2, <2>3, <2>4, <2>5, Zenon
<1>10. CASE RUnlock(t)
  <2>1. OwnerInv'
    BY <1>10, Zenon DEF RUnlock, Goto, OwnerInv, TypeOK
  <2>2. LocalInv'
    BY <1>4, <1>10 DEF RUnlock, Goto, LocalInv, CountInv, OwnerInv, Pending, TypeOK
  <2>3. CountInv'
    BY <1>3, <1>4, <1>10 DEF RUnlock, Goto, CountInv, FreeInv, PendingInv, AddWaitInv, WSemInv,
       WritingInv, OwnerInv, LocalInv, Pending, TypeOK
  <2>4. FreeInv'
    BY <1>3, <1>4, <1>10 DEF RUnlock, Goto, CountInv, FreeInv, PendingInv, AddWaitInv, WSemInv,
       WritingInv, OwnerInv, LocalInv, Pending, TypeOK
  <2>5. PendingInv'
    <3> SUFFICES ASSUME NEW u \in Threads
                 PROVE  AddWaitInv(u)' /\ WSemInv(u)' /\ WritingInv(u)'
      BY Zenon DEF PendingInv
    <3>1. AddWaitInv(u)'
      BY <1>2, <1>3, <1>4, <1>10 DEF RUnlock, Goto, CountInv, FreeInv, PendingInv, AddWaitInv,
         WSemInv, WritingInv, OwnerInv, LocalInv, Pending, TypeOK
    <3>2. WSemInv(u)'
      BY <1>2, <1>3, <1>4, <1>10 DEF RUnlock, Goto, CountInv, FreeInv, PendingInv, AddWaitInv,
         WSemInv, WritingInv, OwnerInv, LocalInv, Pending, TypeOK
    <3>3. WritingInv(u)'
      BY <1>2, <1>3, <1>4, <1>10 DEF RUnlock, Goto, CountInv, FreeInv, PendingInv, AddWaitInv,
         WSemInv, WritingInv, OwnerInv, LocalInv, Pending, TypeOK
    <3> QED
      BY <3>1, <3>2, <3>3, Zenon
  <2> QED
    BY <1>1, <2>1, <2>2, <2>3, <2>4, <2>5, Zenon
<1>11. CASE RUnlockSlow(t)
  <2>1. OwnerInv'
    BY <1>11, Zenon DEF RUnlockSlow, Goto, OwnerInv, TypeOK
  <2>2. LocalInv'
    BY <1>4, <1>11 DEF RUnlockSlow, Goto, LocalInv, CountInv, OwnerInv, Pending, TypeOK
  <2>3. CountInv'
    BY <1>3, <1>4, <1>11 DEF RUnlockSlow, Goto, CountInv, FreeInv, PendingInv, AddWaitInv,
       WSemInv, WritingInv, OwnerInv, LocalInv, Pending, TypeOK
  <2>4. FreeInv'
    BY <1>3, <1>4, <1>11 DEF RUnlockSlow, Goto, CountInv, FreeInv, PendingInv, AddWaitInv,
       WSemInv, WritingInv, OwnerInv, LocalInv, Pending, TypeOK
  <2>5. PendingInv'
    <3> SUFFICES ASSUME NEW u \in Threads
                 PROVE  AddWaitInv(u)' /\ WSemInv(u)' /\ WritingInv(u)'
      BY Zenon DEF PendingInv
    <3>1. AddWaitInv(u)'
      BY <1>2, <1>3, <1>4, <1>11 DEF RUnlockSlow, Goto, CountInv, FreeInv, PendingInv,
         AddWaitInv, WSemInv, WritingInv, OwnerInv, LocalInv, Pending, TypeOK
    <3>2. WSemInv(u)'
      <4> SUFFICES ASSUME pc'[u] = "wsem"
                   PROVE  /\ (readerWait = Num("reading") + readerSem + Num("rslow"))'
                          /\ (writerSem + Num("rpost") = IF readerWait = 0 THEN 1 ELSE 0)'
        BY Zenon DEF WSemInv
      <4>1. pc[t] = "rslow" /\ u # t /\ pc[u] = "wsem"
        BY <1>2, <1>11, Zenon DEF RUnlockSlow, Goto, TypeOK
      <4>2. readerWait' = readerWait - 1 /\ UNCHANGED <<readerSem, writerSem>>
        BY <1>11, <4>1 DEF RUnlockSlow, LocalInv, TypeOK
      <4>3. pc'[t] = IF readerWait - 1 = 0 THEN "rpost" ELSE "idle"
        BY <1>11, <4>1 DEF RUnlockSlow, Goto, LocalInv, TypeOK
      <4>4. /\ Num("reading")' = Num("reading") /\ Num("rslow")' = Num("rslow") - 1
            /\ Num("rpost")' = Num("rpost") + (IF readerWait - 1 = 0 THEN 1 ELSE 0)
        BY <1>3, <1>4, <4>1, <4>3
      <4>5. /\ readerWait = Num("reading") + readerSem + Num("rslow")
            /\ writerSem + Num("rpost") = IF readerWait = 0 THEN 1 ELSE 0
            /\ Num("rslow") > 0
        BY <1>4, <4>1, Zenon DEF PendingInv, WSemInv
      <4> QED
        BY <1>4, <4>2, <4>4, <4>5 DEF TypeOK
    <3>3. WritingInv(u)'
      BY <1>2, <1>3, <1>4, <1>11 DEF RUnlockSlow, Goto, CountInv, FreeInv, PendingInv,
         AddWaitInv, WSemInv, WritingInv, OwnerInv, LocalInv, Pending, TypeOK
    <3> QED
      BY <3>1, <3>2, <3>3, Zenon
  <2> QED
    BY <1>1, <2>1, <2>2, <2>3, <2>4, <2>5, Zenon
<1>12. CASE RUnlockPost(t)
  <2>1. OwnerInv'
    BY <1>12, Zenon DEF RUnlockPost, Goto, OwnerInv, TypeOK
  <2>2. LocalInv'
    BY <1>4, <1>12, Zenon DEF RUnlockPost, Goto, LocalInv, CountInv, OwnerInv, Pending, TypeOK
  <2>3. CountInv'
    BY <1>3, <1>4, <1>12 DEF RUnlockPost, Goto, CountInv, FreeInv, PendingInv, AddWaitInv,
       WSemInv, WritingInv, OwnerInv, LocalInv, Pending, TypeOK
  <2>4. FreeInv'
    BY <1>3, <1>4, <1>12 DEF RUnlockPost, Goto, CountInv, FreeInv, PendingInv, AddWaitInv,
       WSemInv, WritingInv, OwnerInv, LocalInv, Pending, TypeOK
  <2>5. PendingInv'
    <3> SUFFICES ASSUME NEW u \in Threads
                 PROVE  AddWaitInv(u)' /\ WSemInv(u)' /\ WritingInv(u)'
      BY Zenon DEF PendingInv
    <3>1. AddWaitInv(u)'
      BY <1>2, <1>3, <1>4, <1>12 DEF RUnlockPost, Goto, CountInv, FreeInv, PendingInv,
         AddWaitInv, WSemInv, WritingInv, OwnerInv, LocalInv, Pending, TypeOK
    <3>2. WSemInv(u)'
      BY <1>2, <1>3, <1>4, <1>12 DEF RUnlockPost, Goto, CountInv, FreeInv, PendingInv,
         AddWaitInv, WSemInv, WritingInv, OwnerInv, LocalInv, Pending, TypeOK
    <3>3. WritingInv(u)'
      BY <1>2, <1>3, <1>4, <1>12 DEF RUnlockPost, Goto, CountInv, FreeInv, PendingInv,
         AddWaitInv, WSemInv, WritingInv, OwnerInv, LocalInv, Pending, TypeOK
    <3> QED
      BY <3>1, <3>2, <3>3, Zenon
  <2> QED
    BY <1>1, <2>1, <2>2, <2>3, <2>4, <2>5, Zenon
<1>13. CASE Lock(t)
  <2>1. OwnerInv'
    BY <1>13, Zenon DEF Lock, Goto, OwnerInv, TypeOK
  <2>2. LocalInv'
    BY <1>4, <1>13, Zenon DEF Lock, Goto, LocalInv, CountInv, OwnerInv, Pending, TypeOK
  <2>3. CountInv'
    BY <1>3, <1>4, <1>13 DEF Lock, Goto, CountInv, FreeInv, PendingInv, AddWaitInv, WSemInv,
       WritingInv, OwnerInv, LocalInv, Pending, TypeOK
  <2>4. FreeInv'
    BY <1>3, <1>4, <1>13 DEF Lock, Goto, CountInv, FreeInv, PendingInv, AddWaitInv, WSemInv,
       WritingInv, OwnerInv, LocalInv, Pending, TypeOK
  <2>5. PendingInv'
    <3> SUFFICES ASSUME NEW u \in Threads
                 PROVE  AddWaitInv(u)' /\ WSemInv(u)' /\ WritingInv(u)'
      BY Zenon DEF PendingInv
    <3>1. AddWaitInv(u)'
      BY <1>2, <1>3, <1>4, <1>13 DEF Lock, Goto, CountInv, FreeInv, PendingInv, AddWaitInv,
         WSemInv, WritingInv, OwnerInv, LocalInv, Pending, TypeOK
    <3>2. WSemInv(u)'
      BY <1>2, <1>3, <1>4, <1>13 DEF Lock, Goto, CountInv, FreeInv, PendingInv, AddWaitInv,
         WSemInv, WritingInv, OwnerInv, LocalInv, Pending, TypeOK
    <3>3. WritingInv(u)'
      BY <1>2, <1>3, <1>4, <1>13 DEF Lock, Goto, CountInv, FreeInv, PendingInv, AddWaitInv,
         WSemInv, WritingInv, OwnerInv, LocalInv, Pending, TypeOK
    <3> QED
      BY <3>1, <3>2, <3>3, Zenon
  <2> QED
    BY <1>1, <2>1, <2>2, <2>3, <2>4, <2>5, Zenon
<1>14. CASE LockW(t)
  <2>1. OwnerInv'
    BY <1>14, Zenon DEF LockW, Goto, OwnerInv, TypeOK
  <2>2. LocalInv'
    BY <1>4, <1>14, Zenon DEF LockW, Goto, LocalInv, CountInv, OwnerInv, Pending, TypeOK
  <2>3. CountInv'
    BY <1>3, <1>4, <1>14 DEF LockW, Goto, CountInv, FreeInv, PendingInv, AddWaitInv, WSemInv,
       WritingInv, OwnerInv, LocalInv, Pending, TypeOK
  <2>4. FreeInv'
    BY <1>3, <1>4, <1>14 DEF LockW, Goto, CountInv, FreeInv, PendingInv, AddWaitInv, WSemInv,
       WritingInv, OwnerInv, LocalInv, Pending, TypeOK
  <2>5. PendingInv'
    <3> SUFFICES ASSUME NEW u \in Threads
                 PROVE  AddWaitInv(u)' /\ WSemInv(u)' /\ WritingInv(u)'
      BY Zenon DEF PendingInv
    <3>1. AddWaitInv(u)'
      BY <1>2, <1>3, <1>4, <1>14, Zenon DEF LockW, Goto, CountInv, FreeInv, PendingInv,
         AddWaitInv, WSemInv, WritingInv, OwnerInv, LocalInv, Pending, TypeOK
    <3>2. WSemInv(u)'
      BY <1>2, <1>3, <1>4, <1>14, Zenon DEF LockW, Goto, CountInv, FreeInv, PendingInv,
         AddWaitInv, WSemInv, WritingInv, OwnerInv, LocalInv, Pending, TypeOK
    <3>3. WritingInv(u)'
      BY <1>2, <1>3, <1>4, <1>14, Zenon DEF LockW, Goto, CountInv, FreeInv, PendingInv,
         AddWaitInv, WSemInv, WritingInv, OwnerInv, LocalInv, Pending, TypeOK
    <3> QED
      BY <3>1, <3>2, <3>3, Zenon
  <2> QED
    BY <1>1, <2>1, <2>2, <2>3, <2>4, <2>5, Zenon
<1>15. CASE LockAnnounce(t)
  <2>1. OwnerInv'
    BY <1>15, Zenon DEF LockAnnounce, Goto, OwnerInv, TypeOK
  <2>2. LocalInv'
    BY <1>4, <1>15 DEF LockAnnounce, Goto, LocalInv, CountInv, OwnerInv, Pending, TypeOK
  <2>3. CountInv'
    BY <1>3, <1>4, <1>15 DEF LockAnnounce, Goto, CountInv, FreeInv, PendingInv, AddWaitInv,
       WSemInv, WritingInv, OwnerInv, LocalInv, Pending, TypeOK
  <2>4. FreeInv'
    BY <1>3, <1>4, <1>15, Zenon DEF LockAnnounce, Goto, CountInv, FreeInv, PendingInv, AddWaitInv,
       WSemInv, WritingInv, OwnerInv, LocalInv, Pending, TypeOK
  <2>5. PendingInv'
    <3> SUFFICES ASSUME NEW u \in Threads
                 PROVE  AddWaitInv(u)' /\ WSemInv(u)' /\ WritingInv(u)'
      BY Zenon DEF PendingInv
    <3>1. AddWaitInv(u)'
      BY <1>2, <1>3, <1>4, <1>15 DEF LockAnnounce, Goto, CountInv, FreeInv, PendingInv,
         AddWaitInv, WSemInv, WritingInv, OwnerInv, LocalInv, Pending, TypeOK
    <3>2. WSemInv(u)'
      BY <1>2, <1>3, <1>4, <1>15, Zenon DEF LockAnnounce, Goto, CountInv, FreeInv, PendingInv,
         AddWaitInv, WSemInv, WritingInv, OwnerInv, LocalInv, Pending, TypeOK
    <3>3. WritingInv(u)'
      <4> SUFFICES ASSUME pc'[u] = "writing"
                   PROVE  WritingInv(u)'
        BY Zenon DEF WritingInv
      <4>1. u = t /\ readerCount = 0 /\ w = t /\ pc[t] = "announce"
        BY <1>2, <1>15, Zenon DEF LockAnnounce, Goto, OwnerInv, TypeOK
      <4>2. /\ Num("reading") = 0 /\ Num("rsem") = 0 /\ readerSem = 0
            /\ Num("rslow") = 0 /\ Num("rpost") = 0
            /\ readerWait = 0 /\ writerSem = 0
        <5>1. ~Pending
          BY <4>1, Zenon DEF Pending
        <5>2. /\ Num("rsem") = readerSem /\ readerCount = Num("reading") + Num("rsem")
              /\ Num("rslow") = 0 /\ Num("rpost") = 0
              /\ readerWait = 0 /\ writerSem = 0
          BY <1>4, <4>1, <5>1 DEF CountInv, FreeInv, TypeOK
        <5> QED
          BY <1>4, <4>1, <5>2
      <4>3. pc'[t] = "writing" /\ UNCHANGED <<readerSem, readerWait, writerSem>>
        BY <1>15, <4>1, Zenon DEF LockAnnounce, Goto, TypeOK
      <4>4. Num("reading")' = 0 /\ Num("rslow")' = 0 /\ Num("rpost")' = 0
        BY <1>3, <1>15, <4>2, <4>3 DEF LockAnnounce, Goto
      <4> QED
        BY <4>2, <4>3, <4>4, Zenon DEF WritingInv
    <3> QED
      BY <3>1, <3>2, <3>3, Zenon
  <2> QED
    BY <1>1, <2>1, <2>2, <2>3, <2>4, <2>5, Zenon
<1>16. CASE LockAddWait(t)
  <2>1. OwnerInv'
    BY <1>16, Zenon DEF LockAddWait, Goto, OwnerInv, TypeOK
  <2>2. LocalInv'
    BY <1>4, <1>16, Zenon DEF LockAddWait, Goto, LocalInv, CountInv, OwnerInv, Pending, TypeOK
  <2>3. CountInv'
    BY <1>3, <1>4, <1>16 DEF LockAddWait, Goto, CountInv, FreeInv, PendingInv, AddWaitInv,
       WSemInv, WritingInv, OwnerInv, LocalInv, Pending, TypeOK
  <2>4. FreeInv'
    BY <1>3, <1>4, <1>16, Zenon DEF LockAddWait, Goto, CountInv, FreeInv, PendingInv, AddWaitInv,
       WSemInv, WritingInv, OwnerInv, LocalInv, Pending, TypeOK
  <2>5. PendingInv'
    <3> SUFFICES ASSUME NEW u \in Threads
                 PROVE  AddWaitInv(u)' /\ WSemInv(u)' /\ WritingInv(u)'
      BY Zenon DEF PendingInv
    <3>1. AddWaitInv(u)'
      BY <1>2, <1>3, <1>4, <1>16, Zenon DEF LockAddWait, Goto, CountInv, FreeInv, PendingInv,
         AddWaitInv, WSemInv, WritingInv, OwnerInv, LocalInv, Pending, TypeOK
    <3>2. WSemInv(u)'
      BY <1>2, <1>3, <1>4, <1>16 DEF LockAddWait, Goto, CountInv, FreeInv, PendingInv,
         AddWaitInv, WSemInv, WritingInv, OwnerInv, LocalInv, Pending, TypeOK
    <3>3. WritingInv(u)'
      <4> SUFFICES ASSUME pc'[u] = "writing"
                   PROVE  WritingInv(u)'
        BY Zenon DEF WritingInv
      <4>1. u = t /\ pc[t] = "addwait" /\ readerWait + r[t] = 0
        BY <1>2, <1>16, Zenon DEF LockAddWait, Goto, OwnerInv, TypeOK
      <4>2. /\ Num("reading") = 0 /\ readerSem = 0 /\ Num("rslow") = 0
            /\ Num("rpost") = 0 /\ writerSem = 0
        BY <1>4, <4>1 DEF PendingInv, AddWaitInv, TypeOK
      <4>3. pc'[t] = "writing" /\ readerWait' = 0 /\ UNCHANGED <<readerSem, writerSem>>
        BY <1>16, <4>1, Zenon DEF LockAddWait, Goto, TypeOK
      <4>4. Num("reading")' = 0 /\ Num("rslow")' = 0 /\ Num("rpost")' = 0
        BY <1>3, <4>1, <4>2, <4>3
      <4> QED
        BY <4>2, <4>3, <4>4, Zenon DEF WritingInv
    <3> QED
      BY <3>1, <3>2, <3>3, Zenon
  <2> QED
    BY <1>1, <2>1, <2>2, <2>3, <2>4, <2>5, Zenon
<1>17. CASE LockSem(t)
  <2>1. OwnerInv'
    BY <1>17, Zenon DEF LockSem, Goto, OwnerInv, TypeOK
  <2>2. LocalInv'
    BY <1>4, <1>17, Zenon DEF LockSem, Goto, LocalInv, CountInv, OwnerInv, Pending, TypeOK
  <2>3. CountInv'
    BY <1>3, <1>4, <1>17 DEF LockSem, Goto, CountInv, FreeInv, PendingInv, AddWaitInv, WSemInv,
       WritingInv, OwnerInv, LocalInv, Pending, TypeOK
  <2>4. FreeInv'
    BY <1>3, <1>4, <1>17, Zenon DEF LockSem, Goto, CountInv, FreeInv, PendingInv, AddWaitInv,
       WSemInv, WritingInv, OwnerInv, LocalInv, Pending, TypeOK
  <2>5. PendingInv'
    <3> SUFFICES ASSUME NEW u \in Threads
                 PROVE  AddWaitInv(u)' /\ WSemInv(u)' /\ WritingInv(u)'
      BY Zenon DEF PendingInv
    <3>1. AddWaitInv(u)'
      BY <1>2, <1>3, <1>4, <1>17, Zenon DEF LockSem, Goto, CountInv, FreeInv, PendingInv,
         AddWaitInv, WSemInv, WritingInv, OwnerInv, LocalInv, Pending, TypeOK
    <3>2. WSemInv(u)'
      BY <1>2, <1>3, <1>4, <1>17, Zenon DEF LockSem, Goto, CountInv, FreeInv, PendingInv,
         AddWaitInv, WSemInv, WritingInv, OwnerInv, LocalInv, Pending, TypeOK
    <3>3. WritingInv(u)'
      BY <1>2, <1>3, <1>4, <1>17 DEF LockSem, Goto, CountInv, FreeInv, PendingInv, AddWaitInv,
         WSemInv, WritingInv, OwnerInv, LocalInv, Pending, TypeOK
    <3> QED
      BY <3>1, <3>2, <3>3, Zenon
  <2> QED
    BY <1>1, <2>1, <2>2, <2>3, <2>4, <2>5, Zenon
<1>18. CASE TryLock(t)
  <2>1. OwnerInv'
    BY <1>18, Zenon DEF TryLock, Goto, OwnerInv, TypeOK
  <2>2. LocalInv'
    BY <1>4, <1>18, Zenon DEF TryLock, Goto, LocalInv, CountInv, OwnerInv, Pending, TypeOK
  <2>3. CountInv'
    BY <1>3, <1>4, <1>18 DEF TryLock, Goto, CountInv, FreeInv, PendingInv, AddWaitInv, WSemInv,
       WritingInv, OwnerInv, LocalInv, Pending, TypeOK
  <2>4. FreeInv'
    BY <1>3, <1>4, <1>18 DEF TryLock, Goto, CountInv, FreeInv, PendingInv, AddWaitInv, WSemInv,
       WritingInv, OwnerInv, LocalInv, Pending, TypeOK
  <2>5. PendingInv'
    <3> SUFFICES ASSUME NEW u \in Threads
                 PROVE  AddWaitInv(u)' /\ WSemInv(u)' /\ WritingInv(u)'
      BY Zenon DEF PendingInv
    <3>1. AddWaitInv(u)'
      BY <1>2, <1>3, <1>4, <1>18, Zenon DEF TryLock, Goto, CountInv, FreeInv, PendingInv,
         AddWaitInv, WSemInv, WritingInv, OwnerInv, LocalInv, Pending, TypeOK
    <3>2. WSemInv(u)'
      BY <1>2, <1>3, <1>4, <1>18, Zenon DEF TryLock, Goto, CountInv, FreeInv, PendingInv,
         AddWaitInv, WSemInv, WritingInv, OwnerInv, LocalInv, Pending, TypeOK
    <3>3. WritingInv(u)'
      BY <1>2, <1>3, <1>4, <1>18, Zenon DEF TryLock, Goto, CountInv, FreeInv, PendingInv,
         AddWaitInv, WSemInv, WritingInv, OwnerInv, LocalInv, Pending, TypeOK
    <3> QED
      BY <3>1, <3>2, <3>3, Zenon
  <2> QED
    BY <1>1, <2>1, <2>2, <2>3, <2>4, <2>5, Zenon
<1>19. CASE TryLockCAS(t)
  <2>1. OwnerInv'
    BY <1>19, Zenon DEF TryLockCAS, Goto, OwnerInv, TypeOK
  <2>2. LocalInv'
    BY <1>4, <1>19, Zenon DEF TryLockCAS, Goto, LocalInv, CountInv, OwnerInv, Pending, TypeOK
  <2>3. CountInv'
    BY <1>3, <1>4, <1>19 DEF TryLockCAS, Goto, CountInv, FreeInv, PendingInv, AddWaitInv,
       WSemInv, WritingInv, OwnerInv, LocalInv, Pending, TypeOK
  <2>4. FreeInv'
    BY <1>3, <1>4, <1>19 DEF TryLockCAS, Goto, CountInv, FreeInv, PendingInv, AddWaitInv,
       WSemInv, WritingInv, OwnerInv, LocalInv, Pending, TypeOK
  <2>5. PendingInv'
    <3> SUFFICES ASSUME NEW u \in Threads
                 PROVE  AddWaitInv(u)' /\ WSemInv(u)' /\ WritingInv(u)'
      BY Zenon DEF PendingInv
    <3>1. AddWaitInv(u)'
      BY <1>2, <1>3, <1>4, <1>19, Zenon DEF TryLockCAS, Goto, CountInv, FreeInv, PendingInv,
         AddWaitInv, WSemInv, WritingInv, OwnerInv, LocalInv, Pending, TypeOK
    <3>2. WSemInv(u)'
      BY <1>2, <1>3, <1>4, <1>19, Zenon DEF TryLockCAS, Goto, CountInv, FreeInv, PendingInv,
         AddWaitInv, WSemInv, WritingInv, OwnerInv, LocalInv, Pending, TypeOK
    <3>3. WritingInv(u)'
      <4> SUFFICES ASSUME pc'[u] = "writing"
                   PROVE  WritingInv(u)'
        BY Zenon DEF WritingInv
      <4>1. u = t /\ readerCount = 0 /\ w = t /\ pc[t] = "trycas"
        BY <1>2, <1>19, Zenon DEF TryLockCAS, Goto, OwnerInv, TypeOK
      <4>2. /\ Num("reading") = 0 /\ Num("rsem") = 0 /\ readerSem = 0
            /\ Num("rslow") = 0 /\ Num("rpost") = 0
            /\ readerWait = 0 /\ writerSem = 0
        <5>1. ~Pending
          BY <4>1, Zenon DEF Pending
        <5>2. /\ Num("rsem") = readerSem /\ readerCount = Num("reading") + Num("rsem")
              /\ Num("rslow") = 0 /\ Num("rpost") = 0
              /\ readerWait = 0 /\ writerSem = 0
          BY <1>4, <4>1, <5>1 DEF CountInv, FreeInv, TypeOK
        <5> QED
          BY <1>4, <4>1, <5>2
      <4>3. pc'[t] = "writing" /\ UNCHANGED <<readerSem, readerWait, writerSem>>
        BY <1>19, <4>1, Zenon DEF TryLockCAS, Goto, TypeOK
      <4>4. Num("reading")' = 0 /\ Num("rslow")' = 0 /\ Num("rpost")' = 0
        BY <1>3, <1>19, <4>2, <4>3 DEF TryLockCAS, Goto
      <4> QED
        BY <4>2, <4>3, <4>4, Zenon DEF WritingInv
    <3> QED
      BY <3>1, <3>2, <3>3, Zenon
  <2> QED
    BY <1>1, <2>1, <2>2, <2>3, <2>4, <2>5, Zenon
<1>20. CASE Unlock(t)
  <2>1. OwnerInv'
    BY <1>3, <1>4, <1>20 DEF Unlock, Goto, CountInv, FreeInv, PendingInv, AddWaitInv, WSemInv,
       WritingInv, OwnerInv, LocalInv, Pending, TypeOK
  <2>2. LocalInv'
    BY <1>4, <1>20 DEF Unlock, Goto, LocalInv, CountInv, OwnerInv, Pending, TypeOK
  <2>3. CountInv'
    <3>1. w = t /\ Pending
      BY <1>20, Zenon DEF Unlock, Goto, OwnerInv, Pending, TypeOK
    <3>2. ~Pending'
      BY <1>20, <3>1, Zenon DEF Unlock, Goto, Pending, TypeOK
    <3>3. Num("reading")' = Num("reading") /\ Num("rsem")' = Num("rsem")
      BY <1>3, <1>4, <1>20 DEF Unlock, Goto, TypeOK
    <3> QED
      BY <1>4, <1>20, <3>1, <3>2, <3>3 DEF Unlock, CountInv, TypeOK
  <2>4. FreeInv'
    BY <1>3, <1>4, <1>20 DEF Unlock, Goto, CountInv, FreeInv, PendingInv, AddWaitInv, WSemInv,
       WritingInv, OwnerInv, LocalInv, Pending, TypeOK
  <2>5. PendingInv'
    <3> SUFFICES ASSUME NEW u \in Threads
                 PROVE  AddWaitInv(u)' /\ WSemInv(u)' /\ WritingInv(u)'
      BY Zenon DEF PendingInv
    <3>1. AddWaitInv(u)'
      BY <1>2, <1>3, <1>4, <1>20, Zenon DEF Unlock, Goto, CountInv, FreeInv, PendingInv,
         AddWaitInv, WSemInv, WritingInv, OwnerInv, LocalInv, Pending, TypeOK
    <3>2. WSemInv(u)'
      BY <1>2, <1>3, <1>4, <1>20, Zenon DEF Unlock, Goto, CountInv, FreeInv, PendingInv,
         AddWaitInv, WSemInv, WritingInv, OwnerInv, LocalInv, Pending, TypeOK
    <3>3. WritingInv(u)'
      BY <1>2, <1>3, <1>4, <1>20, Zenon DEF Unlock, Goto, CountInv, FreeInv, PendingInv,
         AddWaitInv, WSemInv, WritingInv, OwnerInv, LocalInv, Pending, TypeOK
    <3> QED
      BY <3>1, <3>2, <3>3, Zenon
  <2> QED
    BY <1>1, <2>1, <2>2, <2>3, <2>4, <2>5, Zenon
<1>21. CASE UnlockRelease(t)
  <2>1. OwnerInv'
    BY <1>21, Zenon DEF UnlockRelease, OwnerInv, TypeOK
  <2>2. LocalInv'
    BY <1>4, <1>21 DEF UnlockRelease, LocalInv, CountInv, OwnerInv, Pending, TypeOK
  <2>3. CountInv'
    BY <1>3, <1>4, <1>21 DEF UnlockRelease, CountInv, FreeInv, PendingInv, AddWaitInv, WSemInv,
       WritingInv, OwnerInv, LocalInv, Pending, TypeOK
  <2>4. FreeInv'
    <3>1. w = t /\ ~Pending /\ pc' = pc /\ w' = w /\ ~Pending'
      BY <1>21, Zenon DEF UnlockRelease, OwnerInv, Pending, TypeOK
    <3>2. r'[t] = r[t] - 1 /\ readerSem' = readerSem + 1
      BY <1>21, Zenon DEF UnlockRelease, TypeOK
    <3>3. /\ Num("rsem")' = Num("rsem") /\ Num("rslow")' = Num("rslow")
          /\ Num("rpost")' = Num("rpost")
      BY <1>3, <1>4, <3>1
    <3>4. t # NoThread /\ pc[t] = "unlock" /\ UNCHANGED <<readerWait, writerSem>>
      BY <1>21, Zenon DEF UnlockRelease
    <3> QED
      BY <1>4, <3>1, <3>2, <3>3, <3>4 DEF FreeInv, TypeOK
  <2>5. PendingInv'
    <3> SUFFICES ASSUME NEW u \in Threads
                 PROVE  AddWaitInv(u)' /\ WSemInv(u)' /\ WritingInv(u)'
      BY Zenon DEF PendingInv
    <3>1. AddWaitInv(u)'
      BY <1>2, <1>3, <1>4, <1>21, Zenon DEF UnlockRelease, CountInv, FreeInv, PendingInv,
         AddWaitInv, WSemInv, WritingInv, OwnerInv, LocalInv, Pending, TypeOK
    <3>2. WSemInv(u)'
      BY <1>2, <1>3, <1>4, <1>21, Zenon DEF UnlockRelease, CountInv, FreeInv, PendingInv,
         AddWaitInv, WSemInv, WritingInv, OwnerInv, LocalInv, Pending, TypeOK
    <3>3. WritingInv(u)'
      BY <1>2, <1>3, <1>4, <1>21, Zenon DEF UnlockRelease, CountInv, FreeInv, PendingInv,
         AddWaitInv, WSemInv, WritingInv, OwnerInv, LocalInv, Pending, TypeOK
    <3> QED
      BY <3>1, <3>2, <3>3, Zenon
  <2> QED
    BY <1>1, <2>1, <2>2, <2>3, <2>4, <2>5, Zenon
<1>22. CASE UnlockW(t)
  <2>1. OwnerInv'
    BY <1>22, Zenon DEF UnlockW, Goto, OwnerInv, TypeOK
  <2>2. LocalInv'
    BY <1>4, <1>22, Zenon DEF UnlockW, Goto, LocalInv, CountInv, OwnerInv, Pending, TypeOK
  <2>3. CountInv'
    BY <1>3, <1>4, <1>22 DEF UnlockW, Goto, CountInv, FreeInv, PendingInv, AddWaitInv, WSemInv,
       WritingInv, OwnerInv, LocalInv, Pending, TypeOK
  <2>4. FreeInv'
    BY <1>3, <1>4, <1>22 DEF UnlockW, Goto, CountInv, FreeInv, PendingInv, AddWaitInv, WSemInv,
       WritingInv, OwnerInv, LocalInv, Pending, TypeOK
  <2>5. PendingInv'
    <3> SUFFICES ASSUME NEW u \in Threads
                 PROVE  AddWaitInv(u)' /\ WSemInv(u)' /\ WritingInv(u)'
      BY Zenon DEF PendingInv
    <3>1. AddWaitInv(u)'
      BY <1>2, <1>3, <1>4, <1>22, Zenon DEF UnlockW, Goto, CountInv, FreeInv, PendingInv,
         AddWaitInv, WSemInv, WritingInv, OwnerInv, LocalInv, Pending, TypeOK
    <3>2. WSemInv(u)'
      BY <1>2, <1>3, <1>4, <1>22, Zenon DEF UnlockW, Goto, CountInv, FreeInv, PendingInv,
         AddWaitInv, WSemInv, WritingInv, OwnerInv, LocalInv, Pending, TypeOK
    <3>3. WritingInv(u)'
      BY <1>2, <1>3, <1>4, <1>22, Zenon DEF UnlockW, Goto, CountInv, FreeInv, PendingInv,
         AddWaitInv, WSemInv, WritingInv, OwnerInv, LocalInv, Pending, TypeOK
    <3> QED
      BY <3>1, <3>2, <3>3, Zenon
  <2> QED
    BY <1>1, <2>1, <2>2, <2>3, <2>4, <2>5, Zenon
<1> QED
  BY <1>5, <1>6, <1>7, <1>8, <1>9, <1>10, <1>11, <1>12, <1>13, <1>14, <1>15, <1>16, <1>17,
     <1>18, <1>19, <1>20, <1>21, <1>22, Zenon DEF Step, Call, Leave

-----------------------------------------------------------------------------
(* The theorems *)

\* IInv is an invariant of the lock.
THEOREM InductiveInvariant == Spec => []IInv
<1>1. IInv /\ [Next]_vars => IInv'
  <2> SUFFICES ASSUME IInv, [Next]_vars PROVE IInv'
    BY Zenon
  <2>1. CASE UNCHANGED vars
    BY <2>1, Zenon DEF vars, IInv, TypeOK, OwnerInv, LocalInv, CountInv, FreeInv,
               PendingInv, AddWaitInv, WSemInv, WritingInv, Pending, Num, At
  <2>2. CASE Next
    BY <2>2, StepInv, Zenon DEF Next
  <2> QED
    BY <2>1, <2>2, Zenon
<1> QED
  BY InitInv, <1>1, PTL DEF Spec

\* Every variable keeps its type; in particular no semaphore is ever taken
\* below zero.
THEOREM TypeCorrect == Spec => []TypeOK
<1>1. IInv => TypeOK
  BY Zenon DEF IInv
<1> QED
  BY InductiveInvariant, <1>1, PTL

\* For every finite set of threads, a writer holds the lock alone.
THEOREM WriterExcludesAll == Spec => []MutualExclusion
<1>1. IInv => MutualExclusion
  BY NumNat, Zenon DEF IInv, OwnerInv, PendingInv, WritingInv, MutualExclusion, TypeOK
<1> QED
  BY InductiveInvariant, <1>1, PTL

\* The misuse checks of RUnlock and Unlock never fire on correct clients.
THEOREM ChecksNeverMisfire == Spec => []NoSpuriousFatal
<1>1. IInv => NoSpuriousFatal
  BY Zenon DEF IInv, LocalInv, NoSpuriousFatal
<1> QED
  BY InductiveInvariant, <1>1, PTL

\* What syscall_hasWaitingReaders tells the thread that holds the write lock.
THEOREM HasWaitingReadersIsExact == Spec => []WaitingReadersExact
<1>1. IInv => WaitingReadersExact
  <2> SUFFICES ASSUME IInv, NEW t \in Threads, pc[t] = "writing"
               PROVE  hasWaitingReaders <=> \E u \in Threads : pc[u] = "rsem"
    BY Zenon DEF WaitingReadersExact
  <2>1. Pending /\ Num("reading") = 0
    BY ThreadsAssumption, Zenon DEF IInv, OwnerInv, Pending, PendingInv, WritingInv
  <2>2. readerCount = Num("rsem") - MaxReaders
    BY <2>1, NumNat, ThreadsAssumption DEF IInv, CountInv
  <2>3. /\ Num("rsem") \in Nat /\ Num("rsem") < MaxReaders
        /\ Num("rsem") = 0 <=> \A u \in Threads : pc[u] # "rsem"
    BY <2>1, NumNat, NumBound
  <2> QED
    BY <2>2, <2>3, ThreadsAssumption DEF hasWaitingReaders
<1> QED
  BY InductiveInvariant, <1>1, PTL

\* A lock that every thread has left is as new.
THEOREM QuiescentLockIsFresh == Spec => []QuiescentIsFresh
<1>1. IInv => QuiescentIsFresh
  <2> SUFFICES ASSUME IInv, \A t \in Threads : pc[t] = "idle"
               PROVE  /\ w = NoThread
                      /\ writerSem = 0 /\ readerSem = 0
                      /\ readerCount = 0 /\ readerWait = 0
    BY Zenon DEF QuiescentIsFresh
  <2>1. w = NoThread /\ ~Pending
    BY Zenon DEF IInv, OwnerInv, TypeOK, Pending
  <2>2. Num("reading") = 0 /\ Num("rsem") = 0
    BY NumNat, Zenon
  <2> QED
    BY <2>1, <2>2 DEF IInv, CountInv, FreeInv, TypeOK
<1> QED
  BY InductiveInvariant, <1>1, PTL

-----------------------------------------------------------------------------
(***************************************************************************)
(* WaitGroup, for any finite sets of tasks and waiters.                    *)
(***************************************************************************)
Sleeping == {x \in Waiters : wpc[x] = "sema"}
AtEnd == {"check", "store", "release"}
AllPlaces == {"idle", "run", "load", "cas", "sema", "woken"} \cup AtEnd

(***************************************************************************)
(* A task whose Done has brought the counter to zero with waiters is alone *)
(* in the rest of Add; from then on until the last of the waiters has      *)
(* returned, no task runs and none can be added, because a waiter is still *)
(* in Wait.                                                                *)
(***************************************************************************)
Places ==
    /\ \A t \in Tasks : wpc[t] \in {"idle", "run"} \cup AtEnd
    /\ \A x \in Waiters : wpc[x] \in {"idle", "load", "cas", "sema", "woken"}
    /\ wpc \in [WG!Procs -> AllPlaces]

Numbers ==
    /\ counter \in Nat /\ waiters \in Nat /\ sema \in Nat /\ adds \in 0 .. MaxAdds
    /\ toRelease \in [Tasks -> 0 .. Cardinality(Waiters)] /\ DOMAIN loaded = WG!Procs
    /\ counter = Cardinality(WG!Running)

OneEnds == \A t, u \in Tasks : wpc[t] \in AtEnd /\ wpc[u] \in AtEnd => t = u

Ends ==
    \A t \in Tasks :
        /\ wpc[t] \in {"check", "store"} =>
              counter = 0 /\ waiters > 0 /\ sema = 0 /\ loaded[t] = <<0, waiters>>
        /\ wpc[t] = "release" => counter = 0 /\ waiters = 0 /\ toRelease[t] > 0

Drains == sema > 0 \/ (\E x \in Waiters : wpc[x] = "woken") => counter = 0 /\ waiters = 0

\* Every goroutine at the semaphore is counted once.
Balanced ==
    /\ \A t \in Tasks : wpc[t] = "release" =>
          Cardinality(Sleeping) = waiters + sema + toRelease[t]
    /\ (\A t \in Tasks : wpc[t] # "release") => Cardinality(Sleeping) = waiters + sema

Owed ==
    /\ pending \in [Waiters -> SUBSET WG!Running]
    /\ \A x \in Waiters : wpc[x] = "idle" => pending[x] = {}

Loaded == \A x \in Waiters : wpc[x] = "cas" => loaded[x][1] # 0

WaitInv ==
    /\ Places /\ Numbers /\ OneEnds /\ Ends /\ Drains /\ Balanced /\ Owed /\ Loaded
    /\ panic = {}

Finite == IsFiniteSet(Tasks) /\ IsFiniteSet(Waiters) /\ Tasks \cap Waiters = {} /\ MaxAdds \in Nat

\* The number of elements of a finite set that an element joins or leaves.
LEMMA Joins ==
  ASSUME NEW S, IsFiniteSet(S), NEW y, y \notin S
  PROVE  Cardinality(S \cup {y}) = Cardinality(S) + 1
  BY FS_AddElement, Zenon

\* The number of elements of a finite set that an element leaves.
LEMMA Leaves ==
  ASSUME NEW S, IsFiniteSet(S), NEW y \in S
  PROVE  Cardinality(S \ {y}) = Cardinality(S) - 1 /\ Cardinality(S) >= 1
<1>1. Cardinality(S \ {y}) = Cardinality(S) - 1
  BY FS_RemoveElement, Zenon
<1>2. Cardinality(S) \in Nat /\ Cardinality(S \ {y}) \in Nat
  BY FS_CardinalityType, FS_RemoveElement, Zenon
<1>3. QED
  BY <1>1, <1>2

\* Tasks and waiters that are somewhere are finitely many.
LEMMA Finitely ==
  ASSUME Finite
  PROVE  /\ IsFiniteSet(WG!Running) /\ IsFiniteSet(Sleeping)
         /\ Cardinality(WG!Running) \in Nat /\ Cardinality(Sleeping) \in Nat
         /\ Cardinality(WG!Running) = 0 <=> WG!Running = {}
         /\ Cardinality(Sleeping) = 0 <=> Sleeping = {}
         /\ Cardinality(Sleeping) <= Cardinality(Waiters) /\ Cardinality(Waiters) \in Nat
<1>1. WG!Running \subseteq Tasks /\ Sleeping \subseteq Waiters
  BY Zenon DEF WG!Running, Sleeping
<1>2. IsFiniteSet(WG!Running) /\ IsFiniteSet(Sleeping)
  BY <1>1, FS_Subset, Zenon DEF Finite
<1>3. Cardinality(Sleeping) <= Cardinality(Waiters)
  BY <1>1, FS_Subset, Zenon DEF Finite
<1>4. QED
  BY <1>2, <1>3, FS_CardinalityType, FS_EmptySet, Zenon DEF Finite

\* While a task runs, nobody is being released.
LEMMA RunningIsQuiet ==
  ASSUME Finite, WaitInv, WG!Running # {}
  PROVE  /\ counter > 0 /\ sema = 0
         /\ \A t \in Tasks : wpc[t] \notin AtEnd
         /\ \A x \in Waiters : wpc[x] # "woken"
         /\ Cardinality(Sleeping) = waiters
<1>1. counter > 0
  BY Finitely DEF WaitInv, Numbers
<1>2. sema = 0 /\ \A x \in Waiters : wpc[x] # "woken"
  BY <1>1 DEF WaitInv, Numbers, Drains
<1>3. \A t \in Tasks : wpc[t] \notin AtEnd
  BY <1>1 DEF WaitInv, Numbers, Ends, AtEnd
<1>4. QED
  BY <1>1, <1>2, <1>3 DEF WaitInv, Numbers, Balanced, AtEnd

\* When no task runs and nobody is in Wait, the WaitGroup is as new.
LEMMA UnusedIsQuiet ==
  ASSUME Finite, WaitInv, WG!Waiting = {}
  PROVE  /\ waiters = 0 /\ sema = 0
         /\ \A t \in Tasks : wpc[t] \notin AtEnd
         /\ \A x \in Waiters : wpc[x] # "woken"
         /\ Cardinality(Sleeping) = waiters
<1>1. \A x \in Waiters : wpc[x] = "idle"
  BY Zenon DEF WG!Waiting
<1>2. Sleeping = {}
  BY <1>1, Zenon DEF Sleeping
<1>3. Cardinality(Sleeping) = 0
  BY <1>2, Finitely, Zenon
<1>4. \A t \in Tasks : wpc[t] # "release"
  BY <1>3 DEF WaitInv, Numbers, Balanced, Ends
<1>5. waiters = 0 /\ sema = 0
  BY <1>3, <1>4 DEF WaitInv, Numbers, Balanced
<1>6. \A t \in Tasks : wpc[t] \notin AtEnd
  BY <1>4, <1>5 DEF WaitInv, Ends, AtEnd
<1>7. QED
  BY <1>1, <1>3, <1>5, <1>6, Zenon

\* A new WaitGroup satisfies the inductive invariant.
LEMMA WaitInit ==
  ASSUME Finite, WG!Init
  PROVE  WaitInv
<1>1. WG!Running = {} /\ Sleeping = {}
  BY Zenon DEF Finite, WG!Init, WG!Running, Sleeping, WG!Procs
<1>2. Places
  BY Zenon DEF WG!Init, Places, WG!Procs, AllPlaces
<1>3. Numbers
  <2>1. 0 \in 0 .. Cardinality(Waiters) /\ Cardinality(WG!Running) = 0
    BY <1>1, FS_EmptySet, Finitely
  <2>2. QED
    BY <2>1 DEF Finite, WG!Init, Numbers
<1>4. OneEnds /\ Ends
  BY Zenon DEF WG!Init, OneEnds, Ends, AtEnd, WG!Procs
<1>5. Drains /\ Loaded
  BY Zenon DEF WG!Init, Drains, Loaded, WG!Procs
<1>6. Balanced
  BY <1>1, FS_EmptySet DEF WG!Init, Balanced, WG!Procs
<1>7. Owed
  BY Zenon DEF WG!Init, Owed
<1>8. QED
  BY <1>2, <1>3, <1>4, <1>5, <1>6, <1>7, Zenon DEF WG!Init, WaitInv

\* Add(1) finds the WaitGroup in use by running tasks, or as new.
LEMMA AddStep ==
  ASSUME Finite, WaitInv, NEW t \in Tasks, WG!Add(t)
  PROVE  WaitInv'
<1>0. t \in WG!Procs /\ t \notin Waiters /\ wpc[t] = "idle"
  BY Zenon DEF Finite, WG!Add, WG!Goto, WG!Procs
<1>1. /\ sema = 0 /\ Cardinality(Sleeping) = waiters /\ (counter = 0 => waiters = 0)
      /\ \A u \in Tasks : wpc[u] \notin AtEnd
      /\ \A x \in Waiters : wpc[x] # "woken"
  <2>1. CASE WG!Running = {}
    BY <2>1, UnusedIsQuiet, Zenon DEF WG!Add
  <2>2. CASE WG!Running # {}
    BY <2>2, RunningIsQuiet
  <2>3. QED
    BY <2>1, <2>2, Zenon
<1>2. /\ wpc' = [wpc EXCEPT ![t] = "run"] /\ counter' = counter + 1 /\ adds' = adds + 1
      /\ adds < MaxAdds
      /\ UNCHANGED <<waiters, sema, loaded, toRelease, pending>>
  BY Zenon DEF WG!Add, WG!Goto
<1>3. wpc'[t] = "run" /\ \A q \in WG!Procs \ {t} : wpc'[q] = wpc[q]
  BY <1>0, <1>2, Zenon DEF WaitInv, Places
<1>4. WG!Running' = WG!Running \cup {t} /\ t \notin WG!Running
  BY <1>0, <1>3, Zenon DEF WG!Running, WG!Procs
<1>5. Sleeping' = Sleeping
  BY <1>0, <1>3, Zenon DEF Sleeping, WG!Procs
<1>6. Places'
  BY <1>0, <1>2, <1>3, Zenon DEF WaitInv, Places, WG!Procs, AllPlaces
<1>7. Numbers'
  BY <1>2, <1>4, Joins, Finitely DEF WaitInv, Numbers, Finite
<1>8. (\A u \in Tasks : wpc'[u] \notin AtEnd) /\ \A x \in Waiters : wpc'[x] = wpc[x]
  BY <1>0, <1>1, <1>3, Zenon DEF AtEnd, WG!Procs
<1>9. OneEnds' /\ Ends' /\ Drains' /\ Loaded'
  BY <1>1, <1>2, <1>8 DEF WaitInv, OneEnds, Ends, Drains, Loaded, AtEnd
<1>10. Balanced'
  BY <1>1, <1>2, <1>5, <1>8, Zenon DEF WaitInv, Numbers, Balanced, AtEnd
<1>11. Owed'
  BY <1>2, <1>4, <1>8, Zenon DEF WaitInv, Owed
<1>12. panic' = {}
  BY <1>1, Zenon DEF WG!Add, WaitInv
<1>13. QED
  BY <1>6, <1>7, <1>9, <1>10, <1>11, <1>12, Zenon DEF WaitInv

\* Done finds the counter positive; the last one finds nobody being released.
LEMMA DoneStep ==
  ASSUME Finite, WaitInv, NEW t \in Tasks, WG!Done(t)
  PROVE  WaitInv'
<1>0. t \in WG!Procs /\ t \notin Waiters /\ wpc[t] = "run" /\ t \in WG!Running
  BY Zenon DEF Finite, WG!Done, WG!Procs, WG!Running
<1>1. /\ counter > 0 /\ sema = 0 /\ Cardinality(Sleeping) = waiters
      /\ \A u \in Tasks : wpc[u] \notin AtEnd
      /\ \A x \in Waiters : wpc[x] # "woken"
  BY <1>0, RunningIsQuiet, Zenon
<1>2. PICK to \in {"idle", "check"} :
        wpc' = [wpc EXCEPT ![t] = to] /\ (to = "check" => ~(counter - 1 > 0) /\ waiters # 0)
  BY Zenon DEF WG!Done
<1>3. /\ counter' = counter - 1 /\ loaded' = [loaded EXCEPT ![t] = <<counter - 1, waiters>>]
      /\ pending' = [x \in Waiters |-> pending[x] \ {t}]
      /\ UNCHANGED <<waiters, sema, toRelease, adds>>
  BY Zenon DEF WG!Done
<1>4. wpc'[t] = to /\ \A q \in WG!Procs \ {t} : wpc'[q] = wpc[q]
  BY <1>0, <1>2, Zenon DEF WaitInv, Places
<1>5. WG!Running' = WG!Running \ {t}
  BY <1>0, <1>4, Zenon DEF WG!Running, WG!Procs
<1>6. Sleeping' = Sleeping /\ \A x \in Waiters : wpc'[x] = wpc[x]
  BY <1>0, <1>4, Zenon DEF Sleeping, WG!Procs
<1>7. Places'
  BY <1>0, <1>2, <1>4, Zenon DEF WaitInv, Places, WG!Procs, AtEnd, AllPlaces
<1>8. counter - 1 \in Nat
  BY <1>1 DEF WaitInv, Numbers
<1>9. Numbers'
  BY <1>0, <1>3, <1>5, <1>8, Leaves, Finitely, Zenon DEF WaitInv, Numbers
<1>10. \A u \in Tasks : wpc'[u] \in AtEnd => u = t /\ wpc'[u] = "check" /\ to = "check"
  BY <1>1, <1>4, Zenon DEF AtEnd, WG!Procs
<1>11. OneEnds'
  BY <1>10, Zenon DEF OneEnds
<1>12. loaded'[t] = <<counter - 1, waiters>> /\ \A x \in Waiters : loaded'[x] = loaded[x]
  BY <1>0, <1>3, Zenon DEF WaitInv, Numbers, WG!Procs
<1>13. Ends'
  BY <1>1, <1>2, <1>3, <1>8, <1>10, <1>12 DEF WaitInv, Numbers, Ends, AtEnd
<1>14. Drains' /\ Loaded'
  BY <1>1, <1>3, <1>6, <1>12 DEF WaitInv, Drains, Loaded
<1>15. Balanced'
  BY <1>1, <1>3, <1>6, <1>10, Zenon DEF WaitInv, Numbers, Balanced, AtEnd
<1>16. Owed'
  BY <1>3, <1>5, <1>6, Zenon DEF WaitInv, Owed
<1>17. panic' = {}
  <2>1. ~(counter - 1 < 0)
    BY <1>8
  <2>2. QED
    BY <2>1, Zenon DEF WG!Done, WaitInv
<1>18. QED
  BY <1>7, <1>9, <1>11, <1>13, <1>14, <1>15, <1>16, <1>17, Zenon DEF WaitInv

\* One goroutine moves.
LEMMA Moves ==
  ASSUME WaitInv, NEW p \in WG!Procs, NEW to \in AllPlaces, wpc' = [wpc EXCEPT ![p] = to]
  PROVE  /\ wpc' \in [WG!Procs -> AllPlaces] /\ wpc'[p] = to
         /\ \A q \in WG!Procs \ {p} : wpc'[q] = wpc[q]
  BY Zenon DEF WaitInv, Places

\* The end of Add: nobody has changed the state since it became zero.
LEMMA CheckStep ==
  ASSUME Finite, WaitInv, NEW t \in Tasks, WG!AddCheck(t)
  PROVE  WaitInv'
<1>0. t \in WG!Procs /\ t \notin Waiters /\ wpc[t] = "check" /\ wpc' = [wpc EXCEPT ![t] = "store"]
  BY Zenon DEF Finite, WG!AddCheck, WG!Goto, WG!Procs
<1>1. UNCHANGED <<counter, waiters, sema, loaded, toRelease, adds, pending>>
  BY Zenon DEF WG!AddCheck
<1>2. wpc' \in [WG!Procs -> AllPlaces] /\ wpc'[t] = "store" /\ \A q \in WG!Procs \ {t} : wpc'[q] = wpc[q]
  BY <1>0, Moves, Zenon DEF AllPlaces, AtEnd
<1>3. WG!Running' = WG!Running /\ Sleeping' = Sleeping /\ \A x \in Waiters : wpc'[x] = wpc[x]
  BY <1>0, <1>2, Zenon DEF WG!Running, Sleeping, WG!Procs
<1>4. \A u \in Tasks : wpc'[u] \in AtEnd <=> wpc[u] \in AtEnd
  BY <1>0, <1>2, Zenon DEF WG!Procs, AtEnd
<1>5. Places' /\ Numbers'
  BY <1>0, <1>1, <1>2, <1>3, Zenon DEF WaitInv, Places, Numbers, WG!Procs, AtEnd
<1>6. OneEnds' /\ Drains' /\ Loaded' /\ Owed'
  BY <1>1, <1>3, <1>4, Zenon DEF WaitInv, OneEnds, Drains, Loaded, Owed
<1>7. Ends'
  BY <1>0, <1>1, <1>2, Zenon DEF WaitInv, Ends, WG!Procs
<1>8. Balanced'
  BY <1>0, <1>1, <1>2, <1>3, Zenon DEF WaitInv, Balanced, WG!Procs
<1>9. panic' = {}
  BY <1>0, Zenon DEF WG!AddCheck, WaitInv, Ends, WG!state
<1>10. QED
  BY <1>5, <1>6, <1>7, <1>8, <1>9, Zenon DEF WaitInv

\* The waiters of the state become the releases to be made.
LEMMA StoreStep ==
  ASSUME Finite, WaitInv, NEW t \in Tasks, WG!AddStore(t)
  PROVE  WaitInv'
<1>0. t \in WG!Procs /\ t \notin Waiters /\ wpc[t] = "store" /\ wpc' = [wpc EXCEPT ![t] = "release"]
  BY Zenon DEF Finite, WG!AddStore, WG!Goto, WG!Procs
<1>1. counter' = 0 /\ waiters' = 0 /\ UNCHANGED <<sema, loaded, adds, pending, panic>>
  BY Zenon DEF WG!AddStore
<1>2. wpc' \in [WG!Procs -> AllPlaces] /\ wpc'[t] = "release" /\ \A q \in WG!Procs \ {t} : wpc'[q] = wpc[q]
  BY <1>0, Moves, Zenon DEF AllPlaces, AtEnd
<1>3. WG!Running' = WG!Running /\ Sleeping' = Sleeping /\ \A x \in Waiters : wpc'[x] = wpc[x]
  BY <1>0, <1>2, Zenon DEF WG!Running, Sleeping, WG!Procs
<1>4. counter = 0 /\ waiters > 0 /\ sema = 0 /\ loaded[t] = <<0, waiters>>
  BY <1>0, Zenon DEF WaitInv, Ends
<1>5. \A u \in Tasks : wpc[u] # "release"
  BY <1>0, Zenon DEF WaitInv, OneEnds, AtEnd
<1>6. Cardinality(Sleeping) = waiters
  BY <1>4, <1>5 DEF WaitInv, Balanced, Numbers
<1>7. toRelease' \in [Tasks -> 0 .. Cardinality(Waiters)] /\ toRelease'[t] = waiters
  BY <1>4, <1>6, Finitely DEF WG!AddStore, WaitInv, Numbers
<1>8. \A u \in Tasks : wpc'[u] \in AtEnd => u = t
  BY <1>0, <1>2, Zenon DEF WaitInv, OneEnds, WG!Procs, AtEnd
<1>9. Places'
  BY <1>0, <1>2, <1>3, Zenon DEF WaitInv, Places, WG!Procs, AtEnd
<1>10. Numbers'
  BY <1>1, <1>3, <1>4, <1>7, Zenon DEF WaitInv, Numbers
<1>11. OneEnds' /\ Drains' /\ Loaded' /\ Owed'
  BY <1>1, <1>3, <1>8, Zenon DEF WaitInv, OneEnds, Drains, Loaded, Owed
<1>12. Ends'
  BY <1>1, <1>2, <1>4, <1>7, <1>8, Zenon DEF Ends, AtEnd
<1>13. Balanced'
  BY <1>1, <1>2, <1>3, <1>4, <1>7, <1>8, <1>6 DEF Balanced, AtEnd, WaitInv, Numbers
<1>14. QED
  BY <1>1, <1>9, <1>10, <1>11, <1>12, <1>13, Zenon DEF WaitInv

\* A Semrelease.
LEMMA ReleaseStep ==
  ASSUME Finite, WaitInv, NEW t \in Tasks, WG!AddRelease(t)
  PROVE  WaitInv'
<1>0. t \in WG!Procs /\ t \notin Waiters /\ wpc[t] = "release"
  BY Zenon DEF Finite, WG!AddRelease, WG!Procs
<1>1. sema' = sema + 1 /\ toRelease' = [toRelease EXCEPT ![t] = toRelease[t] - 1]
      /\ UNCHANGED <<counter, waiters, loaded, adds, pending, panic>>
  BY Zenon DEF WG!AddRelease
<1>2. PICK to \in {"idle", "release"} :
        wpc' = [wpc EXCEPT ![t] = to] /\ (to = "idle" <=> toRelease[t] = 1)
  BY Zenon DEF WG!AddRelease
<1>3. wpc' \in [WG!Procs -> AllPlaces] /\ wpc'[t] = to /\ \A q \in WG!Procs \ {t} : wpc'[q] = wpc[q]
  BY <1>0, <1>2, Moves, Zenon DEF AllPlaces, AtEnd
<1>4. WG!Running' = WG!Running /\ Sleeping' = Sleeping /\ \A x \in Waiters : wpc'[x] = wpc[x]
  BY <1>0, <1>3, Zenon DEF WG!Running, Sleeping, WG!Procs
<1>5. counter = 0 /\ waiters = 0 /\ toRelease[t] \in Nat /\ toRelease[t] > 0
  BY <1>0, Finitely DEF WaitInv, Ends, Numbers
<1>6. /\ toRelease' \in [Tasks -> 0 .. Cardinality(Waiters)]
      /\ toRelease'[t] = toRelease[t] - 1
  BY <1>1, <1>5, Finitely DEF WaitInv, Numbers
<1>7. \A u \in Tasks : wpc'[u] \in AtEnd => u = t /\ to = "release"
  BY <1>0, <1>2, <1>3, Zenon DEF WaitInv, OneEnds, WG!Procs, AtEnd
<1>8. Places'
  BY <1>0, <1>2, <1>3, <1>4, Zenon DEF WaitInv, Places, WG!Procs, AtEnd
<1>9. Numbers'
  <2>1. sema' \in Nat
    BY <1>1 DEF WaitInv, Numbers
  <2>2. QED
    BY <1>1, <1>4, <1>6, <2>1, Zenon DEF WaitInv, Numbers
<1>10. OneEnds' /\ Drains' /\ Loaded' /\ Owed'
  BY <1>1, <1>4, <1>5, <1>7 DEF WaitInv, OneEnds, Drains, Loaded, Owed
<1>11. Ends'
  BY <1>1, <1>2, <1>3, <1>5, <1>6, <1>7 DEF Ends, AtEnd
<1>12. Cardinality(Sleeping) = sema + toRelease[t]
  BY <1>0, <1>5 DEF WaitInv, Balanced, Numbers
<1>13. Balanced'
  BY <1>1, <1>2, <1>3, <1>4, <1>5, <1>6, <1>7, <1>12 DEF Balanced, AtEnd, WaitInv, Numbers
<1>14. QED
  BY <1>1, <1>8, <1>9, <1>10, <1>11, <1>13, Zenon DEF WaitInv

\* A waiter moves from a place to another.
LEMMA WaiterMoves ==
  ASSUME Finite, WaitInv, NEW x \in Waiters, NEW to \in {"idle", "load", "cas", "sema", "woken"},
         wpc' = [wpc EXCEPT ![x] = to]
  PROVE  /\ Places' /\ wpc'[x] = to /\ WG!Running' = WG!Running
         /\ \A t \in Tasks : wpc'[t] = wpc[t]
         /\ \A y \in Waiters \ {x} : wpc'[y] = wpc[y]
         /\ OneEnds'
<1>1. wpc' \in [WG!Procs -> AllPlaces] /\ wpc'[x] = to /\ \A q \in WG!Procs \ {x} : wpc'[q] = wpc[q]
  BY Moves, Zenon DEF AllPlaces, WG!Procs
<1>2. /\ \A t \in Tasks : wpc'[t] = wpc[t]
      /\ \A y \in Waiters \ {x} : wpc'[y] = wpc[y]
  BY <1>1, Zenon DEF Finite, WG!Procs
<1>3. WG!Running' = WG!Running /\ OneEnds'
  BY <1>2, Zenon DEF WG!Running, WaitInv, OneEnds
<1>4. Places'
  BY <1>1, <1>2, Zenon DEF WaitInv, Places
<1>5. QED
  BY <1>1, <1>2, <1>3, <1>4, Zenon

\* Wait notes the tasks that run, and loads the state.
LEMMA LoadStep ==
  ASSUME Finite, WaitInv, NEW x \in Waiters, WG!Wait(x) \/ WG!WaitLoad(x)
  PROVE  WaitInv'
<1>0. UNCHANGED <<counter, waiters, sema, toRelease, adds, panic>>
  BY Zenon DEF WG!Wait, WG!WaitLoad
<1>1. PICK to \in {"idle", "load", "cas"} :
        /\ wpc' = [wpc EXCEPT ![x] = to]
        /\ to = "idle" => counter = 0 /\ pending' = pending
        /\ to = "cas" => counter # 0 /\ loaded' = [loaded EXCEPT ![x] = WG!state]
        /\ wpc[x] \in {"idle", "load"}
  BY Zenon DEF WG!Wait, WG!WaitLoad, WG!Goto
<1>2. /\ Places' /\ wpc'[x] = to /\ WG!Running' = WG!Running /\ OneEnds'
      /\ \A t \in Tasks : wpc'[t] = wpc[t]
      /\ \A y \in Waiters \ {x} : wpc'[y] = wpc[y]
  BY <1>1, WaiterMoves, Zenon
<1>3. Sleeping' = Sleeping
  BY <1>1, <1>2, Zenon DEF Sleeping
<1>4. /\ DOMAIN loaded' = WG!Procs /\ \A q \in WG!Procs \ {x} : loaded'[q] = loaded[q]
      /\ to = "cas" => loaded'[x] = WG!state
  <2>1. CASE loaded' = loaded
    BY <1>1, <2>1, Zenon DEF WaitInv, Numbers, WG!Procs
  <2>2. CASE loaded' = [loaded EXCEPT ![x] = WG!state]
    BY <1>1, <2>2, Zenon DEF WaitInv, Numbers, WG!Procs
  <2>3. QED
    BY <2>1, <2>2, Zenon DEF WG!Wait, WG!WaitLoad
<1>5. Numbers'
  BY <1>0, <1>2, <1>4, Zenon DEF WaitInv, Numbers
<1>6. \A t \in Tasks : loaded'[t] = loaded[t]
  BY <1>4, Zenon DEF Finite, WG!Procs
<1>7. Ends'
  BY <1>0, <1>2, <1>6, Zenon DEF WaitInv, Ends
<1>8. Drains' /\ Balanced'
  BY <1>0, <1>1, <1>2, <1>3, Zenon DEF WaitInv, Drains, Balanced
<1>9. Loaded'
  BY <1>1, <1>2, <1>4 DEF WaitInv, Loaded, WG!state, WG!Procs
<1>10. Owed'
  <2>1. pending' \in [Waiters -> SUBSET WG!Running] /\ \A y \in Waiters \ {x} : pending'[y] = pending[y]
    <3>1. CASE pending' = pending
      BY <3>1, Zenon DEF WaitInv, Owed
    <3>2. CASE pending' = [pending EXCEPT ![x] = WG!Running]
      BY <3>2, Zenon DEF WaitInv, Owed
    <3>3. QED
      BY <3>1, <3>2, Zenon DEF WG!Wait, WG!WaitLoad
  <2>2. to = "idle" => pending'[x] = {}
    <3>1. counter = 0 => WG!Running = {}
      BY Finitely, Zenon DEF WaitInv, Numbers
    <3>2. QED
      BY <1>1, <2>1, <3>1, Zenon
  <2>3. QED
    BY <1>1, <1>2, <2>1, <2>2, Zenon DEF WaitInv, Owed
<1>11. QED
  BY <1>0, <1>2, <1>5, <1>7, <1>8, <1>9, <1>10, Zenon DEF WaitInv

\* A waiter that counts itself finds the counter it has loaded, not zero.
LEMMA CASStep ==
  ASSUME Finite, WaitInv, NEW x \in Waiters, WG!WaitCAS(x)
  PROVE  WaitInv'
<1>0. wpc[x] = "cas" /\ UNCHANGED <<counter, sema, loaded, toRelease, adds, pending, panic>>
  BY Zenon DEF WG!WaitCAS, WG!Goto
<1>1. CASE WG!state = loaded[x]
  <2>1. waiters' = waiters + 1 /\ wpc' = [wpc EXCEPT ![x] = "sema"]
    BY <1>1, Zenon DEF WG!WaitCAS, WG!Goto
  <2>2. counter # 0
    BY <1>0, <1>1 DEF WaitInv, Loaded, WG!state
  <2>3. WG!Running # {}
    BY <2>2, Finitely, Zenon DEF WaitInv, Numbers
  <2>4. /\ counter > 0 /\ sema = 0 /\ Cardinality(Sleeping) = waiters
        /\ \A t \in Tasks : wpc[t] \notin AtEnd
        /\ \A y \in Waiters : wpc[y] # "woken"
    BY <2>3, RunningIsQuiet, Zenon
  <2>5. /\ Places' /\ wpc'[x] = "sema" /\ WG!Running' = WG!Running /\ OneEnds'
        /\ \A t \in Tasks : wpc'[t] = wpc[t]
        /\ \A y \in Waiters \ {x} : wpc'[y] = wpc[y]
    BY <2>1, WaiterMoves, Zenon
  <2>6. Sleeping' = Sleeping \cup {x} /\ x \notin Sleeping
    BY <1>0, <2>5, Zenon DEF Sleeping
  <2>7. Cardinality(Sleeping') = waiters'
    BY <2>1, <2>4, <2>6, Joins, Finitely, Zenon
  <2>8. Numbers'
    BY <1>0, <2>1, <2>5 DEF WaitInv, Numbers
  <2>9. Ends' /\ Drains' /\ Loaded'
    BY <1>0, <2>4, <2>5 DEF WaitInv, Ends, Drains, Loaded, AtEnd
  <2>10. Balanced'
    <3>1. \A t \in Tasks : wpc'[t] # "release"
      BY <2>4, <2>5, Zenon DEF AtEnd
    <3>2. waiters' + sema' = waiters'
      BY <1>0, <2>1, <2>4, <2>8 DEF Numbers
    <3>3. Cardinality(Sleeping') = waiters' + sema'
      BY <2>7, <3>2, Zenon
    <3>4. QED
      BY <3>1, <3>3, Zenon DEF Balanced
  <2>11. Owed'
    BY <1>0, <2>5, Zenon DEF WaitInv, Owed
  <2>12. QED
    BY <1>0, <2>5, <2>8, <2>9, <2>10, <2>11, Zenon DEF WaitInv
<1>2. CASE WG!state # loaded[x]
  <2>1. waiters' = waiters /\ wpc' = [wpc EXCEPT ![x] = "load"]
    BY <1>2, Zenon DEF WG!WaitCAS, WG!Goto
  <2>2. /\ Places' /\ wpc'[x] = "load" /\ WG!Running' = WG!Running /\ OneEnds'
        /\ \A t \in Tasks : wpc'[t] = wpc[t]
        /\ \A y \in Waiters \ {x} : wpc'[y] = wpc[y]
    BY <2>1, WaiterMoves, Zenon
  <2>3. Sleeping' = Sleeping
    BY <1>0, <2>2, Zenon DEF Sleeping
  <2>4. Numbers' /\ Owed'
    BY <1>0, <2>1, <2>2, Zenon DEF WaitInv, Numbers, Owed
  <2>5. Ends' /\ Drains' /\ Loaded'
    BY <1>0, <2>1, <2>2, Zenon DEF WaitInv, Ends, Drains, Loaded
  <2>6. Balanced'
    BY <1>0, <2>1, <2>2, <2>3, Zenon DEF WaitInv, Balanced
  <2>7. QED
    BY <1>0, <2>2, <2>4, <2>5, <2>6, Zenon DEF WaitInv
<1>3. QED
  BY <1>1, <1>2, Zenon

\* A waiter takes one of the releases made for it and its fellows.
LEMMA SemaStep ==
  ASSUME Finite, WaitInv, NEW x \in Waiters, WG!WaitSema(x)
  PROVE  WaitInv'
<1>0. /\ wpc[x] = "sema" /\ wpc' = [wpc EXCEPT ![x] = "woken"] /\ sema > 0 /\ sema' = sema - 1
      /\ UNCHANGED <<counter, waiters, loaded, toRelease, adds, pending, panic>>
  BY Zenon DEF WG!WaitSema, WG!Goto
<1>1. counter = 0 /\ waiters = 0 /\ sema - 1 \in Nat /\ sema \in Nat
  BY <1>0 DEF WaitInv, Drains, Numbers
<1>2. /\ Places' /\ wpc'[x] = "woken" /\ WG!Running' = WG!Running /\ OneEnds'
      /\ \A t \in Tasks : wpc'[t] = wpc[t]
      /\ \A y \in Waiters \ {x} : wpc'[y] = wpc[y]
  BY <1>0, WaiterMoves, Zenon
<1>3. Sleeping' = Sleeping \ {x} /\ x \in Sleeping
  BY <1>0, <1>2, Zenon DEF Sleeping
<1>4. Cardinality(Sleeping') = Cardinality(Sleeping) - 1 /\ Cardinality(Sleeping) \in Nat
  BY <1>3, Leaves, Finitely, Zenon
<1>5. Numbers'
  BY <1>0, <1>1, <1>2, Zenon DEF WaitInv, Numbers
<1>6. Ends'
  BY <1>0, <1>1, <1>2 DEF WaitInv, Ends
<1>7. Drains' /\ Loaded' /\ Owed'
  BY <1>0, <1>1, <1>2, Zenon DEF WaitInv, Drains, Loaded, Owed
<1>8. Balanced'
  <2>1. ASSUME NEW t \in Tasks, wpc'[t] = "release"
        PROVE  Cardinality(Sleeping') = waiters' + sema' + toRelease'[t]
    <3>1. Cardinality(Sleeping) = waiters + sema + toRelease[t]
      BY <1>2, <2>1, Zenon DEF WaitInv, Balanced
    <3>2. toRelease[t] \in Nat
      BY Finitely DEF WaitInv, Numbers
    <3>3. waiters \in Nat /\ sema \in Nat
      BY Zenon DEF WaitInv, Numbers
    <3>4. QED
      BY <1>0, <1>1, <1>4, <3>1, <3>2, <3>3
  <2>2. ASSUME \A t \in Tasks : wpc'[t] # "release"
        PROVE  Cardinality(Sleeping') = waiters' + sema'
    <3>1. Cardinality(Sleeping) = waiters + sema
      BY <1>2, <2>2, Zenon DEF WaitInv, Balanced
    <3>2. QED
      BY <1>0, <1>1, <1>4, <3>1
  <2>3. QED
    BY <2>1, <2>2, Zenon DEF Balanced
<1>9. QED
  BY <1>0, <1>2, <1>5, <1>6, <1>7, <1>8, Zenon DEF WaitInv

\* A waiter that was woken finds the state zero, and returns.
LEMMA ReturnStep ==
  ASSUME Finite, WaitInv, NEW x \in Waiters, WG!WaitReturn(x)
  PROVE  WaitInv'
<1>0. /\ wpc[x] = "woken" /\ wpc' = [wpc EXCEPT ![x] = "idle"]
      /\ UNCHANGED <<counter, waiters, sema, loaded, toRelease, adds, pending>>
  BY Zenon DEF WG!WaitReturn, WG!Goto
<1>1. counter = 0 /\ waiters = 0
  BY <1>0, Zenon DEF WaitInv, Drains
<1>2. /\ Places' /\ wpc'[x] = "idle" /\ WG!Running' = WG!Running /\ OneEnds'
      /\ \A t \in Tasks : wpc'[t] = wpc[t]
      /\ \A y \in Waiters \ {x} : wpc'[y] = wpc[y]
  BY <1>0, WaiterMoves, Zenon
<1>3. Sleeping' = Sleeping
  BY <1>0, <1>2, Zenon DEF Sleeping
<1>4. Numbers' /\ Ends'
  BY <1>0, <1>2, Zenon DEF WaitInv, Numbers, Ends
<1>5. Drains' /\ Loaded' /\ Balanced'
  BY <1>0, <1>1, <1>2, <1>3, Zenon DEF WaitInv, Drains, Loaded, Balanced
<1>6. Owed'
  <2>1. WG!Running = {}
    BY <1>1, Finitely, Zenon DEF WaitInv, Numbers
  <2>2. QED
    BY <1>0, <1>2, <2>1, Zenon DEF WaitInv, Owed
<1>7. panic' = {}
  BY <1>1, Zenon DEF WG!WaitReturn, WaitInv, WG!state
<1>8. QED
  BY <1>2, <1>4, <1>5, <1>6, <1>7, Zenon DEF WaitInv

\* No step of a task or of a waiter breaks the inductive invariant.
LEMMA WaitInvStep ==
  ASSUME Finite, WaitInv, [WG!Next]_(WG!vars)
  PROVE  WaitInv'
<1>1. CASE UNCHANGED WG!vars
  BY <1>1, Zenon DEF WG!vars, WaitInv, Places, Numbers, OneEnds, Ends, Drains, Balanced, Owed,
     Loaded, WG!Running, Sleeping, WG!Procs
<1>2. ASSUME NEW t \in Tasks, WG!Add(t) \/ WG!TaskStep(t) PROVE WaitInv'
  BY <1>2, AddStep, DoneStep, CheckStep, StoreStep, ReleaseStep, Zenon DEF WG!TaskStep
<1>3. ASSUME NEW x \in Waiters, WG!Wait(x) \/ WG!WaitStep(x) PROVE WaitInv'
  BY <1>3, LoadStep, CASStep, SemaStep, ReturnStep, Zenon DEF WG!WaitStep
<1>4. QED
  BY <1>1, <1>2, <1>3, Zenon DEF WG!Next

\* The inductive invariant contains what the WaitGroup promises.
LEMMA WaitInvSound ==
  ASSUME Finite, WaitInv
  PROVE  WaitSound
<1> DEFINE releasing == {t \in Tasks : wpc[t] = "release"}
<1>1. \A t, u \in releasing : t = u
  BY Zenon DEF WaitInv, OneEnds, AtEnd
<1>2. /\ Cardinality(Sleeping) \in Nat /\ Cardinality(Waiters) \in Nat
      /\ Cardinality(Sleeping) <= Cardinality(Waiters)
  BY Finitely, Zenon
<1>3. /\ Cardinality(releasing) <= 1 /\ waiters \in 0 .. Cardinality(Waiters)
      /\ sema \in 0 .. Cardinality(Waiters)
      /\ Cardinality(Sleeping) = waiters + sema + (IF releasing = {} THEN 0
                                      ELSE toRelease[CHOOSE t \in releasing : TRUE])
  <2>1. CASE releasing = {}
    <3>1. Cardinality(Sleeping) = waiters + sema /\ Cardinality(releasing) = 0
      BY <2>1, FS_EmptySet, Zenon DEF WaitInv, Balanced
    <3>2. QED
      BY <1>2, <2>1, <3>1 DEF WaitInv, Numbers
  <2>2. CASE releasing # {}
    <3>1. PICK t \in releasing : t = CHOOSE u \in releasing : TRUE
      BY <2>2, Zenon
    <3>2. releasing = {t}
      BY <1>1, Zenon
    <3>3. Cardinality(releasing) = 1
      BY <3>2, FS_Singleton, Zenon
    <3>4. Cardinality(Sleeping) = waiters + sema + toRelease[t] /\ toRelease[t] \in Nat
      BY Finitely DEF WaitInv, Balanced, Numbers
    <3>5. QED
      BY <1>2, <2>2, <3>1, <3>3, <3>4 DEF WaitInv, Numbers
  <2>3. QED
    BY <2>1, <2>2, Zenon
<1>4. \A S : WG!Cardinality(S) = Cardinality(S)
  BY Zenon DEF WG!Cardinality, Cardinality
<1>5. WG!TypeOK
  BY <1>3, <1>4, Zenon DEF WG!TypeOK, WG!Running, WaitInv, Places, Numbers, Sleeping, AtEnd
<1>6. QED
  BY <1>5, Zenon DEF WaitSound, WG!WaitSound, WaitInv, Owed

\* When WaitGroup.Wait has returned, every task that ran when it was called is
\* done; no waiter is lost or counted twice; and a program that keeps to the
\* rules of the documentation sees no panic of Add or Wait, for any finite
\* sets of tasks and waiters.
THEOREM WaitGroupSound ==
  ASSUME Finite
  PROVE  WG!Spec => []WaitSound
<1>1. WG!Init => WaitInv
  BY WaitInit, Zenon
<1>2. WaitInv /\ [WG!Next]_(WG!vars) => WaitInv'
  BY WaitInvStep, Zenon
<1>3. WaitInv => WaitSound
  BY WaitInvSound, Zenon
<1>4. QED
  BY <1>1, <1>2, <1>3, PTL DEF WG!Spec
=============================================================================
