------------------------------ MODULE PoolChain ------------------------------
(***************************************************************************)
(* poolChain (sync/poolqueue.go): a list of poolDequeues, each twice as    *)
(* large as the one before.  The producer pushes to the newest and pops    *)
(* from the newest backwards; consumers pop from the oldest and drop it    *)
(* when it is drained.  Each poolDequeue is the queue of module Deque,     *)
(* which PoolDequeue implements: its operations are atomic.  A consumer    *)
(* that has popped still has to hand the slot back, and a pushHead may     *)
(* fail because of that.                                                   *)
(*                                                                         *)
(* The elements of the list are numbered as they are allocated; 0 is nil.  *)
(* The producer is at idle; push, link (the dequeue was full), pushNew;    *)
(* popHead, popPrev.  A consumer is at idle; next (before it loads next),  *)
(* popTail, cas, prev (the CompareAndSwap won), clear (handing back).      *)
(***************************************************************************)
EXTENDS Naturals, Sequences, FiniteSets, SequencesExt

CONSTANTS Producer, Consumers,
          InitSize, Limit,      \* initSize and dequeueLimit
          MaxPush,              \* the values pushed are 1 .. MaxPush, in order
          Nil

VARIABLES
    head, tail,
    next, prev,         \* of each element
    queue,              \* the values in each element's dequeue, tail first
    pc,
    d, d2,              \* the locals of that name
    got,                \* what a goroutine has popped
    val                 \* the value pushed next

vars == <<head, tail, next, prev, queue, pc, d, d2, got, val>>

Procs == Consumers \cup {Producer}
Elts == 1 .. MaxPush

\* newSize of an element
Doubled[e \in Elts] ==
    IF e = 1 THEN InitSize
    ELSE IF Doubled[e - 1] * 2 >= Limit THEN Limit ELSE Doubled[e - 1] * 2

Init ==
    /\ head = 0 /\ tail = 0
    /\ next = [e \in Elts |-> 0] /\ prev = [e \in Elts |-> 0]
    /\ queue = [e \in Elts |-> <<>>]
    /\ pc = [p \in Procs |-> "idle"]
    /\ d = [p \in Procs |-> 0] /\ d2 = [p \in Procs |-> 0]
    /\ got = [p \in Procs |-> Nil] /\ val = 1

Goto(p, from, to) == pc[p] = from /\ pc' = [pc EXCEPT ![p] = to]
Set(f, p, x) == [f EXCEPT ![p] = x]

\* Consumers that have popped from e and still own the slot.
Clearing(e) == {p \in Consumers : pc[p] = "clear" /\ d[p] = e}

\* Whether pushHead on e can store a value, and whether it can fail.
HasRoom(e) == Len(queue[e]) + Cardinality(Clearing(e)) < Doubled[e]
CanFail(e) == Len(queue[e]) = Doubled[e] \/ Clearing(e) # {}

-----------------------------------------------------------------------------
(* pushHead *)

\* A nil head: the chain is initialized.
Push ==
    /\ val <= MaxPush
    /\ Goto(Producer, "idle", "push")
    /\ head' = IF head = 0 THEN 1 ELSE head
    /\ tail' = IF head = 0 THEN 1 ELSE tail
    /\ got' = Set(got, Producer, Nil)
    /\ UNCHANGED <<next, prev, queue, d, d2, val>>

PushHead ==
    /\ Goto(Producer, "push", "idle")
    /\ HasRoom(head)
    /\ queue' = [queue EXCEPT ![head] = Append(@, val)]
    /\ val' = val + 1
    /\ UNCHANGED <<head, tail, next, prev, d, d2, got>>

PushFails ==
    /\ Goto(Producer, "push", "link")
    /\ CanFail(head)
    /\ UNCHANGED <<head, tail, next, prev, queue, d, d2, got, val>>

\* The new element is seen by others when the old one's next is stored.
PushLink ==
    /\ Goto(Producer, "link", "pushNew")
    /\ prev' = [prev EXCEPT ![head + 1] = head]
    /\ next' = [next EXCEPT ![head] = head + 1]
    /\ head' = head + 1
    /\ UNCHANGED <<tail, queue, d, d2, got, val>>

\* The result of this pushHead is not looked at.
PushNew ==
    /\ Goto(Producer, "pushNew", "idle")
    /\ queue' = IF HasRoom(head) THEN [queue EXCEPT ![head] = Append(@, val)] ELSE queue
    /\ val' = val + 1
    /\ UNCHANGED <<head, tail, next, prev, d, d2, got>>

-----------------------------------------------------------------------------
(* popHead *)

PopHead ==
    /\ Goto(Producer, "idle", IF head = 0 THEN "idle" ELSE "popHead")
    /\ d' = Set(d, Producer, head)
    /\ got' = Set(got, Producer, Nil)
    /\ UNCHANGED <<head, tail, next, prev, queue, d2, val>>

PopHeadElt ==
    LET q == queue[d[Producer]]
    IN  /\ Goto(Producer, "popHead", IF q = <<>> THEN "popPrev" ELSE "idle")
        /\ got' = Set(got, Producer, IF q = <<>> THEN Nil ELSE Last(q))
        /\ queue' = IF q = <<>> THEN queue ELSE Set(queue, d[Producer], Front(q))
        /\ UNCHANGED <<head, tail, next, prev, d, d2, val>>

PopHeadPrev ==
    /\ Goto(Producer, "popPrev", IF prev[d[Producer]] = 0 THEN "idle" ELSE "popHead")
    /\ d' = Set(d, Producer, prev[d[Producer]])
    /\ UNCHANGED <<head, tail, next, prev, queue, d2, got, val>>

-----------------------------------------------------------------------------
(* popTail *)

PopTail(p) ==
    /\ Goto(p, "idle", IF tail = 0 THEN "idle" ELSE "next")
    /\ d' = Set(d, p, tail) /\ d2' = Set(d2, p, 0)
    /\ got' = Set(got, p, Nil)
    /\ UNCHANGED <<head, tail, next, prev, queue, val>>

\* "It's important that we load the next pointer *before* popping the tail."
PopTailNext(p) ==
    /\ Goto(p, "next", "popTail")
    /\ d2' = Set(d2, p, next[d[p]])
    /\ UNCHANGED <<head, tail, next, prev, queue, d, got, val>>

\* Mutant: an element that has a successor is taken to be drained.
PopTailEltHasty(p) ==
    LET q == queue[d[p]]
    IN  /\ Goto(p, "popTail", IF d2[p] # 0 THEN "cas" ELSE IF q # <<>> THEN "clear" ELSE "idle")
        /\ got' = Set(got, p, IF d2[p] # 0 \/ q = <<>> THEN Nil ELSE Head(q))
        /\ queue' = IF d2[p] # 0 \/ q = <<>> THEN queue ELSE Set(queue, d[p], Tail(q))
        /\ UNCHANGED <<head, tail, next, prev, d, d2, val>>

PopTailElt(p) ==
    LET q == queue[d[p]]
    IN  /\ Goto(p, "popTail", IF q # <<>> THEN "clear"
                              ELSE IF d2[p] = 0 THEN "idle" ELSE "cas")
        /\ got' = Set(got, p, IF q = <<>> THEN Nil ELSE Head(q))
        /\ queue' = IF q = <<>> THEN queue ELSE Set(queue, d[p], Tail(q))
        /\ UNCHANGED <<head, tail, next, prev, d, d2, val>>

PopTailClear(p) ==
    /\ Goto(p, "clear", "idle")
    /\ UNCHANGED <<head, tail, next, prev, queue, d, d2, got, val>>

PopTailCAS(p) ==
    /\ Goto(p, "cas", IF tail = d[p] THEN "prev" ELSE "next")
    /\ tail' = IF tail = d[p] THEN d2[p] ELSE tail
    /\ d' = IF tail = d[p] THEN d ELSE Set(d, p, d2[p])
    /\ UNCHANGED <<head, next, prev, queue, d2, got, val>>

PopTailPrev(p) ==
    /\ Goto(p, "prev", "next")
    /\ prev' = [prev EXCEPT ![d2[p]] = 0]
    /\ d' = Set(d, p, d2[p])
    /\ UNCHANGED <<head, tail, next, queue, d2, got, val>>

-----------------------------------------------------------------------------
ProducerNext ==
    \/ Push \/ PushHead \/ PushFails \/ PushLink \/ PushNew
    \/ PopHead \/ PopHeadElt \/ PopHeadPrev

ConsumerNext(p) ==
    \/ PopTail(p) \/ PopTailNext(p) \/ PopTailElt(p) \/ PopTailClear(p)
    \/ PopTailCAS(p) \/ PopTailPrev(p)

Next == ProducerNext \/ \E p \in Consumers : ConsumerNext(p)

Spec == Init /\ [][Next]_vars

-----------------------------------------------------------------------------
(* Properties *)

TypeOK ==
    /\ head \in Elts \cup {0} /\ tail \in Elts \cup {0}
    /\ next \in [Elts -> Elts \cup {0}] /\ prev \in [Elts -> Elts \cup {0}]
    /\ \A e \in Elts : Len(queue[e]) <= Doubled[e]
    /\ d \in [Procs -> Elts \cup {0}] /\ d2 \in [Procs -> Elts \cup {0}]

\* The elements a walk along the links visits, from the tail and from the head.
Forward == LET From[e \in Elts] == {e} \cup IF next[e] = 0 THEN {} ELSE From[next[e]]
           IN  IF tail = 0 THEN {} ELSE From[tail]
Backward == LET From[e \in Elts] == {e} \cup IF prev[e] = 0 THEN {} ELSE From[prev[e]]
            IN  IF head = 0 THEN {} ELSE From[head]

\* No element of the chain is dropped while it holds a value: a consumer that
\* starts at the tail, and the producer that starts at the head, still find it.
\* The pushHead on a new element, whose result is ignored, cannot fail.
NothingDropped ==
    /\ TypeOK
    /\ \A e \in Elts : queue[e] # <<>> => e \in Forward \cap Backward
    /\ pc[Producer] = "pushNew" => HasRoom(head)

\* The chain as one queue, oldest value first.
Whole == FlattenSeq(queue)

D == INSTANCE Deque WITH queue <- Whole, Vals <- 1 .. MaxPush, Size <- MaxPush,
                         out <- got

\* The chain implements an atomic double-ended queue: whatever the consumers
\* drop meanwhile, a popTail takes the oldest value of all elements and a
\* popHead the newest.
ChainIsDeque == D!Spec
=============================================================================
