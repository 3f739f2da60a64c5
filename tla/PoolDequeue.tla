----------------------------- MODULE PoolDequeue -----------------------------
(***************************************************************************)
(* poolDequeue (sync/poolqueue.go): the lock-free ring buffer behind       *)
(* sync.Pool, with one producer at its head and many consumers at its      *)
(* tail.  head and tail are indexes modulo IndexMod (2^32 in the code), in *)
(* one atomic word; a slot has a typ, nil when the slot is free, and a val.*)
(*                                                                         *)
(* The producer is at idle; push (headTail loaded, the queue not full),    *)
(* pushWrite, pushAdd; popHead (headTail loaded), popHeadRead, popHeadZero.*)
(* A consumer is at idle; popTail (headTail loaded), popTailRead,          *)
(* popTailVal and popTailTyp (before it clears val and typ).               *)
(***************************************************************************)
EXTENDS Naturals, Sequences, FiniteSets

CONSTANTS Producer, Consumers,
          Size,         \* len(vals), a power of 2, at most half of IndexMod
          IndexMod,     \* 2^dequeueBits
          MaxPush,      \* the values pushed are 1 .. MaxPush, in order
          Nil

VARIABLES
    head, tail,     \* the two halves of headTail
    typ, val,       \* of each slot
    pc,
    ptrs,           \* the headTail a goroutine has loaded
    slot,           \* the slot it owns
    got,            \* the value it has read
    next            \* the value pushed next

vars == <<head, tail, typ, val, pc, ptrs, slot, got, next>>

Procs == Consumers \cup {Producer}
Slots == 0 .. Size - 1
Inc(i) == (i + 1) % IndexMod
Dec(i) == (i + IndexMod - 1) % IndexMod

Init ==
    /\ head = 0 /\ tail = 0
    /\ typ = [i \in Slots |-> FALSE] /\ val = [i \in Slots |-> Nil]
    /\ pc = [p \in Procs |-> "idle"]
    /\ ptrs = [p \in Procs |-> <<0, 0>>]
    /\ slot = [p \in Procs |-> 0] /\ got = [p \in Procs |-> Nil]
    /\ next = 1

Goto(p, from, to) == pc[p] = from /\ pc' = [pc EXCEPT ![p] = to]
headTail == <<head, tail>>

-----------------------------------------------------------------------------
(* pushHead *)

IsFull == (tail + Size) % IndexMod = head

PushLoad ==
    /\ next <= MaxPush
    /\ Goto(Producer, "idle", IF IsFull THEN "idle" ELSE "push")
    /\ slot' = [slot EXCEPT ![Producer] = head % Size]
    /\ got' = [got EXCEPT ![Producer] = Nil]
    /\ UNCHANGED <<head, tail, typ, val, ptrs, next>>

\* Mutant: the slot's typ is not looked at.
PushCheckSkipped ==
    /\ Goto(Producer, "push", "pushWrite")
    /\ UNCHANGED <<head, tail, typ, val, ptrs, slot, got, next>>

\* The slot may still be in the hands of a popTail.
PushCheck ==
    /\ Goto(Producer, "push", IF typ[slot[Producer]] THEN "idle" ELSE "pushWrite")
    /\ UNCHANGED <<head, tail, typ, val, ptrs, slot, got, next>>

PushWrite ==
    /\ Goto(Producer, "pushWrite", "pushAdd")
    /\ typ' = [typ EXCEPT ![slot[Producer]] = TRUE]
    /\ val' = [val EXCEPT ![slot[Producer]] = next]
    /\ UNCHANGED <<head, tail, ptrs, slot, got, next>>

PushAdd ==
    /\ Goto(Producer, "pushAdd", "idle")
    /\ head' = Inc(head)
    /\ next' = next + 1
    /\ UNCHANGED <<tail, typ, val, ptrs, slot, got>>

-----------------------------------------------------------------------------
(* popHead *)

PopHeadLoad ==
    /\ Goto(Producer, "idle", IF head = tail THEN "idle" ELSE "popHead")
    /\ ptrs' = [ptrs EXCEPT ![Producer] = headTail]
    /\ got' = [got EXCEPT ![Producer] = Nil]
    /\ UNCHANGED <<head, tail, typ, val, slot, next>>

\* Mutant: the slot is the one at head before it is decremented.
PopHeadCASOffByOne ==
    LET wins == headTail = ptrs[Producer]
    IN  /\ Goto(Producer, "popHead",
                IF wins THEN "popHeadRead" ELSE IF head = tail THEN "idle" ELSE "popHead")
        /\ head' = IF wins THEN Dec(head) ELSE head
        /\ slot' = IF wins THEN [slot EXCEPT ![Producer] = head % Size] ELSE slot
        /\ ptrs' = IF wins THEN ptrs ELSE [ptrs EXCEPT ![Producer] = headTail]
        /\ UNCHANGED <<tail, typ, val, got, next>>

\* The CompareAndSwap; when it fails headTail is loaded again.
PopHeadCAS ==
    LET wins == headTail = ptrs[Producer]
    IN  /\ Goto(Producer, "popHead",
                IF wins THEN "popHeadRead" ELSE IF head = tail THEN "idle" ELSE "popHead")
        /\ head' = IF wins THEN Dec(head) ELSE head
        /\ slot' = IF wins THEN [slot EXCEPT ![Producer] = Dec(head) % Size] ELSE slot
        /\ ptrs' = IF wins THEN ptrs ELSE [ptrs EXCEPT ![Producer] = headTail]
        /\ UNCHANGED <<tail, typ, val, got, next>>

PopHeadRead ==
    /\ Goto(Producer, "popHeadRead", "popHeadZero")
    /\ got' = [got EXCEPT ![Producer] = val[slot[Producer]]]
    /\ UNCHANGED <<head, tail, typ, val, ptrs, slot, next>>

PopHeadZero ==
    /\ Goto(Producer, "popHeadZero", "idle")
    /\ typ' = [typ EXCEPT ![slot[Producer]] = FALSE]
    /\ val' = [val EXCEPT ![slot[Producer]] = Nil]
    /\ UNCHANGED <<head, tail, ptrs, slot, got, next>>

-----------------------------------------------------------------------------
(* popTail *)

PopTailLoad(p) ==
    /\ Goto(p, "idle", IF head = tail THEN "idle" ELSE "popTail")
    /\ ptrs' = [ptrs EXCEPT ![p] = headTail]
    /\ got' = [got EXCEPT ![p] = Nil]
    /\ UNCHANGED <<head, tail, typ, val, slot, next>>

PopTailCAS(p) ==
    LET wins == headTail = ptrs[p]
    IN  /\ Goto(p, "popTail",
                IF wins THEN "popTailRead" ELSE IF head = tail THEN "idle" ELSE "popTail")
        /\ tail' = IF wins THEN Inc(tail) ELSE tail
        /\ slot' = IF wins THEN [slot EXCEPT ![p] = tail % Size] ELSE slot
        /\ ptrs' = IF wins THEN ptrs ELSE [ptrs EXCEPT ![p] = headTail]
        /\ UNCHANGED <<head, typ, val, got, next>>

PopTailRead(p) ==
    /\ Goto(p, "popTailRead", "popTailVal")
    /\ got' = [got EXCEPT ![p] = val[slot[p]]]
    /\ UNCHANGED <<head, tail, typ, val, ptrs, slot, next>>

\* val is cleared first: typ hands the slot back to pushHead.
PopTailVal(p) ==
    /\ Goto(p, "popTailVal", "popTailTyp")
    /\ val' = [val EXCEPT ![slot[p]] = Nil]
    /\ UNCHANGED <<head, tail, typ, ptrs, slot, got, next>>

PopTailTyp(p) ==
    /\ Goto(p, "popTailTyp", "idle")
    /\ typ' = [typ EXCEPT ![slot[p]] = FALSE]
    /\ UNCHANGED <<head, tail, val, ptrs, slot, got, next>>

-----------------------------------------------------------------------------
Next ==
    \/ PushLoad \/ PushCheck \/ PushWrite \/ PushAdd
    \/ PopHeadLoad \/ PopHeadCAS \/ PopHeadRead \/ PopHeadZero
    \/ \E p \in Consumers : \/ PopTailLoad(p) \/ PopTailCAS(p) \/ PopTailRead(p)
                            \/ PopTailVal(p) \/ PopTailTyp(p)

Spec == Init /\ [][Next]_vars

-----------------------------------------------------------------------------
(* Properties *)

\* The number of elements, and the slots that hold them, tail first.
Count == (head + IndexMod - tail) % IndexMod
Queue == [i \in 1 .. Count |-> val[(tail + i - 1) % Size]]

\* The shape of the state; there are never more elements than slots.
TypeOK ==
    /\ head \in 0 .. IndexMod - 1 /\ tail \in 0 .. IndexMod - 1 /\ Count <= Size
    /\ typ \in [Slots -> BOOLEAN] /\ val \in [Slots -> 1 .. MaxPush \cup {Nil}]
    /\ pc[Producer] \in {"idle", "push", "pushWrite", "pushAdd", "popHead", "popHeadRead",
                         "popHeadZero"}
    /\ \A p \in Consumers :
        pc[p] \in {"idle", "popTail", "popTailRead", "popTailVal", "popTailTyp"}
    /\ slot \in [Procs -> Slots] /\ got \in [Procs -> 1 .. MaxPush \cup {Nil}]
    /\ next \in 1 .. MaxPush + 1

\* The slots that hold the elements, and the slot each goroutine has in hand.
InQueue == {(tail + i - 1) % Size : i \in 1 .. Count}
Holding(p) ==
    pc[p] \in {"pushWrite", "pushAdd", "popHeadRead", "popHeadZero", "popTailRead",
               "popTailVal", "popTailTyp"}

\* "Slots in the range [tail, head) are owned by consumers. A consumer
\* continues to own a slot outside this range until it nils the slot": no slot
\* is in two hands.  "it nils out unused slots": when nobody is in a call, a
\* slot holds a value exactly if it is in the queue.
SlotOwnedOnce ==
    /\ TypeOK
    /\ \A i \in InQueue : typ[i] /\ val[i] # Nil
    /\ (\A p \in Procs : pc[p] = "idle") =>
        \A i \in Slots \ InQueue : ~typ[i] /\ val[i] = Nil
    /\ \A p \in Procs : Holding(p) => slot[p] \notin InQueue
    /\ \A p, q \in Procs : p # q /\ Holding(p) /\ Holding(q) => slot[p] # slot[q]

\* A pop takes its element at the CompareAndSwap and reads it later.
Popped(p) == IF pc[p] \in {"popHeadRead", "popTailRead"} THEN val[slot[p]] ELSE got[p]

\* The ring buffer implements the atomic queue: a push takes effect when head
\* is incremented, a pop when its CompareAndSwap succeeds.
D == INSTANCE Deque WITH queue <- Queue, Vals <- 1 .. MaxPush,
                         out <- [p \in Procs |-> Popped(p)]

IsDeque == D!Spec
=============================================================================
