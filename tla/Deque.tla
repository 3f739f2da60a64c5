-------------------------------- MODULE Deque --------------------------------
(***************************************************************************)
(* What a poolDequeue promises (the comments of sync/poolqueue.go): a      *)
(* queue of bounded size; the producer pushes and pops at the head, any    *)
(* consumer pops at the tail, each in one atomic step.                     *)
(***************************************************************************)
EXTENDS Naturals, Sequences

CONSTANTS Producer, Consumers, Size, Vals, Nil

VARIABLES queue,    \* tail first
          out       \* what each goroutine has popped last, until it pops again

vars == <<queue, out>>

Init == queue = <<>> /\ out = [p \in Consumers \cup {Producer} |-> Nil]

PushHead(v) ==
    /\ Len(queue) < Size
    /\ queue' = Append(queue, v)
    /\ UNCHANGED out

PopHead ==
    /\ queue # <<>>
    /\ out' = [out EXCEPT ![Producer] = queue[Len(queue)]]
    /\ queue' = SubSeq(queue, 1, Len(queue) - 1)

PopTail(p) ==
    /\ queue # <<>>
    /\ out' = [out EXCEPT ![p] = Head(queue)]
    /\ queue' = Tail(queue)

\* A goroutine starts another call and forgets what it popped.
Forget(p) == out' = [out EXCEPT ![p] = Nil] /\ UNCHANGED queue

Next ==
    \/ \E v \in Vals : PushHead(v)
    \/ PopHead
    \/ \E p \in Consumers : PopTail(p)
    \/ \E p \in Consumers \cup {Producer} : Forget(p)

Spec == Init /\ [][Next]_vars
=============================================================================
