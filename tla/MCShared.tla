------------------------------ MODULE MCShared ------------------------------
(***************************************************************************)
(* Linked structures that goroutines share, for TLC: the tree of contexts, *)
(* and the ring buffer and the chain of sync.Pool.  A behaviour is one of  *)
(* a single part, chosen in the initial state; the other parts stay as     *)
(* they are initially.                                                     *)
(***************************************************************************)
EXTENDS Context, TLC

CONSTANTS Producer, Size, IndexMod, MaxPush,
          InitSize, Limit, ChainPush

\* "This must be at most (1<<dequeueBits)/2 because detecting fullness depends
\* on wrapping around the ring buffer without wrapping around the index."
ASSUME SizeAssumption ==
    /\ Size \in Nat \ {0} /\ IndexMod \in Nat
    /\ IndexMod >= 2 * Size /\ IndexMod % Size = 0

VARIABLES
    part,
    head, tail, typ, val, pc, ptrs, slot, got, next,
    first, last, nexts, prevs, queue, cpc, d, d2, popped, value

Ring == INSTANCE PoolDequeue WITH Consumers <- Clients
Chain == INSTANCE PoolChain WITH
            Consumers <- Clients, MaxPush <- ChainPush, head <- last, tail <- first, next <- nexts,
            prev <- prevs, pc <- cpc, got <- popped, val <- value

ringVars == <<head, tail, typ, val, pc, ptrs, slot, got, next>>
chainVars == <<first, last, nexts, prevs, queue, cpc, d, d2, popped, value>>

MCInit == part \in {"contexts", "ring", "chain"} /\ Init /\ Ring!Init /\ Chain!Init

MCNext ==
    \/ part = "contexts" /\ Next /\ UNCHANGED <<part, ringVars, chainVars>>
    \/ part = "ring" /\ Ring!Next /\ UNCHANGED <<part, vars, chainVars>>
    \/ part = "chain" /\ Chain!Next /\ UNCHANGED <<part, vars, ringVars>>

MCSpec == MCInit /\ [][MCNext]_<<part, vars, ringVars, chainVars>>

\* Goroutines, and the contexts they make, are interchangeable.
Symmetry == Permutations(Clients) \cup Permutations(Ctxs)

\* A slot of the ring has one owner, and unused slots are empty
\* (SlotOwnedOnce of PoolDequeue).
SlotOwnedOnce == part = "ring" => Ring!SlotOwnedOnce

\* The ring implements an atomic double-ended queue (IsDeque of PoolDequeue;
\* it is looked at only while the ring runs).
RD == INSTANCE Deque WITH
        queue <- IF part = "ring" THEN Ring!Queue ELSE <<>>,
        out <- [g \in Clients \cup {Producer} |-> IF part = "ring" THEN Ring!Popped(g) ELSE Nil],
        Vals <- 1 .. MaxPush, Consumers <- Clients

RingIsDeque == RD!Spec

\* No dequeue of the chain is dropped while it holds a value (NothingDropped
\* of PoolChain).
NothingDropped == part = "chain" => Chain!NothingDropped

\* The chain implements an atomic double-ended queue (ChainIsDeque of
\* PoolChain).
CD == INSTANCE Deque WITH
        queue <- IF part = "chain" THEN Chain!Whole ELSE <<>>, out <- popped,
        Vals <- 1 .. ChainPush, Consumers <- Clients, Size <- ChainPush

ChainIsDeque == CD!Spec
=============================================================================
