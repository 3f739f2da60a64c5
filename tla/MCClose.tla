------------------------------- MODULE MCClose -------------------------------
(***************************************************************************)
(* Those whom a cancellation or a close has to reach, for TLC: the         *)
(* contexts below a parent, or the callers of a pipe.  A behaviour is one  *)
(* of a single part, chosen in the initial state; the other part stays as  *)
(* it is initially.                                                        *)
(***************************************************************************)
EXTENDS Pipe

CONSTANTS Clients, Ctxs, Root, Foreign, Roots, AfterFuncer, Kinds, Causes

VARIABLES
    part,
    parent, kind, children, lock, err, cause, cdone, timer, once, watch, returned,
    expired, stack

C == INSTANCE Context WITH done <- cdone

ctxVars == <<parent, kind, children, lock, err, cause, cdone, timer, once, watch,
             returned, expired, stack>>

MCInit == part \in {"context", "pipe"} /\ Init /\ C!Init

MCNext ==
    \/ part = "context" /\ C!Next /\ UNCHANGED <<part, vars>>
    \/ part = "pipe" /\ Next /\ UNCHANGED <<part, ctxVars>>

\* The fairness of the part that runs, as its module states it.
MCFairness ==
    /\ \A g \in C!Procs : WF_ctxVars(part = "context" /\ C!Step(g))
    /\ \A c \in Ctxs : WF_ctxVars(part = "context" /\ C!Watch(c))
    /\ \A p \in Procs : WF_vars(part = "pipe" /\ Step(p))

MCSpec == MCInit /\ [][MCNext]_<<part, vars, ctxVars>> /\ MCFairness

\* A cancellation reaches the contexts below, f of AfterFunc runs or is stopped,
\* and the watchers end (CancelReaches of Context).
CancelReaches == C!CancelReaches
=============================================================================
