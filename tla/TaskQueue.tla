----------------------------- MODULE TaskQueue -----------------------------
(***************************************************************************)
(* The agent's keyed, coalescing task queue (opflexagent TaskQueue; its    *)
(* source is not under src/, so this module follows spec section 4.1).     *)
(*                                                                         *)
(* dispatch(id, task) queues the task unless a task with the same id is    *)
(* already queued and not started, in which case the queued task is        *)
(* replaced.  Every task the policy manager queues under a given id does   *)
(* the same work (the id is built from the URI, or is a constant for a     *)
(* whole-world recompute), so a replaced task is indistinguishable from    *)
(* the one replacing it and the queue is the SET of ids waiting to run.    *)
(* A single worker thread runs one task at a time; the spec allows         *)
(* independent tasks to run in any order, so the worker may take any id.   *)
(***************************************************************************)
CONSTANT Keys          \* the task ids the policy manager can dispatch

VARIABLE pending       \* ids queued and not yet started

\* dispatch(id, task) for every id in ids: queued once, coalesced if present
Dispatch(ids) == pending' = pending \cup ids

\* the worker starts the task queued under id
Take(id) ==
    /\ id \in pending
    /\ pending' = pending \ {id}

\* no task is waiting: the worker is idle
Idle == pending = {}
=============================================================================
