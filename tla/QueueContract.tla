---------------------------- MODULE QueueContract ---------------------------
(***************************************************************************)
(* What the scheduler takes the run queue for: a first-in first-out queue  *)
(* on which a put and a get each happen at one instant.  A task is on the  *)
(* queue or with one caller; owner says which.  RunQueue.tla is shown to   *)
(* implement this module, and Scheduler.tla uses the queue in this form.   *)
(***************************************************************************)
EXTENDS Sequences

CONSTANTS Procs, Tasks, NULL

VARIABLES
  fifo,    \* the tasks on the queue, oldest first
  owner    \* owner[t] = the caller that has task t, NULL while it is queued

vars == <<fifo, owner>>

Init ==
  /\ fifo = << >>
  /\ owner \in [Tasks -> Procs]

Put(p, t) ==
  /\ owner[t] = p
  /\ owner' = [owner EXCEPT ![t] = NULL]
  /\ fifo' = Append(fifo, t)

Get(p) ==
  /\ fifo # << >>
  /\ owner' = [owner EXCEPT ![Head(fifo)] = p]
  /\ fifo' = Tail(fifo)

Next == \E p \in Procs : Get(p) \/ \E t \in Tasks : Put(p, t)

Spec == Init /\ [][Next]_vars
=============================================================================
